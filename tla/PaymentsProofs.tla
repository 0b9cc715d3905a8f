--------------------------- MODULE PaymentsProofs ---------------------------
(***************************************************************************)
(* Orders are credited once and codes are not overdrawn, for any orders,   *)
(* handlers, codes, users and limits.                                      *)
(*                                                                         *)
(* A redemption is recorded with the number of those before it, so that    *)
(* the record is new, and counts, if every recorded number is below the    *)
(* count of its code.  A code that was not created yet counts none.        *)
(***************************************************************************)
EXTENDS Payments, FiniteSetTheorems, TLAPS

RedemptionsNumbered ==
    \A x \in redemptions : x.no < Cardinality(RedemptionsOf(x.code))

NewCodesUnused == \A c \in Code : code[c].status = "none" => code[c].redeemed = 0

CodesInv == CodesNotOverdrawn /\ RedemptionsNumbered /\ NewCodesUnused

-----------------------------------------------------------------------------
\* A tick leaves of a row all but the time.
LEMMA LessOrder ==
    ASSUME NEW row \in OrderRow
    PROVE  Less(row) \in OrderRow /\ Less(row).status = row.status
  BY DEF Less, OrderRow

LEMMA LessCode ==
    ASSUME NEW row \in CodeRow
    PROVE  /\ Less(row) \in CodeRow /\ Less(row).status = row.status
           /\ Less(row).max = row.max /\ Less(row).redeemed = row.redeemed
  BY DEF Less, CodeRow

LEMMA CodeCounts ==
    ASSUME NEW row \in CodeRow
    PROVE  row.max \in Nat /\ row.redeemed \in Nat
  <1>1. row.max \in Limit \cup {Unlimited} /\ row.redeemed \in Nat
    BY DEF CodeRow
  <1>2. \A m \in Limit : m \in Nat
    BY PaymentsAssumption DEF PaymentsAssumption
  <1>3. CASE row.max = 0
    BY <1>1, <1>3
  <1>4. CASE row.max \in Limit
    BY <1>1, <1>2, <1>4
  <1> QED
    BY <1>1, <1>3, <1>4 DEF Unlimited

\* The redemptions of a code are finitely many.
LEMMA FiniteRedemptions ==
    ASSUME IsFiniteSet(redemptions), NEW c
    PROVE  /\ IsFiniteSet(RedemptionsOf(c))
           /\ Cardinality(RedemptionsOf(c)) \in Nat
  <1>1. RedemptionsOf(c) \subseteq redemptions
    BY DEF RedemptionsOf
  <1> QED
    BY <1>1, FS_Subset, FS_CardinalityType

-----------------------------------------------------------------------------
LEMMA TypeInit == Init => TypeOK
  <1> SUFFICES ASSUME Init PROVE TypeOK
    OBVIOUS
  <1>1. order \in [Order -> OrderRow] /\ credits \in [Order -> Nat]
    BY DEF Init, OrderRow
  <1>2. code \in [Code -> CodeRow]
    BY DEF Init, CodeRow, Unlimited
  <1> QED
    BY <1>1, <1>2, FS_EmptySet DEF Init, TypeOK

LEMMA TypeStep == TypeOK /\ [Next]_vars => TypeOK'
  <1> SUFFICES ASSUME TypeOK, [Next]_vars PROVE TypeOK'
    OBVIOUS
  <1> USE PaymentsAssumption DEF PaymentsAssumption
  <1>1. ASSUME NEW o \in Order, CreatePaymentOrder(o) PROVE TypeOK'
    BY <1>1 DEF CreatePaymentOrder, TypeOK, OrderRow
  <1>2. ASSUME NEW o \in Order, NEW h \in Handler, Webhook(h, o) PROVE TypeOK'
    <2> DEFINE w == [handler |-> h, order |-> o, late |-> order[o].left = 0]
    <2>1. (order[o].left = 0) \in BOOLEAN
      OBVIOUS
    <2>2. w \in WebhookType
      <3> HIDE <1>2
      <3> DEFINE late == order[o].left = 0
      <3> HIDE DEF late
      <3> SUFFICES late \in BOOLEAN => [handler |-> h, order |-> o, late |-> late] \in WebhookType
        BY <2>1 DEF late
      <3> QED
        BY DEF WebhookType
    <2> HIDE DEF w
    <2>3. webhooks' = webhooks \cup {w} /\ UNCHANGED <<order, credits, code, redemptions>>
      BY <1>2 DEF Webhook, w
    <2> QED
      BY <2>2, <2>3 DEF TypeOK
  <1>3. ASSUME NEW w \in webhooks, MarkPaymentOrderPaid(w) PROVE TypeOK'
    <2>1. w.order \in Order
      BY DEF TypeOK, WebhookType
    <2>2. order' \in [Order -> OrderRow]
      BY <1>3, <2>1 DEF MarkPaymentOrderPaid, TypeOK, OrderRow
    <2> QED
      BY <1>3, <2>1, <2>2 DEF MarkPaymentOrderPaid, TypeOK
  <1>4. ASSUME NEW w \in webhooks, RefuseLate(w) \/ MarkUnchanged(w) PROVE TypeOK'
    BY <1>4 DEF RefuseLate, MarkUnchanged, TypeOK
  <1>5. ASSUME NEW c \in Code, CreateRedemptionCode(c) PROVE TypeOK'
    <2>1. code' \in [Code -> CodeRow]
      BY <1>5 DEF CreateRedemptionCode, TypeOK, CodeRow
    <2> QED
      BY <1>5, <2>1 DEF CreateRedemptionCode, TypeOK
  <1>6. ASSUME NEW c \in Code, PatchRedemptionCode(c) PROVE TypeOK'
    <2>0. code[c] \in CodeRow
      BY DEF TypeOK
    <2>1. code' \in [Code -> CodeRow]
      <3>1. PICK status \in {"active", "inactive"}, left \in CodeTicks \cup {code[c].left},
                 max \in Limit \cup {Unlimited, code[c].max},
                 perUser \in Limit \cup {code[c].perUser} :
               /\ max = code[c].max \/ AcceptsMax(c, max)
               /\ Consistent(max, perUser)
               /\ code' = [code EXCEPT ![c].status = status, ![c].left = left,
                                       ![c].max = max, ![c].perUser = perUser]
        BY <1>6 DEF PatchRedemptionCode
      <3>2. left \in Nat /\ max \in Limit \cup {Unlimited} /\ perUser \in Limit \cup {1}
        BY <2>0, PaymentsAssumption DEF CodeRow, PaymentsAssumption
      <3>3. [code[c] EXCEPT !.status = status, !.left = left, !.max = max,
                            !.perUser = perUser] \in CodeRow
        BY <2>0, <3>2 DEF CodeRow
      <3> QED
        BY <3>1, <3>3 DEF TypeOK
    <2> QED
      BY <1>6, <2>1 DEF PatchRedemptionCode, TypeOK
  <1>7. ASSUME NEW c \in Code, DeleteRedemptionCode(c) PROVE TypeOK'
    <2>1. code' \in [Code -> CodeRow]
      BY <1>7 DEF DeleteRedemptionCode, TypeOK, CodeRow
    <2> QED
      BY <1>7, <2>1 DEF DeleteRedemptionCode, TypeOK
  <1>8. ASSUME NEW c \in Code, NEW u \in User, RedeemCode(c, u) PROVE TypeOK'
    <2>1. code' \in [Code -> CodeRow]
      BY <1>8 DEF RedeemCode, TypeOK, CodeRow
    <2>2. Cardinality(RedemptionsOf(c)) \in Nat
      BY FiniteRedemptions DEF TypeOK
    <2>3. redemptions' \subseteq Redemption
      BY <1>8, <2>2 DEF RedeemCode, TypeOK, Redemption
    <2>4. IsFiniteSet(redemptions')
      BY <1>8, FS_AddElement DEF RedeemCode, TypeOK
    <2> QED
      BY <1>8, <2>1, <2>3, <2>4 DEF RedeemCode, TypeOK
  <1>9. CASE Tick
    BY <1>9, LessOrder, LessCode DEF Tick, TypeOK
  <1>10. CASE UNCHANGED vars
    BY <1>10 DEF vars, TypeOK
  <1> QED
    BY <1>1, <1>2, <1>3, <1>4, <1>5, <1>6, <1>7, <1>8, <1>9, <1>10 DEF Next

\* Rows keep their types, whatever the limits and lifetimes chosen.
THEOREM PaymentsTypeCorrect == Spec => []TypeOK
  BY TypeInit, TypeStep, PTL DEF Spec

-----------------------------------------------------------------------------
LEMMA CreditedInit == Init => CreditedOncePerOrder
  BY DEF Init, CreditedOncePerOrder

LEMMA CreditedStep ==
    TypeOK /\ CreditedOncePerOrder /\ [Next]_vars => CreditedOncePerOrder'
  <1> SUFFICES ASSUME TypeOK, CreditedOncePerOrder, [Next]_vars
               PROVE  CreditedOncePerOrder'
    OBVIOUS
  <1>1. ASSUME NEW o \in Order, CreatePaymentOrder(o) PROVE CreditedOncePerOrder'
    BY <1>1 DEF CreatePaymentOrder, CreditedOncePerOrder, TypeOK, OrderRow
  <1>2. ASSUME NEW w \in webhooks, MarkPaymentOrderPaid(w) PROVE CreditedOncePerOrder'
    <2>1. w.order \in Order
      BY DEF TypeOK, WebhookType
    <2>2. order[w.order].status # "paid"
      BY <1>2 DEF MarkPaymentOrderPaid
    <2> QED
      BY <1>2, <2>1, <2>2 DEF MarkPaymentOrderPaid, CreditedOncePerOrder, TypeOK, OrderRow
  <1>3. CASE Tick
    BY <1>3, LessOrder DEF Tick, CreditedOncePerOrder, TypeOK
  <1>4. CASE UNCHANGED <<order, credits>>
    BY <1>4 DEF CreditedOncePerOrder
  <1> QED
    BY <1>1, <1>2, <1>3, <1>4
       DEF Next, Webhook, RefuseLate, MarkUnchanged, CreateRedemptionCode,
           PatchRedemptionCode, DeleteRedemptionCode, RedeemCode, vars

\* An order is credited once if it is paid and not at all otherwise, however many
\* handlers of its webhooks are under way (repository.go:834-915).
THEOREM CreditedOnce == Spec => []CreditedOncePerOrder
  BY PaymentsTypeCorrect, CreditedInit, CreditedStep, PTL DEF Spec

-----------------------------------------------------------------------------
LEMMA CodesInit == Init => CodesInv
  <1> SUFFICES ASSUME Init PROVE CodesInv
    OBVIOUS
  <1>1. \A c \in Code : RedemptionsOf(c) = {}
    BY DEF Init, RedemptionsOf
  <1> QED
    BY <1>1, FS_EmptySet
       DEF Init, CodesInv, CodesNotOverdrawn, RedemptionsNumbered, NewCodesUnused

\* A redemption's record is new: it is counted once, for its code only.
LEMMA RedemptionCounts ==
    ASSUME TypeOK, RedemptionsNumbered, NEW c \in Code, NEW u \in User, RedeemCode(c, u)
    PROVE  /\ Cardinality(RedemptionsOf(c)') = Cardinality(RedemptionsOf(c)) + 1
           /\ \A d : d # c => RedemptionsOf(d)' = RedemptionsOf(d)
  <1> DEFINE x == [code |-> c, user |-> u, no |-> Cardinality(RedemptionsOf(c))]
  <1>1. Cardinality(RedemptionsOf(c)) \in Nat /\ IsFiniteSet(RedemptionsOf(c))
    BY FiniteRedemptions DEF TypeOK
  <1>2. x \notin RedemptionsOf(c)
    BY <1>1 DEF RedemptionsNumbered, RedemptionsOf
  <1>3. RedemptionsOf(c)' = RedemptionsOf(c) \cup {x}
    BY DEF RedeemCode, RedemptionsOf
  <1>4. \A d : d # c => RedemptionsOf(d)' = RedemptionsOf(d)
    BY DEF RedeemCode, RedemptionsOf
  <1> HIDE DEF x
  <1>5. Cardinality(RedemptionsOf(c) \cup {x}) = Cardinality(RedemptionsOf(c)) + 1
    BY <1>1, <1>2, FS_AddElement
  <1> QED
    BY <1>3, <1>4, <1>5

LEMMA CodesStep == TypeOK /\ CodesInv /\ [Next]_vars => CodesInv'
  <1> SUFFICES ASSUME TypeOK, CodesInv, [Next]_vars PROVE CodesInv'
    OBVIOUS
  <1> USE DEF CodesInv
  <1>0. \A c \in Code : /\ code[c] \in CodeRow
                        /\ Cardinality(RedemptionsOf(c)) \in Nat
                        /\ (redemptions' = redemptions => RedemptionsOf(c)' = RedemptionsOf(c))
    BY FiniteRedemptions DEF TypeOK, RedemptionsOf
  <1>1. ASSUME redemptions' = redemptions PROVE RedemptionsNumbered'
    BY <1>1 DEF RedemptionsNumbered, RedemptionsOf
  <1>2. ASSUME NEW c \in Code, CreateRedemptionCode(c) PROVE CodesInv'
    <2>1. redemptions' = redemptions
      BY <1>2 DEF CreateRedemptionCode
    <2>2. code[c].redeemed = 0 /\ Cardinality(RedemptionsOf(c)) = 0
      BY <1>2 DEF CreateRedemptionCode, NewCodesUnused, CodesNotOverdrawn
    <2>3. PICK left \in CodeTicks, max \in Limit \cup {Unlimited}, perUser \in Limit :
             code' = [code EXCEPT ![c] = [status |-> "active", left |-> left, max |-> max,
                                          perUser |-> perUser, redeemed |-> 0]]
      BY <1>2 DEF CreateRedemptionCode
    <2>4. \A d \in Code : code'[d] = IF d = c THEN [status |-> "active", left |-> left, max |-> max,
                                          perUser |-> perUser, redeemed |-> 0] ELSE code[d]
      BY <2>3 DEF TypeOK
    <2>5. max \in Nat
      BY PaymentsAssumption DEF PaymentsAssumption, Unlimited
    <2>6. CodesNotOverdrawn'
      BY <1>0, <2>1, <2>2, <2>4, <2>5 DEF CodesNotOverdrawn, Unlimited
    <2> QED
      BY <1>1, <2>1, <2>4, <2>6 DEF NewCodesUnused
  <1>3. ASSUME NEW c \in Code, PatchRedemptionCode(c) PROVE CodesInv'
    <2>1. redemptions' = redemptions /\ code[c].status # "none"
      BY <1>3 DEF PatchRedemptionCode
    <2>2. PICK status \in {"active", "inactive"}, max \in Limit \cup {Unlimited, code[c].max} :
             /\ max = code[c].max \/ AcceptsMax(c, max)
             /\ code'[c].status = status /\ code'[c].max = max
             /\ code'[c].redeemed = code[c].redeemed
      BY <1>0, <1>3 DEF PatchRedemptionCode, TypeOK, CodeRow
    <2>3. \A d \in Code \ {c} : code'[d] = code[d]
      BY <1>3 DEF PatchRedemptionCode, TypeOK
    <2>4. max \in Nat /\ code[c].redeemed \in Nat
      BY <1>0, PaymentsAssumption DEF PaymentsAssumption, CodeRow, Unlimited
    <2>5. CodesNotOverdrawn'
      BY <1>0, <2>1, <2>2, <2>3, <2>4 DEF CodesNotOverdrawn, AcceptsMax
    <2> QED
      BY <1>1, <2>1, <2>2, <2>3, <2>5 DEF NewCodesUnused
  <1>4. ASSUME NEW c \in Code, DeleteRedemptionCode(c) PROVE CodesInv'
    <2>1. /\ redemptions' = redemptions
          /\ \A d \in Code : /\ code'[d].max = code[d].max
                             /\ code'[d].redeemed = code[d].redeemed
                             /\ code'[d].status = "none" => code[d].status = "none"
      BY <1>0, <1>4 DEF DeleteRedemptionCode, TypeOK, CodeRow
    <2> QED
      BY <1>0, <1>1, <2>1 DEF CodesNotOverdrawn, NewCodesUnused
  <1>5. ASSUME NEW c \in Code, NEW u \in User, RedeemCode(c, u) PROVE CodesInv'
    <2>1. /\ Cardinality(RedemptionsOf(c)') = Cardinality(RedemptionsOf(c)) + 1
          /\ \A d : d # c => RedemptionsOf(d)' = RedemptionsOf(d)
      BY <1>5, RedemptionCounts
    <2>2. /\ code'[c].redeemed = code[c].redeemed + 1 /\ code'[c].max = code[c].max
          /\ code'[c].status = "active"
          /\ \A d \in Code \ {c} : code'[d] = code[d]
      BY <1>0, <1>5 DEF RedeemCode, Redeemable, TypeOK, CodeRow
    <2>3. code[c].max # Unlimited => code[c].redeemed < code[c].max
      BY <1>5 DEF RedeemCode, Redeemable
    <2>4. code[c].max \in Nat /\ code[c].redeemed \in Nat
      BY <1>0, CodeCounts
    <2>5. CodesNotOverdrawn'
      BY <1>0, <2>1, <2>2, <2>3, <2>4 DEF CodesNotOverdrawn
    <2>6. RedemptionsNumbered'
      <3> SUFFICES ASSUME NEW x \in redemptions'
                   PROVE  x.no < Cardinality(RedemptionsOf(x.code)')
        BY DEF RedemptionsNumbered, RedemptionsOf
      <3>1. CASE x \in redemptions
        <4>1. x.code \in Code /\ x.no \in Nat
          BY <3>1 DEF TypeOK, Redemption
        <4>2. x.no < Cardinality(RedemptionsOf(x.code))
          BY <3>1 DEF RedemptionsNumbered
        <4> QED
          BY <1>0, <2>1, <4>1, <4>2
      <3>2. CASE x = [code |-> c, user |-> u, no |-> Cardinality(RedemptionsOf(c))]
        BY <1>0, <2>1, <3>2
      <3> QED
        BY <1>5, <3>1, <3>2 DEF RedeemCode
    <2> QED
      BY <2>2, <2>5, <2>6 DEF NewCodesUnused
  <1>6. CASE Tick
    <2>1. /\ redemptions' = redemptions
          /\ \A d \in Code : /\ code'[d].max = code[d].max
                             /\ code'[d].redeemed = code[d].redeemed
                             /\ code'[d].status = code[d].status
      BY <1>0, <1>6, LessCode DEF Tick
    <2> QED
      BY <1>0, <1>1, <2>1 DEF CodesNotOverdrawn, NewCodesUnused
  <1>7. CASE UNCHANGED <<code, redemptions>>
    BY <1>0, <1>1, <1>7 DEF CodesNotOverdrawn, NewCodesUnused
  <1> QED
    BY <1>2, <1>3, <1>4, <1>5, <1>6, <1>7
       DEF Next, CreatePaymentOrder, Webhook, MarkPaymentOrderPaid, RefuseLate,
           MarkUnchanged, vars

\* The count of a code is that of its redemptions and never exceeds the maximum
\* in force, whoever redeems it and however administrators change it meanwhile
\* (repository.go:1133-1199, 1220-1298).
THEOREM CodesKept == Spec => []CodesNotOverdrawn
  <1>1. Spec => []CodesInv
    BY PaymentsTypeCorrect, CodesInit, CodesStep, PTL DEF Spec
  <1>2. CodesInv => CodesNotOverdrawn
    BY DEF CodesInv
  <1> QED
    BY <1>1, <1>2, PTL

=============================================================================
