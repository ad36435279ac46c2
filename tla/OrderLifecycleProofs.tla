------------------------ MODULE OrderLifecycleProofs ------------------------
(***************************************************************************)
(* What OrderLifecycle guarantees for every set of requests, every set of  *)
(* payments and every number of event copies and faults.                   *)
(*                                                                         *)
(* The argument has three parts.  A request that is about to write holds   *)
(* an edge of its graph from the value it read (LocalsOK); so, since the   *)
(* write happens only on a row that still has that value, every step       *)
(* changes the row by one of the moves below, RowMove (StepsMoveRows);     *)
(* and each of those moves preserves RowInv.                               *)
(***************************************************************************)
EXTENDS OrderLifecycle, SequenceTheorems, TLAPS

-----------------------------------------------------------------------------
\* The writes of OrderRow: what each preserves of a row and of its audit
\* trails, for any row at all.

\* An entry that starts where the trail ends and follows an edge extends it.
LEMMA ReplayGrows ==
    ASSUME NEW Entry, NEW log \in Seq(Entry), NEW graph, NEW start,
           NEW current, NEW e \in Entry,
           Replays(log, graph, start, current),
           e.prev = current, e.new \in graph[current]
    PROVE  Replays(Append(log, e), graph, start, e.new)
<1> DEFINE next == Append(log, e)
<1>1. /\ Len(next) = Len(log) + 1
      /\ \A i \in 1..Len(log) : next[i] = log[i]
      /\ next[Len(log) + 1] = e
  BY AppendProperties
<1>2. Len(log) \in Nat /\ Len(log) > 0
  BY DEF Replays
<1>3. next[1].prev = None /\ next[1].new = start
  BY <1>1, <1>2 DEF Replays
<1>4. ASSUME NEW i \in 2..Len(next)
      PROVE  next[i].prev = next[i - 1].new /\ next[i].new \in graph[next[i - 1].new]
  <2>1. CASE i \in 2..Len(log)
    <3>1. i \in 1..Len(log) /\ i - 1 \in 1..Len(log)
      BY <2>1, <1>2
    <3> QED
      BY <2>1, <3>1, <1>1 DEF Replays
  <2>2. CASE i = Len(log) + 1
    <3>1. next[i] = e /\ next[i - 1] = log[Len(log)]
      BY <2>2, <1>1, <1>2
    <3> QED
      BY <3>1 DEF Replays
  <2> QED
    BY <2>1, <2>2, <1>1, <1>2
<1>5. next[Len(next)].new = e.new
  BY <1>1
<1> QED
  BY <1>1, <1>2, <1>3, <1>4, <1>5 DEF Replays

\* The statuses a trail records, oldest first.
History(log) == [i \in DOMAIN log |-> log[i].new]

LEMMA HistoryGrows ==
    ASSUME NEW Entry, NEW log \in Seq(Entry), NEW e \in Entry
    PROVE  History(Append(log, e)) = Append(History(log), e.new)
<1> DEFINE next == Append(log, e)
           left == History(next)
           right == Append(History(log), e.new)
<1>1. /\ Len(next) = Len(log) + 1
      /\ \A i \in 1..Len(log) : next[i] = log[i]
      /\ next[Len(log) + 1] = e
      /\ DOMAIN next = 1..(Len(log) + 1)
      /\ DOMAIN log = 1..Len(log)
      /\ Len(log) \in Nat
  BY AppendProperties
<1> DEFINE News == {log[i].new : i \in DOMAIN log} \cup {e.new}
<1>2. History(log) \in Seq(News) /\ Len(History(log)) = Len(log)
  <2>1. \A i \in 1..Len(log) : log[i].new \in News
    BY <1>1
  <2>2. [i \in 1..Len(log) |-> log[i].new] \in [1..Len(log) -> News]
    BY <2>1
  <2>3. History(log) = [i \in 1..Len(log) |-> log[i].new]
    BY <1>1 DEF History
  <2> HIDE DEF News
  <2> QED
    BY <2>2, <2>3, <1>1, IsASeq
<1>3. /\ DOMAIN right = 1..(Len(log) + 1)
      /\ \A i \in 1..Len(log) : right[i] = log[i].new
      /\ right[Len(log) + 1] = e.new
  <2>1. e.new \in News
    OBVIOUS
  <2>2. \A i \in 1..Len(log) : History(log)[i] = log[i].new
    BY <1>1 DEF History
  <2> HIDE DEF News
  <2> QED
    BY <1>1, <1>2, <2>1, <2>2, AppendProperties
<1>4. /\ DOMAIN left = 1..(Len(log) + 1)
      /\ \A i \in 1..(Len(log) + 1) : left[i] = next[i].new
  BY <1>1 DEF History
<1>5. \A i \in 1..(Len(log) + 1) : left[i] = right[i]
  BY <1>1, <1>3, <1>4
<1>6. left = [i \in 1..(Len(log) + 1) |-> left[i]]
  BY <1>4 DEF History
<1>7. right = [i \in 1..(Len(log) + 1) |-> right[i]]
  BY <1>2, <1>3
<1> QED
  BY <1>5, <1>6, <1>7

-----------------------------------------------------------------------------
(***************************************************************************)
(* What every committed row satisfies.  ConfirmOnPayment runs on a row     *)
(* that is paid and still initiated, so the money and the fulfilment parts *)
(* are kept apart: the first write restores one, the second the other.     *)
(***************************************************************************)
FulfilmentPart(r) ==
    Replays(r.statusLog, ORDER_TRANSITIONS, "initiated", r.status)

SettledOnce(r) ==
    /\ \A i, j \in DOMAIN r.paymentLog :
          r.paymentLog[i].new = "paid" /\ r.paymentLog[j].new = "paid" => i = j
    /\ \A i \in DOMAIN r.paymentLog :
          r.paymentLog[i].new = "paid" => r.payment \in {"paid", "refunded"}

MoneyPart(r) ==
    /\ Replays(r.paymentLog, PAYMENT_TRANSITIONS, "pending", r.payment)
    /\ SettledOnce(r)

RowInv(r) ==
    /\ r \in Row
    /\ FulfilmentPart(r)
    /\ MoneyPart(r)
    /\ r.payment \in {"paid", "refunded"} => r.status # "initiated"

\* The four ways a request may change a row that is still as it was read.
StatusMove(r, r2) ==
    \E target \in ORDER_TRANSITIONS[r.status], by \in {"staff", "kitchen"} :
        r2 = ApplyStatusTransition(r, r.status, target, by)

StaffPaymentMove(r, r2) ==
    \E target \in PAYMENT_TRANSITIONS[r.payment] :
        r2 = UpdatePaymentStatus(r, r.payment, target)

GatewayPaymentMove(r, r2) ==
    \E id \in Payments \cup {None}, by \in {"webhook", "reconciliation", "coupon"} :
        r2 = ApplyPaidTransition(r, id, by)

Attachment(r, r2) == r2 = [r EXCEPT !.gatewayOrder = TRUE]

RowMove(r, r2) ==
    \/ r2 = r
    \/ StatusMove(r, r2)
    \/ StaffPaymentMove(r, r2)
    \/ GatewayPaymentMove(r, r2)
    \/ Attachment(r, r2)

-----------------------------------------------------------------------------

LEMMA GraphsStayInside ==
    /\ \A s \in OrderStatuses : ORDER_TRANSITIONS[s] \subseteq OrderStatuses
    /\ \A s \in OrderStatuses : "initiated" \notin ORDER_TRANSITIONS[s]
    /\ \A p \in PaymentStatuses : PAYMENT_TRANSITIONS[p] \subseteq PaymentStatuses
    /\ \A p \in PaymentStatuses :
          p \in {"paid", "refunded"} => PAYMENT_TRANSITIONS[p] \subseteq {"refunded"}
BY DEF OrderStatuses, PaymentStatuses, ORDER_TRANSITIONS, PAYMENT_TRANSITIONS

\* One status entry appended, and the column set to match.
WithStatus(r, target, stamp, by) ==
    [r EXCEPT !.status = target, !.delivered = stamp,
              !.statusLog = Append(@, [prev |-> r.status, new |-> target,
                                       by |-> by])]

LEMMA StatusEntryAppended ==
    ASSUME NEW r \in Row, NEW target \in ORDER_TRANSITIONS[r.status],
           NEW by \in StatusAuthors, NEW stamp \in BOOLEAN,
           FulfilmentPart(r)
    PROVE  LET r2 == WithStatus(r, target, stamp, by)
           IN  /\ r2 \in Row
               /\ FulfilmentPart(r2)
               /\ r2.status = target
               /\ r2.payment = r.payment /\ r2.paymentLog = r.paymentLog
               /\ r2.statusLog = Append(r.statusLog, [prev |-> r.status,
                                                      new |-> target, by |-> by])
<1> DEFINE r2 == WithStatus(r, target, stamp, by)
           e == [prev |-> r.status, new |-> target, by |-> by]
<1>1. target \in OrderStatuses /\ r.status \in OrderStatuses
  BY GraphsStayInside DEF Row
<1>2. e \in StatusEntry /\ r.statusLog \in Seq(StatusEntry)
  BY <1>1 DEF StatusEntry, Row
<1>3. Append(r.statusLog, e) \in Seq(StatusEntry)
  BY <1>2, AppendProperties
<1>4. r2 \in Row
  BY <1>1, <1>3 DEF Row, WithStatus
<1>5. /\ r2.status = target /\ r2.statusLog = Append(r.statusLog, e)
      /\ r2.payment = r.payment /\ r2.paymentLog = r.paymentLog
  BY DEF Row, WithStatus
<1>6. Replays(Append(r.statusLog, e), ORDER_TRANSITIONS, "initiated", e.new)
  BY <1>2, ReplayGrows DEF FulfilmentPart
<1> QED
  BY <1>4, <1>5, <1>6 DEF FulfilmentPart

\* One payment entry appended, and the column set to match.
WithPayment(r, target, by, id, recorded) ==
    [r EXCEPT !.payment = target, !.gatewayPaymentId = recorded,
              !.paymentLog = Append(@, [prev |-> r.payment, new |-> target,
                                        by |-> by, gatewayPaymentId |-> id])]

LEMMA PaymentEntryAppended ==
    ASSUME NEW r \in Row, NEW target \in PAYMENT_TRANSITIONS[r.payment],
           NEW by \in PaymentAuthors, NEW id \in Payments \cup {None},
           NEW recorded \in Payments \cup {None},
           MoneyPart(r)
    PROVE  LET r2 == WithPayment(r, target, by, id, recorded)
           IN  /\ r2 \in Row
               /\ MoneyPart(r2)
               /\ r2.payment = target
               /\ r2.status = r.status /\ r2.statusLog = r.statusLog
               /\ r2.paymentLog = Append(r.paymentLog,
                                         [prev |-> r.payment, new |-> target,
                                          by |-> by, gatewayPaymentId |-> id])
<1> DEFINE r2 == WithPayment(r, target, by, id, recorded)
           e == [prev |-> r.payment, new |-> target, by |-> by,
                 gatewayPaymentId |-> id]
           log == r.paymentLog
           next == Append(log, e)
<1>1. target \in PaymentStatuses /\ r.payment \in PaymentStatuses
  BY GraphsStayInside DEF Row
<1>2. e \in PaymentEntry /\ log \in Seq(PaymentEntry)
  BY <1>1 DEF PaymentEntry, Row
<1>3. /\ next \in Seq(PaymentEntry)
      /\ Len(next) = Len(log) + 1
      /\ \A i \in 1..Len(log) : next[i] = log[i]
      /\ next[Len(log) + 1] = e
      /\ DOMAIN log = 1..Len(log) /\ DOMAIN next = 1..(Len(log) + 1)
      /\ Len(log) \in Nat
  BY <1>2, AppendProperties
<1>4. r2 \in Row
  BY <1>1, <1>3 DEF Row, WithPayment
<1>5. /\ r2.payment = target /\ r2.paymentLog = next
      /\ r2.status = r.status /\ r2.statusLog = r.statusLog
  BY DEF Row, WithPayment
<1>6. Replays(next, PAYMENT_TRANSITIONS, "pending", e.new)
  BY <1>2, ReplayGrows DEF MoneyPart
<1>7. SettledOnce(r2)
  <2>1. target = "paid" => r.payment \notin {"paid", "refunded"}
    BY <1>1, GraphsStayInside
  <2>2. r.payment \in {"paid", "refunded"} => target \in {"paid", "refunded"}
    BY <1>1, GraphsStayInside
  <2>3. \A i \in 1..(Len(log) + 1) : i \in 1..Len(log) \/ i = Len(log) + 1
    BY <1>3
  <2>4. SettledOnce(r)
    BY DEF MoneyPart
  <2> HIDE DEF next
  <2>5. \A i \in DOMAIN next : next[i].new = "paid" => target \in {"paid", "refunded"}
    BY <2>2, <2>3, <2>4, <1>3 DEF SettledOnce
  <2>6. \A i, j \in DOMAIN next :
            next[i].new = "paid" /\ next[j].new = "paid" => i = j
    BY <2>1, <2>3, <2>4, <1>3 DEF SettledOnce
  <2> QED
    BY <2>5, <2>6, <1>5 DEF SettledOnce
<1> QED
  BY <1>4, <1>5, <1>6, <1>7 DEF MoneyPart

(***************************************************************************)
(* confirmOnPayment restores the fulfilment side of a row just paid: the   *)
(* order is no longer initiated, and nothing of the money side is touched. *)
(***************************************************************************)
LEMMA ConfirmStartsFulfilment ==
    ASSUME NEW r \in Row, FulfilmentPart(r)
    PROVE  LET r2 == ConfirmOnPayment(r)
           IN  /\ r2 \in Row
               /\ FulfilmentPart(r2)
               /\ r2.status # "initiated"
               /\ r2.payment = r.payment /\ r2.paymentLog = r.paymentLog
               /\ IF r.status = "initiated"
                  THEN /\ r2.status = "confirmed"
                       /\ r2.statusLog = Append(r.statusLog,
                              [prev |-> "initiated", new |-> "confirmed",
                               by |-> "payment"])
                  ELSE r2 = r
<1> DEFINE r2 == ConfirmOnPayment(r)
<1>1. CASE r.status = "initiated"
  <2>1. "confirmed" \in ORDER_TRANSITIONS[r.status]
    BY <1>1 DEF ORDER_TRANSITIONS
  <2>2. r2 = WithStatus(r, "confirmed", r.delivered, "payment")
    BY <1>1 DEF ConfirmOnPayment, AwaitsConfirmation, WithStatus, Row
  <2>3. r.delivered \in BOOLEAN /\ "payment" \in StatusAuthors
    BY DEF Row, StatusAuthors
  <2> HIDE DEF r2
  <2>4. /\ r2 \in Row /\ FulfilmentPart(r2) /\ r2.status = "confirmed"
        /\ r2.payment = r.payment /\ r2.paymentLog = r.paymentLog
        /\ r2.statusLog = Append(r.statusLog, [prev |-> r.status,
                                               new |-> "confirmed",
                                               by |-> "payment"])
    BY <2>1, <2>2, <2>3, StatusEntryAppended
  <2> QED
    BY <2>4, <1>1 DEF r2
<1>2. CASE r.status # "initiated"
  BY <1>2 DEF ConfirmOnPayment, AwaitsConfirmation
<1> QED
  BY <1>1, <1>2

-----------------------------------------------------------------------------
\* Each of the moves preserves what every committed row satisfies.

LEMMA NewOrderIsSound ==
    ASSUME NEW free \in BOOLEAN
    PROVE  RowInv(NewOrder(free))
<1> DEFINE r == NewOrder(free)
           s0 == [prev |-> None, new |-> "initiated", by |-> "created"]
           p0 == [prev |-> None, new |-> "pending", by |-> "created",
                  gatewayPaymentId |-> None]
<1>1. s0 \in StatusEntry /\ p0 \in PaymentEntry
  BY DEF StatusEntry, PaymentEntry, OrderStatuses, PaymentStatuses,
         StatusAuthors, PaymentAuthors
<1>2. <<s0>> \in Seq(StatusEntry) /\ <<p0>> \in Seq(PaymentEntry)
  BY <1>1
<1>3. r \in Row
  BY <1>2 DEF NewOrder, Row, OrderStatuses, PaymentStatuses
<1>4. FulfilmentPart(r)
  BY DEF NewOrder, FulfilmentPart, Replays
<1>5. MoneyPart(r)
  BY DEF NewOrder, MoneyPart, Replays, SettledOnce
<1> QED
  BY <1>3, <1>4, <1>5 DEF RowInv, NewOrder

\* The money side depends on the payment column and its trail alone.
LEMMA MoneyPartCarries ==
    ASSUME NEW r, NEW r2, MoneyPart(r),
           r2.payment = r.payment, r2.paymentLog = r.paymentLog
    PROVE  MoneyPart(r2)
BY DEF MoneyPart, SettledOnce

LEMMA StatusMoveIsSound ==
    ASSUME NEW r, NEW r2, RowInv(r), StatusMove(r, r2)
    PROVE  /\ RowInv(r2)
           /\ r2.payment = r.payment /\ r2.paymentLog = r.paymentLog
           /\ r2.status \in ORDER_TRANSITIONS[r.status]
           /\ \E by \in {"staff", "kitchen"} :
                 r2.statusLog = Append(r.statusLog, [prev |-> r.status,
                                                    new |-> r2.status,
                                                    by |-> by])
<1>1. r \in Row /\ FulfilmentPart(r) /\ MoneyPart(r)
  BY DEF RowInv
<1>2. PICK target \in ORDER_TRANSITIONS[r.status], by \in {"staff", "kitchen"} :
         r2 = ApplyStatusTransition(r, r.status, target, by)
  BY DEF StatusMove
<1> DEFINE stamp == r.delivered \/ target = "delivered"
<1>3. r2 = WithStatus(r, target, stamp, by)
  BY <1>1, <1>2 DEF ApplyStatusTransition, WithStatus, Row
<1>4. stamp \in BOOLEAN /\ by \in StatusAuthors
  BY <1>1 DEF Row, StatusAuthors
<1> HIDE DEF stamp
<1>5. /\ r2 \in Row /\ FulfilmentPart(r2) /\ r2.status = target
      /\ r2.payment = r.payment /\ r2.paymentLog = r.paymentLog
      /\ r2.statusLog = Append(r.statusLog, [prev |-> r.status,
                                             new |-> target, by |-> by])
  BY <1>1, <1>3, <1>4, StatusEntryAppended
<1>6. MoneyPart(r2)
  BY <1>1, <1>5, MoneyPartCarries
<1>7. r2.status # "initiated"
  BY <1>1, <1>5, GraphsStayInside DEF Row
<1> QED
  BY <1>5, <1>6, <1>7 DEF RowInv

PaidThenConfirmed(r, target, by, id, recorded) ==
    IF target = "paid"
    THEN ConfirmOnPayment(WithPayment(r, target, by, id, recorded))
    ELSE WithPayment(r, target, by, id, recorded)

(***************************************************************************)
(* A payment entry followed, when it says paid, by confirmOnPayment: what  *)
(* the staff path and the shared seam have in common.                      *)
(***************************************************************************)
LEMMA PaymentThenConfirmation ==
    ASSUME NEW r, RowInv(r), NEW target \in PAYMENT_TRANSITIONS[r.payment],
           NEW by \in PaymentAuthors, NEW id \in Payments \cup {None},
           NEW recorded \in Payments \cup {None}
    PROVE  LET r2 == PaidThenConfirmed(r, target, by, id, recorded)
           IN  /\ RowInv(r2)
               /\ r2.payment = target
               /\ r2.paymentLog = Append(r.paymentLog,
                                         [prev |-> r.payment, new |-> target,
                                          by |-> by, gatewayPaymentId |-> id])
               /\ IF target = "paid" /\ r.status = "initiated"
                  THEN /\ r2.status = "confirmed"
                       /\ r2.statusLog = Append(r.statusLog,
                              [prev |-> "initiated", new |-> "confirmed",
                               by |-> "payment"])
                  ELSE r2.status = r.status /\ r2.statusLog = r.statusLog
<1> DEFINE r1 == WithPayment(r, target, by, id, recorded)
           r2 == PaidThenConfirmed(r, target, by, id, recorded)
<1>1. r \in Row /\ FulfilmentPart(r) /\ MoneyPart(r)
  BY DEF RowInv
<1>2. /\ r1 \in Row /\ MoneyPart(r1) /\ r1.payment = target
      /\ r1.status = r.status /\ r1.statusLog = r.statusLog
      /\ r1.paymentLog = Append(r.paymentLog,
                                [prev |-> r.payment, new |-> target,
                                 by |-> by, gatewayPaymentId |-> id])
  BY <1>1, PaymentEntryAppended
<1> HIDE DEF r1
<1>3. FulfilmentPart(r1)
  BY <1>1, <1>2 DEF FulfilmentPart
<1>4. CASE target = "paid"
  <2>1. r2 = ConfirmOnPayment(r1)
    BY <1>4 DEF r1, PaidThenConfirmed
  <2> HIDE DEF r2
  <2>2. /\ r2 \in Row /\ FulfilmentPart(r2) /\ r2.status # "initiated"
        /\ r2.payment = r1.payment /\ r2.paymentLog = r1.paymentLog
        /\ IF r1.status = "initiated"
           THEN /\ r2.status = "confirmed"
                /\ r2.statusLog = Append(r1.statusLog,
                       [prev |-> "initiated", new |-> "confirmed",
                        by |-> "payment"])
           ELSE r2 = r1
    BY <1>2, <1>3, <2>1, ConfirmStartsFulfilment
  <2>3. MoneyPart(r2)
    BY <1>2, <2>2, MoneyPartCarries
  <2> QED
    BY <1>2, <1>4, <2>2, <2>3 DEF RowInv, r2
<1>5. CASE target # "paid"
  <2>1. r2 = r1
    BY <1>5 DEF r1, PaidThenConfirmed
  <2> HIDE DEF r2
  <2>2. target \in {"paid", "refunded"} => r.payment \in {"paid", "refunded"}
    BY <1>1, <1>5 DEF PAYMENT_TRANSITIONS, Row, PaymentStatuses
  <2> QED
    BY <1>2, <1>3, <1>5, <2>1, <2>2 DEF RowInv, r2
<1> QED
  BY <1>4, <1>5

LEMMA StaffPaymentMoveIsSound ==
    ASSUME NEW r, NEW r2, RowInv(r),
           NEW target \in PAYMENT_TRANSITIONS[r.payment],
           r2 = UpdatePaymentStatus(r, r.payment, target)
    PROVE  /\ RowInv(r2)
           /\ r2.payment = target
           /\ r2.paymentLog = Append(r.paymentLog,
                                     [prev |-> r.payment, new |-> target,
                                      by |-> "staff", gatewayPaymentId |-> None])
           /\ IF target = "paid" /\ r.status = "initiated"
              THEN /\ r2.status = "confirmed"
                   /\ r2.statusLog = Append(r.statusLog,
                          [prev |-> "initiated", new |-> "confirmed",
                           by |-> "payment"])
              ELSE r2.status = r.status /\ r2.statusLog = r.statusLog
<1>1. r \in Row
  BY DEF RowInv
<1>2. r2 = PaidThenConfirmed(r, target, "staff", None, r.gatewayPaymentId)
  BY <1>1 DEF UpdatePaymentStatus, PaidThenConfirmed, WithPayment, Row
<1>3. "staff" \in PaymentAuthors /\ r.gatewayPaymentId \in Payments \cup {None}
  BY <1>1 DEF Row, PaymentAuthors
<1> QED
  BY <1>2, <1>3, PaymentThenConfirmation

LEMMA GatewayPaymentMoveIsSound ==
    ASSUME NEW r, NEW r2, RowInv(r), StillPending(r),
           NEW id \in Payments \cup {None}, NEW by \in PaymentAuthors,
           r2 = ApplyPaidTransition(r, id, by)
    PROVE  /\ RowInv(r2)
           /\ r2.payment = "paid"
           /\ r2.paymentLog = Append(r.paymentLog,
                                     [prev |-> "pending", new |-> "paid",
                                      by |-> by, gatewayPaymentId |-> id])
           /\ IF r.status = "initiated"
              THEN /\ r2.status = "confirmed"
                   /\ r2.statusLog = Append(r.statusLog,
                          [prev |-> "initiated", new |-> "confirmed",
                           by |-> "payment"])
              ELSE r2.status = r.status /\ r2.statusLog = r.statusLog
<1> DEFINE recorded == IF id = None THEN r.gatewayPaymentId ELSE id
<1>1. r \in Row /\ r.payment = "pending"
  BY DEF RowInv, StillPending
<1>2. r2 = PaidThenConfirmed(r, "paid", by, id, recorded)
  BY <1>1 DEF ApplyPaidTransition, StillPending, PaidThenConfirmed,
              WithPayment, Row
<1>3. recorded \in Payments \cup {None}
  BY <1>1 DEF Row
<1>4. "paid" \in PAYMENT_TRANSITIONS[r.payment]
  BY <1>1 DEF PAYMENT_TRANSITIONS
<1> HIDE DEF recorded
<1> QED
  BY <1>1, <1>2, <1>3, <1>4, PaymentThenConfirmation

LEMMA AttachmentIsSound ==
    ASSUME NEW r, NEW r2, RowInv(r), Attachment(r, r2)
    PROVE  /\ RowInv(r2)
           /\ r2.status = r.status /\ r2.statusLog = r.statusLog
           /\ r2.payment = r.payment /\ r2.paymentLog = r.paymentLog
<1>1. r \in Row /\ FulfilmentPart(r) /\ MoneyPart(r)
  BY DEF RowInv
<1>2. /\ r2 \in Row
      /\ r2.status = r.status /\ r2.statusLog = r.statusLog
      /\ r2.payment = r.payment /\ r2.paymentLog = r.paymentLog
  BY <1>1 DEF Attachment, Row
<1>3. FulfilmentPart(r2) /\ MoneyPart(r2)
  BY <1>1, <1>2, MoneyPartCarries DEF FulfilmentPart
<1> QED
  BY <1>2, <1>3 DEF RowInv

\* Whatever a request does to a sound row leaves it sound.
THEOREM RowMovesAreSound ==
    ASSUME NEW r, NEW r2, RowInv(r), RowMove(r, r2)
    PROVE  RowInv(r2)
<1>1. CASE StatusMove(r, r2)
  BY <1>1, StatusMoveIsSound
<1>2. CASE StaffPaymentMove(r, r2)
  BY <1>2, StaffPaymentMoveIsSound DEF StaffPaymentMove
<1>3. CASE GatewayPaymentMove(r, r2)
  <2>1. PICK id \in Payments \cup {None}, by \in {"webhook", "reconciliation", "coupon"} :
            r2 = ApplyPaidTransition(r, id, by)
    BY <1>3 DEF GatewayPaymentMove
  <2>2. by \in PaymentAuthors
    BY DEF PaymentAuthors
  <2>3. CASE StillPending(r)
    BY <2>1, <2>2, <2>3, GatewayPaymentMoveIsSound
  <2>4. CASE ~StillPending(r)
    BY <2>1, <2>4 DEF ApplyPaidTransition
  <2> QED
    BY <2>3, <2>4
<1>4. CASE Attachment(r, r2)
  BY <1>4, AttachmentIsSound
<1> QED
  BY <1>1, <1>2, <1>3, <1>4 DEF RowMove

-----------------------------------------------------------------------------
\* The requests, the gateway and the message

RequestsTyped ==
    /\ pc \in [Requests -> Places]
    /\ goal \in [Requests -> OrderStatuses \cup PaymentStatuses \cup {None}]
    /\ seen \in [Requests ->
                    OrderStatuses \cup PaymentStatuses \cup Payments \cup {None}]
    /\ reply \in [Requests -> Replies]

\* Everything of TypeOK but the row and the requests.
RestTyped ==
    /\ events \in [Payments -> Outcomes]
    /\ whatsapp \in {None, "success", "failed"}
    /\ gateway \in [Payments -> AttemptStates]
    /\ session \in BOOLEAN
    /\ deliveries \in [Deliveries -> {"unsent", "processing", "acked"}]
    /\ outbox \in Nat
    /\ sending \in {None, "success", "failed"}
    /\ messages \in Nat
    /\ faults \in 0..MaxFaults

\* What a request holds while it waits to write.
HoldsEdge(place, target, value) ==
    /\ place \in {"statusWrite", "kitchenWrite"}
          => value \in OrderStatuses /\ target \in ORDER_TRANSITIONS[value]
    /\ place = "paymentWrite"
          => value \in PaymentStatuses /\ target \in PAYMENT_TRANSITIONS[value]
    /\ place = "settling" => value \in Payments

LocalsOK == \A r \in Requests : HoldsEdge(pc[r], goal[r], seen[r])

IInv ==
    /\ RequestsTyped
    /\ RestTyped
    /\ RowInv(row)
    /\ LocalsOK

-----------------------------------------------------------------------------
\* The three ways a request moves keep its locals in order.

LEMMA AnswerKeepsLocals ==
    ASSUME RequestsTyped, LocalsOK, NEW r \in Requests, NEW what \in Replies,
           Answer(r, what)
    PROVE  RequestsTyped' /\ LocalsOK'
<1>1. RequestsTyped'
  BY DEF RequestsTyped, Answer, Places
<1>2. ASSUME NEW q \in Requests PROVE HoldsEdge(pc'[q], goal'[q], seen'[q])
  <2>1. CASE q = r
    BY <2>1 DEF RequestsTyped, Answer, HoldsEdge
  <2>2. CASE q # r
    BY <2>2 DEF RequestsTyped, Answer, LocalsOK
  <2> QED
    BY <2>1, <2>2
<1> QED
  BY <1>1, <1>2 DEF LocalsOK

LEMMA ProceedKeepsLocals ==
    ASSUME RequestsTyped, LocalsOK, NEW r \in Requests,
           NEW place \in Places \ {"statusWrite", "kitchenWrite",
                                   "paymentWrite", "settling"},
           Proceed(r, place)
    PROVE  RequestsTyped' /\ LocalsOK'
<1>1. RequestsTyped'
  BY DEF RequestsTyped, Proceed
<1>2. ASSUME NEW q \in Requests PROVE HoldsEdge(pc'[q], goal'[q], seen'[q])
  <2>1. CASE q = r
    BY <2>1 DEF RequestsTyped, Proceed, HoldsEdge
  <2>2. CASE q # r
    BY <2>2 DEF RequestsTyped, Proceed, LocalsOK
  <2> QED
    BY <2>1, <2>2
<1> QED
  BY <1>1, <1>2 DEF LocalsOK

LEMMA ProceedWithKeepsLocals ==
    ASSUME RequestsTyped, LocalsOK, NEW r \in Requests, NEW place \in Places,
           NEW target \in OrderStatuses \cup PaymentStatuses \cup {None},
           NEW value \in OrderStatuses \cup PaymentStatuses \cup Payments,
           HoldsEdge(place, target, value),
           ProceedWith(r, place, target, value)
    PROVE  RequestsTyped' /\ LocalsOK'
<1>1. RequestsTyped'
  BY DEF RequestsTyped, ProceedWith
<1>2. ASSUME NEW q \in Requests PROVE HoldsEdge(pc'[q], goal'[q], seen'[q])
  <2>1. CASE q = r
    BY <2>1 DEF RequestsTyped, ProceedWith
  <2>2. CASE q # r
    BY <2>2 DEF RequestsTyped, ProceedWith, LocalsOK
  <2> QED
    BY <2>1, <2>2
<1> QED
  BY <1>1, <1>2 DEF LocalsOK

\* A request that does not move keeps its locals as they are.
LEMMA IdleRequestsKeepLocals ==
    ASSUME RequestsTyped, LocalsOK, UNCHANGED requests
    PROVE  RequestsTyped' /\ LocalsOK'
BY DEF RequestsTyped, LocalsOK, requests

LEMMA QueueingStaysTyped ==
    ASSUME RestTyped, QueueIfConfirmed
    PROVE  outbox' \in Nat
BY DEF RestTyped, QueueIfConfirmed

-----------------------------------------------------------------------------
(***************************************************************************)
(* Every step moves the row by one of the moves above, RowMove, and        *)
(* leaves the rest of the state typed and the requests' locals in order.   *)
(***************************************************************************)
StepOK ==
    /\ RequestsTyped' /\ LocalsOK'
    /\ RestTyped'
    /\ RowMove(row, row')

LEMMA StatusRequestsStepOK ==
    ASSUME IInv, NEW r \in StatusRequests, StatusRead(r) \/ StatusWrite(r)
    PROVE  StepOK
<1>1. r \in Requests /\ row \in Row
  BY DEF Requests, IInv, RowInv
<1>2. CASE StatusRead(r)
  <2>1. RestTyped' /\ row' = row
    BY <1>2 DEF StatusRead, IInv, RestTyped, database, notifier, provider
  <2>2. PICK target \in OrderStatuses :
            \/ Answer(r, "ok")
            \/ Answer(r, "conflict")
            \/ /\ target \in ORDER_TRANSITIONS[row.status]
               /\ ProceedWith(r, "statusWrite", target, row.status)
    BY <1>2 DEF StatusRead
  <2>3. row.status \in OrderStatuses
    BY <1>1 DEF Row
  <2>4. RequestsTyped' /\ LocalsOK'
    <3>1. CASE Answer(r, "ok") \/ Answer(r, "conflict")
      BY <3>1, <1>1, AnswerKeepsLocals DEF IInv, Replies
    <3>2. CASE /\ target \in ORDER_TRANSITIONS[row.status]
               /\ ProceedWith(r, "statusWrite", target, row.status)
      <4>1. HoldsEdge("statusWrite", target, row.status)
        BY <2>3, <3>2 DEF HoldsEdge
      <4> QED
        BY <4>1, <2>3, <3>2, <1>1, ProceedWithKeepsLocals DEF IInv, Places
    <3> QED
      BY <2>2, <3>1, <3>2
  <2> QED
    BY <2>1, <2>4 DEF StepOK, RowMove
<1>3. CASE StatusWrite(r)
  <2>1. RestTyped'
    BY <1>3 DEF StatusWrite, IInv, RestTyped, notifier, provider
  <2>2. RequestsTyped' /\ LocalsOK'
    <3>1. Answer(r, "ok") \/ Answer(r, "conflict")
      BY <1>3 DEF StatusWrite
    <3> QED
      BY <3>1, <1>1, AnswerKeepsLocals DEF IInv, Replies
  <2>3. RowMove(row, row')
    <3>1. CASE StatusUnmoved(row, seen[r])
      <4>1. seen[r] = row.status /\ goal[r] \in ORDER_TRANSITIONS[row.status]
        BY <1>1, <1>3, <3>1
        DEF StatusWrite, StatusUnmoved, IInv, LocalsOK, HoldsEdge
      <4>2. row' = ApplyStatusTransition(row, row.status, goal[r], "staff")
        BY <1>3, <3>1, <4>1 DEF StatusWrite
      <4> QED
        BY <4>1, <4>2 DEF RowMove, StatusMove
    <3>2. CASE ~StatusUnmoved(row, seen[r])
      BY <1>3, <3>2 DEF StatusWrite, RowMove
    <3> QED
      BY <3>1, <3>2
  <2> QED
    BY <2>1, <2>2, <2>3 DEF StepOK
<1> QED
  BY <1>2, <1>3

LEMMA PaymentRequestsStepOK ==
    ASSUME IInv, NEW r \in PaymentRequests, PaymentRead(r) \/ PaymentWrite(r)
    PROVE  StepOK
<1>1. r \in Requests /\ row \in Row
  BY DEF Requests, IInv, RowInv
<1>2. CASE PaymentRead(r)
  <2>1. RestTyped' /\ row' = row
    BY <1>2 DEF PaymentRead, IInv, RestTyped, database, notifier, provider
  <2>2. PICK target \in PaymentStatuses :
            \/ Answer(r, "ok")
            \/ Answer(r, "conflict")
            \/ /\ target \in PAYMENT_TRANSITIONS[row.payment]
               /\ ProceedWith(r, "paymentWrite", target, row.payment)
    BY <1>2 DEF PaymentRead
  <2>3. row.payment \in PaymentStatuses
    BY <1>1 DEF Row
  <2>4. RequestsTyped' /\ LocalsOK'
    <3>1. CASE Answer(r, "ok") \/ Answer(r, "conflict")
      BY <3>1, <1>1, AnswerKeepsLocals DEF IInv, Replies
    <3>2. CASE /\ target \in PAYMENT_TRANSITIONS[row.payment]
               /\ ProceedWith(r, "paymentWrite", target, row.payment)
      <4>1. HoldsEdge("paymentWrite", target, row.payment)
        BY <2>3, <3>2 DEF HoldsEdge
      <4> QED
        BY <4>1, <2>3, <3>2, <1>1, ProceedWithKeepsLocals DEF IInv, Places
    <3> QED
      BY <2>2, <3>1, <3>2
  <2> QED
    BY <2>1, <2>4 DEF StepOK, RowMove
<1>3. CASE PaymentWrite(r)
  <2>1. RestTyped'
    <3>1. outbox' \in Nat
      BY <1>3, QueueingStaysTyped DEF PaymentWrite, IInv, RestTyped
    <3> QED
      BY <1>3, <3>1 DEF PaymentWrite, IInv, RestTyped, provider
  <2>2. RequestsTyped' /\ LocalsOK'
    <3>1. Answer(r, "ok") \/ Answer(r, "conflict")
      BY <1>3 DEF PaymentWrite
    <3> QED
      BY <3>1, <1>1, AnswerKeepsLocals DEF IInv, Replies
  <2>3. RowMove(row, row')
    <3>1. CASE PaymentUnmoved(row, seen[r])
      <4>1. seen[r] = row.payment /\ goal[r] \in PAYMENT_TRANSITIONS[row.payment]
        BY <1>1, <1>3, <3>1
        DEF PaymentWrite, PaymentUnmoved, IInv, LocalsOK, HoldsEdge
      <4>2. row' = UpdatePaymentStatus(row, row.payment, goal[r])
        BY <1>3, <3>1, <4>1 DEF PaymentWrite
      <4> QED
        BY <4>1, <4>2 DEF RowMove, StaffPaymentMove
    <3>2. CASE ~PaymentUnmoved(row, seen[r])
      BY <1>3, <3>2 DEF PaymentWrite, RowMove
    <3> QED
      BY <3>1, <3>2
  <2> QED
    BY <2>1, <2>2, <2>3 DEF StepOK
<1> QED
  BY <1>2, <1>3

LEMMA KitchenStepOK ==
    ASSUME IInv, NEW r \in KitchenRequests,
           KitchenRead(r) \/ KitchenWrite(r) \/ KitchenReread(r)
    PROVE  StepOK
<1>1. r \in Requests /\ row \in Row
  BY DEF Requests, IInv, RowInv
<1>2. CASE KitchenRead(r)
  <2>1. RestTyped' /\ row' = row
    BY <1>2 DEF KitchenRead, IInv, RestTyped, database, notifier, provider
  <2>2. PICK target \in KDS_ALLOWED_TARGETS :
            \/ Answer(r, "notfound") \/ Answer(r, "conflict")
            \/ Proceed(r, "kitchenReread")
            \/ /\ target \in ORDER_TRANSITIONS[row.status]
               /\ ProceedWith(r, "kitchenWrite", target, row.status)
    BY <1>2 DEF KitchenRead
  <2>3. row.status \in OrderStatuses /\ target \in OrderStatuses
    BY <1>1 DEF Row, KDS_ALLOWED_TARGETS, OrderStatuses
  <2>4. RequestsTyped' /\ LocalsOK'
    <3>1. CASE Answer(r, "notfound") \/ Answer(r, "conflict")
      BY <3>1, <1>1, AnswerKeepsLocals DEF IInv, Replies
    <3>2. CASE Proceed(r, "kitchenReread")
      BY <3>2, <1>1, ProceedKeepsLocals DEF IInv, Places
    <3>3. CASE /\ target \in ORDER_TRANSITIONS[row.status]
               /\ ProceedWith(r, "kitchenWrite", target, row.status)
      <4>1. HoldsEdge("kitchenWrite", target, row.status)
        BY <2>3, <3>3 DEF HoldsEdge
      <4> QED
        BY <4>1, <2>3, <3>3, <1>1, ProceedWithKeepsLocals DEF IInv, Places
    <3> QED
      BY <2>2, <3>1, <3>2, <3>3
  <2> QED
    BY <2>1, <2>4 DEF StepOK, RowMove
<1>3. CASE KitchenWrite(r)
  <2>1. RestTyped'
    BY <1>3 DEF KitchenWrite, IInv, RestTyped, notifier, provider
  <2>2. RequestsTyped' /\ LocalsOK'
    <3>1. CASE Proceed(r, "kitchenReread")
      BY <3>1, <1>1, ProceedKeepsLocals DEF IInv, Places
    <3>2. CASE Answer(r, "conflict")
      BY <3>2, <1>1, AnswerKeepsLocals DEF IInv, Replies
    <3> QED
      BY <1>3, <3>1, <3>2 DEF KitchenWrite
  <2>3. RowMove(row, row')
    <3>1. CASE StatusUnmoved(row, seen[r])
      <4>1. seen[r] = row.status /\ goal[r] \in ORDER_TRANSITIONS[row.status]
        BY <1>1, <1>3, <3>1
        DEF KitchenWrite, StatusUnmoved, IInv, LocalsOK, HoldsEdge
      <4>2. row' = ApplyStatusTransition(row, row.status, goal[r], "kitchen")
        BY <1>3, <3>1, <4>1 DEF KitchenWrite
      <4> QED
        BY <4>1, <4>2 DEF RowMove, StatusMove
    <3>2. CASE ~StatusUnmoved(row, seen[r])
      BY <1>3, <3>2 DEF KitchenWrite, RowMove
    <3> QED
      BY <3>1, <3>2
  <2> QED
    BY <2>1, <2>2, <2>3 DEF StepOK
<1>4. CASE KitchenReread(r)
  <2>1. RestTyped' /\ row' = row
    BY <1>4 DEF KitchenReread, IInv, RestTyped, database, notifier, provider
  <2>2. RequestsTyped' /\ LocalsOK'
    BY <1>4, <1>1, AnswerKeepsLocals DEF KitchenReread, IInv, Replies
  <2> QED
    BY <2>1, <2>2 DEF StepOK, RowMove
<1> QED
  BY <1>2, <1>3, <1>4

\* A settlement by any of the sources that carry the shared seam.
LEMMA SettlingMovesRow ==
    ASSUME NEW id \in Payments \cup {None},
           NEW by \in {"webhook", "reconciliation", "coupon"},
           row' = ApplyPaidTransition(row, id, by)
    PROVE  RowMove(row, row')
BY DEF RowMove, GatewayPaymentMove

LEMMA ConsumerReadsStepOK ==
    ASSUME IInv, NEW r \in InitRequests \cup VerifyRequests,
           InitRead(r) \/ VerifyRead(r) \/ CreateGatewayOrder(r)
    PROVE  StepOK
<1>1. r \in Requests
  BY DEF Requests
<1>2. RestTyped' /\ row' = row
  BY DEF InitRead, VerifyRead, CreateGatewayOrder, IInv, RestTyped, database,
         notifier, provider
<1>4. row.payment \in Replies
  BY DEF IInv, RowInv, Row, Replies
<1>3. RequestsTyped' /\ LocalsOK'
  <2>1. CASE InitRead(r)
    <3>1. \/ Answer(r, row.payment)
          \/ Proceed(r, "settlingFree")
          \/ Proceed(r, "asking")
          \/ Proceed(r, "creating")
      BY <2>1 DEF InitRead
    <3> QED
      BY <3>1, <1>1, <1>4, AnswerKeepsLocals, ProceedKeepsLocals
      DEF IInv, Places
  <2>2. CASE VerifyRead(r)
    <3>1. \/ Answer(r, row.payment) \/ Answer(r, "invalid")
          \/ Proceed(r, "asking")
      BY <2>2 DEF VerifyRead
    <3> QED
      BY <3>1, <1>1, <1>4, AnswerKeepsLocals, ProceedKeepsLocals
      DEF IInv, Replies, Places
  <2>3. CASE CreateGatewayOrder(r)
    <3>1. Proceed(r, "attaching") \/ Answer(r, "unavailable")
      BY <2>3 DEF CreateGatewayOrder
    <3> QED
      BY <3>1, <1>1, AnswerKeepsLocals, ProceedKeepsLocals
      DEF IInv, Replies, Places
  <2> QED
    BY <2>1, <2>2, <2>3
<1> QED
  BY <1>2, <1>3 DEF StepOK, RowMove

LEMMA ConsumerWritesStepOK ==
    ASSUME IInv, NEW r \in InitRequests \cup VerifyRequests,
           SettleFree(r) \/ AttachGatewayOrder(r) \/ SettleReconciled(r)
    PROVE  StepOK
<1>1. r \in Requests
  BY DEF Requests
<1>2. CASE SettleFree(r)
  <2>1. outbox' \in Nat
    BY <1>2, QueueingStaysTyped DEF SettleFree, IInv, RestTyped
  <2>2. RestTyped'
    BY <1>2, <2>1 DEF SettleFree, IInv, RestTyped, provider
  <2>3. RowMove(row, row')
    BY <1>2, SettlingMovesRow DEF SettleFree
  <2>4. RequestsTyped' /\ LocalsOK'
    BY <1>1, <1>2, AnswerKeepsLocals DEF SettleFree, IInv, Replies, PaymentStatuses
  <2> QED
    BY <2>2, <2>3, <2>4 DEF StepOK
<1>3. CASE AttachGatewayOrder(r)
  <2>1. RestTyped'
    BY <1>3 DEF AttachGatewayOrder, IInv, RestTyped, notifier
  <2>2. RowMove(row, row')
    BY <1>3 DEF AttachGatewayOrder, RowMove, Attachment
  <2>3. Answer(r, "session") \/ Answer(r, "nosession")
    BY <1>3 DEF AttachGatewayOrder
  <2>4. RequestsTyped' /\ LocalsOK'
    BY <1>1, <2>3, AnswerKeepsLocals DEF IInv, Replies
  <2> QED
    BY <2>1, <2>2, <2>4 DEF StepOK
<1>4. CASE SettleReconciled(r)
  <2>1. outbox' \in Nat
    BY <1>4, QueueingStaysTyped DEF SettleReconciled, IInv, RestTyped
  <2>2. RestTyped'
    BY <1>4, <2>1 DEF SettleReconciled, IInv, RestTyped, provider
  <2>3. seen[r] \in Payments
    BY <1>1, <1>4 DEF SettleReconciled, IInv, LocalsOK, HoldsEdge
  <2>4. RowMove(row, row')
    BY <1>4, <2>3, SettlingMovesRow DEF SettleReconciled
  <2>5. RequestsTyped' /\ LocalsOK'
    BY <1>1, <1>4, AnswerKeepsLocals DEF SettleReconciled, IInv, Replies, PaymentStatuses
  <2> QED
    BY <2>2, <2>4, <2>5 DEF StepOK
<1> QED
  BY <1>2, <1>3, <1>4

LEMMA AskGatewayStepOK ==
    ASSUME IInv, NEW r \in InitRequests \cup VerifyRequests, AskGateway(r)
    PROVE  StepOK
<1>1. r \in Requests
  BY DEF Requests
<1>2. row' = row /\ session' \in BOOLEAN
  BY DEF AskGateway, GatewayAnswersVerify, GatewayAnswersInit, IInv, RestTyped,
         database
<1>3. RestTyped'
  BY <1>2 DEF AskGateway, IInv, RestTyped, database, notifier
<1>4. \/ \E what \in Replies : Answer(r, what)
      \/ \E p \in Payments : ProceedWith(r, "settling", None, p)
  <2>1. CASE GatewayAnswersVerify(r)
    BY <2>1 DEF GatewayAnswersVerify, Replies
  <2>2. CASE GatewayAnswersInit(r)
    BY <2>2 DEF GatewayAnswersInit, Replies
  <2>3. CASE \E p \in Payments : ProceedWith(r, "settling", None, p)
    BY <2>3
  <2> QED
    BY <2>1, <2>2, <2>3 DEF AskGateway
<1>5. RequestsTyped' /\ LocalsOK'
  <2>1. CASE \E what \in Replies : Answer(r, what)
    BY <2>1, <1>1, AnswerKeepsLocals DEF IInv
  <2>2. ASSUME NEW p \in Payments, ProceedWith(r, "settling", None, p)
        PROVE  RequestsTyped' /\ LocalsOK'
    <3>1. HoldsEdge("settling", None, p)
      BY DEF HoldsEdge
    <3> QED
      BY <3>1, <2>2, <1>1, ProceedWithKeepsLocals DEF IInv, Places
  <2> QED
    BY <1>4, <2>1, <2>2
<1> QED
  BY <1>2, <1>3, <1>5 DEF StepOK, RowMove

LEMMA GatewayStepOK ==
    ASSUME IInv, NEW p \in Payments, BeginAttempt(p) \/ FinishAttempt(p)
    PROVE  StepOK
<1>1. RestTyped' /\ row' = row
  BY DEF BeginAttempt, FinishAttempt, IInv, RestTyped, AttemptStates, Finished,
         database, notifier
<1>2. RequestsTyped' /\ LocalsOK'
  BY IdleRequestsKeepLocals DEF BeginAttempt, FinishAttempt, IInv
<1> QED
  BY <1>1, <1>2 DEF StepOK, RowMove

LEMMA WebhookStepOK ==
    ASSUME IInv, NEW d \in Deliveries,
           ReceiveDelivery(d) \/ ProcessWebhookEvent(d) \/ DeliveryFails(d)
    PROVE  StepOK
<1>1. d[1] \in Payments /\ RestTyped
  BY DEF Deliveries, IInv
<1>2. RequestsTyped' /\ LocalsOK'
  BY IdleRequestsKeepLocals
  DEF ReceiveDelivery, ProcessWebhookEvent, DeliveryFails, IInv
<1>3. ASSUME \/ ApplyEvent(d[1]) \/ RolledBack(d[1])
             \/ UNCHANGED <<row, events, outbox>>
      PROVE  /\ RowMove(row, row')
             /\ events' \in [Payments -> Outcomes] /\ outbox' \in Nat
  <2>1. CASE RolledBack(d[1]) \/ UNCHANGED <<row, events, outbox>>
    BY <1>1, <2>1 DEF RolledBack, RowMove, RestTyped
  <2>2. CASE ApplyEvent(d[1])
    <3>1. CASE UNCHANGED <<row, outbox>>
      BY <1>1, <2>2, <3>1 DEF ApplyEvent, RowMove, RestTyped, Outcomes
    <3>2. CASE /\ row' = ApplyPaidTransition(row, d[1], "webhook")
               /\ QueueIfConfirmed
      <4>1. RowMove(row, row')
        BY <1>1, <3>2, SettlingMovesRow
      <4>2. outbox' \in Nat
        BY <1>1, <3>2, QueueingStaysTyped
      <4>3. events' \in [Payments -> Outcomes]
        BY <1>1, <2>2 DEF ApplyEvent, RestTyped, Outcomes
      <4> QED
        BY <4>1, <4>2, <4>3
    <3> QED
      BY <2>2, <3>1, <3>2 DEF ApplyEvent
  <2> QED
    BY <1>3, <2>1, <2>2
<1>4. CASE ReceiveDelivery(d)
  <2>1. RestTyped' /\ row' = row
    BY <1>1, <1>4 DEF ReceiveDelivery, RestTyped, database, notifier
  <2> QED
    BY <1>2, <2>1 DEF StepOK, RowMove
<1>5. CASE ProcessWebhookEvent(d)
  <2>1. /\ RowMove(row, row')
        /\ events' \in [Payments -> Outcomes] /\ outbox' \in Nat
    BY <1>3, <1>5 DEF ProcessWebhookEvent
  <2>2. RestTyped'
    BY <1>1, <1>5, <2>1 DEF ProcessWebhookEvent, RestTyped
  <2> QED
    BY <1>2, <2>1, <2>2 DEF StepOK
<1>6. CASE DeliveryFails(d)
  <2>1. /\ RowMove(row, row')
        /\ events' \in [Payments -> Outcomes] /\ outbox' \in Nat
    BY <1>3, <1>6 DEF DeliveryFails
  <2>2. faults' \in 0..MaxFaults
    BY <1>1, <1>6, BoundsAreNaturals DEF DeliveryFails, RestTyped
  <2>3. RestTyped'
    BY <1>1, <1>6, <2>1, <2>2 DEF DeliveryFails, RestTyped
  <2> QED
    BY <1>2, <2>1, <2>3 DEF StepOK
<1> QED
  BY <1>4, <1>5, <1>6

LEMMA NotifierStepOK ==
    ASSUME IInv, Notifier
    PROVE  StepOK
<1>1. RequestsTyped' /\ LocalsOK' /\ row' = row
  BY IdleRequestsKeepLocals
  DEF Notifier, SkipConfirmation, SendConfirmation, RecordWhatsApp, IInv,
      database
<1>2. RestTyped'
  BY DEF Notifier, SkipConfirmation, SendConfirmation, RecordWhatsApp, IInv,
         RestTyped, database, provider
<1> QED
  BY <1>1, <1>2 DEF StepOK, RowMove

LEMMA CrashStepOK ==
    ASSUME IInv, Crash
    PROVE  StepOK
<1>1. RestTyped' /\ row' = row
  BY BoundsAreNaturals DEF Crash, IInv, RestTyped, database
<1>2. RequestsTyped'
  BY DEF Crash, IInv, RequestsTyped, Places, Replies
<1>3. ASSUME NEW q \in Requests PROVE HoldsEdge(pc'[q], goal'[q], seen'[q])
  <2>1. /\ goal'[q] = goal[q] /\ seen'[q] = seen[q]
        /\ pc'[q] \in {"done", pc[q]}
    BY DEF Crash
  <2> QED
    BY <2>1 DEF HoldsEdge, IInv, LocalsOK
<1> QED
  BY <1>1, <1>2, <1>3 DEF StepOK, LocalsOK, RowMove

LEMMA StepsMoveRows ==
    ASSUME IInv, [Next]_vars
    PROVE  StepOK
<1>1. CASE Dashboard
  BY <1>1, StatusRequestsStepOK, PaymentRequestsStepOK DEF Dashboard
<1>2. CASE Kitchen
  BY <1>2, KitchenStepOK DEF Kitchen
<1>3. CASE Consumer
  BY <1>3, ConsumerReadsStepOK, ConsumerWritesStepOK, AskGatewayStepOK
  DEF Consumer
<1>4. CASE Gateway
  BY <1>4, GatewayStepOK DEF Gateway
<1>5. CASE Webhook
  BY <1>5, WebhookStepOK DEF Webhook
<1>6. CASE Notifier
  BY <1>6, NotifierStepOK
<1>7. CASE Crash
  BY <1>7, CrashStepOK
<1>8. CASE UNCHANGED vars
  <2>1. RestTyped' /\ row' = row
    BY <1>8 DEF vars, IInv, RestTyped
  <2>2. RequestsTyped' /\ LocalsOK'
    BY <1>8, IdleRequestsKeepLocals DEF vars, IInv, requests
  <2> QED
    BY <2>1, <2>2 DEF StepOK, RowMove
<1> QED
  BY <1>1, <1>2, <1>3, <1>4, <1>5, <1>6, <1>7, <1>8 DEF Next

-----------------------------------------------------------------------------
\* The invariant, and what follows from it.

LEMMA InitEstablishesIInv ==
    ASSUME Init
    PROVE  IInv
<1>1. RowInv(row)
  BY NewOrderIsSound DEF Init
<1>2. RequestsTyped
  BY DEF Init, RequestsTyped, Places, Replies
<1>3. RestTyped
  <2>1. 0 \in 0..MaxFaults
    BY BoundsAreNaturals
  <2>2. /\ [p \in Payments |-> None] \in [Payments -> Outcomes]
        /\ [p \in Payments |-> "none"] \in [Payments -> AttemptStates]
        /\ [d \in Deliveries |-> "unsent"]
              \in [Deliveries -> {"unsent", "processing", "acked"}]
    BY DEF Outcomes, AttemptStates
  <2> QED
    BY <2>1, <2>2 DEF Init, RestTyped
<1>4. LocalsOK
  BY DEF Init, LocalsOK, HoldsEdge
<1> QED
  BY <1>1, <1>2, <1>3, <1>4 DEF IInv

LEMMA StepsPreserveIInv ==
    ASSUME IInv, [Next]_vars
    PROVE  IInv'
<1>1. StepOK
  BY StepsMoveRows
<1>2. RowInv(row')
  BY <1>1, RowMovesAreSound DEF StepOK, IInv
<1> QED
  BY <1>1, <1>2 DEF StepOK, IInv

THEOREM Invariance == Spec => []IInv
<1>1. Init => IInv
  BY InitEstablishesIInv
<1>2. IInv /\ [Next]_vars => IInv'
  BY StepsPreserveIInv
<1> QED
  BY <1>1, <1>2, PTL DEF Spec

(***************************************************************************)
(* Every variable has its type: in particular the trails only ever hold    *)
(* well-formed entries, whichever endpoint wrote them.                     *)
(***************************************************************************)
THEOREM TypeCorrect == Spec => []TypeOK
<1>1. IInv => TypeOK
  BY DEF IInv, RowInv, RequestsTyped, RestTyped, TypeOK
<1> QED
  BY <1>1, Invariance, PTL

(***************************************************************************)
(* No path to `paid` leaves an order in `initiated`: the seam of           *)
(* fulfilment.service's confirmOnPayment, for any number of writers.       *)
(***************************************************************************)
THEOREM PaidOrdersAlwaysWork == Spec => []PaidOrdersAreWork
<1>1. IInv => PaidOrdersAreWork
  BY DEF IInv, RowInv, PaidOrdersAreWork
<1> QED
  BY <1>1, Invariance, PTL

(***************************************************************************)
(* Both audit trails replay to the row's columns, for any number of        *)
(* Dashboards, kitchen screens, customers and webhook deliveries writing.  *)
(***************************************************************************)
THEOREM TrailsAlwaysReplay == Spec => []AuditTrailsReplay
<1>1. IInv => AuditTrailsReplay
  BY DEF IInv, RowInv, FulfilmentPart, MoneyPart, AuditTrailsReplay
<1> QED
  BY <1>1, Invariance, PTL

(***************************************************************************)
(* The payment trail records one `paid` at most, whoever races whom: the   *)
(* guarantee paymenttransition.service gives its three callers.            *)
(***************************************************************************)
THEOREM NeverSettledTwice == Spec => []SettledAtMostOnce
<1>1. IInv => SettledAtMostOnce
  BY DEF IInv, RowInv, MoneyPart, SettledOnce, SettledAtMostOnce
<1> QED
  BY <1>1, Invariance, PTL

-----------------------------------------------------------------------------
(***************************************************************************)
(* The refinement.  A move of the row is a step of the promise, or leaves  *)
(* what the promise sees alone (attaching a gateway order does).           *)
(***************************************************************************)
LEMMA StatusMoveFulfils ==
    ASSUME RowInv(row), StatusMove(row, row')
    PROVE  Promise!Next
<1>1. /\ row'.payment = row.payment /\ row'.paymentLog = row.paymentLog
      /\ row'.status \in ORDER_TRANSITIONS[row.status]
  BY StatusMoveIsSound
<1>2. PICK by \in {"staff", "kitchen"} :
          row'.statusLog = Append(row.statusLog, [prev |-> row.status,
                                                  new |-> row'.status,
                                                  by |-> by])
  BY StatusMoveIsSound
<1> DEFINE e == [prev |-> row.status, new |-> row'.status, by |-> by]
<1>3. row.status \in OrderStatuses /\ row.statusLog \in Seq(StatusEntry)
  BY DEF RowInv, Row
<1>4. row'.status \in OrderStatuses
  BY <1>1, <1>3, GraphsStayInside
<1>5. e \in StatusEntry
  BY <1>3, <1>4 DEF StatusEntry, StatusAuthors
<1>6. History(row'.statusLog) = Append(History(row.statusLog), row'.status)
  BY <1>2, <1>3, <1>5, HistoryGrows
<1>7. PICK s \in OrderStatuses : s = row'.status
  BY <1>4
<1>8. Promise!Fulfil(s)
  BY <1>1, <1>6, <1>7 DEF Promise!Fulfil, History
<1>9. DOMAIN ORDER_TRANSITIONS = OrderStatuses
  BY DEF ORDER_TRANSITIONS, OrderStatuses
<1> QED
  BY <1>8, <1>9 DEF Promise!Next

\* What every payment move has in common, whoever made it.
PaymentStep(target, by, id) ==
    /\ target \in PAYMENT_TRANSITIONS[row.payment]
    /\ by \in PaymentAuthors /\ id \in Payments \cup {None}
    /\ row'.payment = target
    /\ row'.paymentLog = Append(row.paymentLog,
                                [prev |-> row.payment, new |-> target,
                                 by |-> by, gatewayPaymentId |-> id])
    /\ IF target = "paid" /\ row.status = "initiated"
       THEN /\ row'.status = "confirmed"
            /\ row'.statusLog = Append(row.statusLog,
                   [prev |-> "initiated", new |-> "confirmed", by |-> "payment"])
       ELSE row'.status = row.status /\ row'.statusLog = row.statusLog

LEMMA PaymentStepSettles ==
    ASSUME RowInv(row), NEW target, NEW by, NEW id, PaymentStep(target, by, id)
    PROVE  Promise!Next
<1> DEFINE p == [prev |-> row.payment, new |-> target, by |-> by,
                 gatewayPaymentId |-> id]
           s == [prev |-> "initiated", new |-> "confirmed", by |-> "payment"]
<1>1. /\ row.payment \in PaymentStatuses
      /\ row.paymentLog \in Seq(PaymentEntry)
      /\ row.statusLog \in Seq(StatusEntry)
  BY DEF RowInv, Row
<1>2. target \in PaymentStatuses
  BY <1>1, GraphsStayInside DEF PaymentStep
<1>3. p \in PaymentEntry /\ s \in StatusEntry
  BY <1>1, <1>2
  DEF PaymentStep, PaymentEntry, StatusEntry, StatusAuthors, OrderStatuses
<1>4. History(row'.paymentLog) = Append(History(row.paymentLog), target)
  BY <1>1, <1>3, HistoryGrows DEF PaymentStep
<1>5. History(Append(row.statusLog, s)) = Append(History(row.statusLog), "confirmed")
  BY <1>1, <1>3, HistoryGrows
<1>6. IF target = "paid" /\ row.status = "initiated"
      THEN /\ row'.status = "confirmed"
           /\ History(row'.statusLog) = Append(History(row.statusLog), "confirmed")
      ELSE /\ row'.status = row.status
           /\ History(row'.statusLog) = History(row.statusLog)
  BY <1>5 DEF PaymentStep
<1>7. Promise!Settle(target)
  BY <1>4, <1>6 DEF Promise!Settle, PaymentStep, History
<1>8. DOMAIN PAYMENT_TRANSITIONS = PaymentStatuses
  BY DEF PAYMENT_TRANSITIONS, PaymentStatuses
<1> QED
  BY <1>2, <1>7, <1>8 DEF Promise!Next

LEMMA RowMovesKeepPromise ==
    ASSUME RowInv(row), RowMove(row, row')
    PROVE  Promise!Next \/ UNCHANGED Promise!promiseVars
<1>1. CASE StatusMove(row, row')
  BY <1>1, StatusMoveFulfils
<1>2. CASE StaffPaymentMove(row, row')
  <2>1. PICK target \in PAYMENT_TRANSITIONS[row.payment] :
            row' = UpdatePaymentStatus(row, row.payment, target)
    BY <1>2 DEF StaffPaymentMove
  <2>2. PaymentStep(target, "staff", None)
    BY <2>1, StaffPaymentMoveIsSound DEF PaymentStep, PaymentAuthors
  <2> QED
    BY <2>2, PaymentStepSettles
<1>3. CASE GatewayPaymentMove(row, row')
  <2>1. PICK id \in Payments \cup {None},
             by \in {"webhook", "reconciliation", "coupon"} :
            row' = ApplyPaidTransition(row, id, by)
    BY <1>3 DEF GatewayPaymentMove
  <2>2. CASE StillPending(row)
    <3>1. by \in PaymentAuthors
      BY DEF PaymentAuthors
    <3>2. row.payment = "pending" /\ "paid" \in PAYMENT_TRANSITIONS[row.payment]
      BY <2>2 DEF StillPending, PAYMENT_TRANSITIONS
    <3>3. PaymentStep("paid", by, id)
      BY <2>1, <2>2, <3>1, <3>2, GatewayPaymentMoveIsSound DEF PaymentStep
    <3> QED
      BY <3>3, PaymentStepSettles
  <2>3. CASE ~StillPending(row)
    <3>1. row' = row
      BY <2>1, <2>3 DEF ApplyPaidTransition
    <3> QED
      BY <3>1 DEF Promise!promiseVars
  <2> QED
    BY <2>2, <2>3
<1>4. CASE Attachment(row, row')
  BY <1>4, AttachmentIsSound DEF Promise!promiseVars
<1>5. CASE row' = row
  BY <1>5 DEF Promise!promiseVars
<1> QED
  BY <1>1, <1>2, <1>3, <1>4, <1>5 DEF RowMove

(***************************************************************************)
(* The requests, the webhook and the kitchen, with all their races, show   *)
(* an observer of the row nothing the promise does not allow.              *)
(***************************************************************************)
THEOREM PromiseKept == Spec => LifecycleKeepsPromise
<1>1. Init => Promise!Init
  <2>1. ASSUME NEW free \in BOOLEAN, row = NewOrder(free)
        PROVE  Promise!Init
    <3>1. /\ row.status = "initiated" /\ row.payment = "pending"
          /\ row.statusLog = << [prev |-> None, new |-> "initiated",
                                 by |-> "created"] >>
          /\ row.paymentLog = << [prev |-> None, new |-> "pending",
                                  by |-> "created", gatewayPaymentId |-> None] >>
      BY <2>1 DEF NewOrder
    <3>2. /\ History(row.statusLog) = <<"initiated">>
          /\ History(row.paymentLog) = <<"pending">>
      BY <3>1 DEF History
    <3> QED
      BY <3>1, <3>2 DEF Promise!Init, History
  <2> QED
    BY <2>1 DEF Init
<1>2. IInv /\ [Next]_vars => [Promise!Next]_(Promise!promiseVars)
  BY StepsMoveRows, RowMovesKeepPromise DEF StepOK, IInv
<1> QED
  BY <1>1, <1>2, Invariance, PTL DEF Spec, LifecycleKeepsPromise, Promise!Spec

=============================================================================
