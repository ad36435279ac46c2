--------------------------- MODULE OrderMoneyProofs ---------------------------
(***************************************************************************)
(* What money means in OrderLifecycle, for every set of requests and       *)
(* payments and every number of event copies and faults: which payments    *)
(* settle an order, what the webhook's dedup records say of them, who may  *)
(* be told `paid`, what the kitchen may start on, and how many messages    *)
(* leave.                                                                  *)
(*                                                                         *)
(* None of this needs the order of the trails, so a trail is read as the   *)
(* set of its entries.  All a request carries from one step to the next    *)
(* concerns facts that never become false again (Grows): entries stay,     *)
(* a success stays one, gateway_order_id is never cleared, and the total   *)
(* is never changed.  So what a request found out (LocalTruth) still holds *)
(* when it writes, whatever ran in between.                                *)
(***************************************************************************)
EXTENDS OrderLifecycleProofs

Entries(log) == {log[i] : i \in DOMAIN log}

Paid == \E e \in Entries(row.paymentLog) : e.new = "paid"

PaidByStaff ==
    \E e \in Entries(row.paymentLog) : e.new = "paid" /\ e.by = "staff"

HasMoney ==
    \/ row.free
    \/ \E p \in Payments : gateway[p] = "SUCCESS"
    \/ PaidByStaff

\* What a request knows by being where it is, or by what it answered.
LocalTruth(place, value, answer) ==
    /\ place = "asking" => row.gatewayOrder
    /\ place = "settling" => gateway[value] = "SUCCESS"
    /\ place = "settlingFree" => row.free
    /\ place = "kitchenWrite" => Paid
    /\ answer = "paid" => HasMoney

LocalsTrue == \A r \in Requests : LocalTruth(pc[r], seen[r], reply[r])

TrailTrue ==
    /\ \A e \in Entries(row.paymentLog) :
          /\ e.by \in {"webhook", "reconciliation"}
                => /\ e.gatewayPaymentId \in Payments
                   /\ gateway[e.gatewayPaymentId] = "SUCCESS"
          /\ e.by = "coupon" => row.free
          /\ e.by = "created" => e.new = "pending"
    /\ row.gatewayPaymentId # None
          => \E e \in Entries(row.paymentLog) :
                e.new = "paid" /\ e.gatewayPaymentId = row.gatewayPaymentId

HasWebhookEntry(p) ==
    \E e \in Entries(row.paymentLog) : e.by = "webhook" /\ e.gatewayPaymentId = p

EventsTrue == \A p \in Payments : events[p] = "applied" <=> HasWebhookEntry(p)

KitchenPaid == (\E e \in Entries(row.statusLog) : e.by = "kitchen") => Paid

MessagesTrue ==
    /\ messages + outbox <= 1
    /\ row.status = "initiated" => messages + outbox = 0
    /\ messages + outbox > 0
          => \E e \in Entries(row.statusLog) : e.by = "payment"
    /\ sending = "success" => messages = 1
    /\ whatsapp = "success" => messages = 1

Books == TrailTrue /\ EventsTrue /\ KitchenPaid /\ MessagesTrue

MInv == Books /\ LocalsTrue /\ EveryAttemptFindsItsOrder

-----------------------------------------------------------------------------
(***************************************************************************)
(* What the writes do to the entries.  A step leaves all of them alone     *)
(* (Untouched), adds one to the status trail, or adds one to the payment   *)
(* trail and, when that is the order's first money, the confirmation.      *)
(***************************************************************************)
Confirmation == [prev |-> "initiated", new |-> "confirmed", by |-> "payment"]

Untouched ==
    /\ row'.status = row.status /\ row'.gatewayPaymentId = row.gatewayPaymentId
    /\ Entries(row'.statusLog) = Entries(row.statusLog)
    /\ Entries(row'.paymentLog) = Entries(row.paymentLog)

StatusAdded(e) ==
    /\ row'.status # "initiated" /\ row'.gatewayPaymentId = row.gatewayPaymentId
    /\ Entries(row'.statusLog) = Entries(row.statusLog) \cup {e}
    /\ Entries(row'.paymentLog) = Entries(row.paymentLog)

PaymentAdded(e, id) ==
    /\ row'.gatewayPaymentId = id
    /\ Entries(row'.paymentLog) = Entries(row.paymentLog) \cup {e}
    /\ IF e.new = "paid" /\ row.status = "initiated"
       THEN /\ row'.status = "confirmed"
            /\ Entries(row'.statusLog)
                  = Entries(row.statusLog) \cup {Confirmation}
       ELSE /\ row'.status = row.status
            /\ Entries(row'.statusLog) = Entries(row.statusLog)

LEMMA EntriesGrow ==
    ASSUME NEW Entry, NEW log \in Seq(Entry), NEW e \in Entry
    PROVE  Entries(Append(log, e)) = Entries(log) \cup {e}
<1>1. /\ Len(Append(log, e)) = Len(log) + 1
      /\ \A i \in 1..Len(log) : Append(log, e)[i] = log[i]
      /\ Append(log, e)[Len(log) + 1] = e
      /\ DOMAIN Append(log, e) = 1..(Len(log) + 1)
      /\ DOMAIN log = 1..Len(log)
      /\ Len(log) \in Nat
  BY AppendProperties
<1>2. Entries(Append(log, e)) \subseteq Entries(log) \cup {e}
  BY <1>1 DEF Entries
<1>3. e \in Entries(Append(log, e))
  <2>1. Len(log) + 1 \in 1..(Len(log) + 1)
    BY <1>1
  <2> QED
    BY <2>1, <1>1 DEF Entries
<1>4. Entries(log) \subseteq Entries(Append(log, e))
  <2>1. 1..Len(log) \subseteq 1..(Len(log) + 1)
    BY <1>1
  <2> QED
    BY <2>1, <1>1 DEF Entries
<1> QED
  BY <1>2, <1>3, <1>4

LEMMA RowIsTyped ==
    ASSUME RowInv(row)
    PROVE  /\ row \in Row
           /\ row.status \in OrderStatuses /\ row.payment \in PaymentStatuses
           /\ row.statusLog \in Seq(StatusEntry)
           /\ row.paymentLog \in Seq(PaymentEntry)
           /\ row.gatewayPaymentId \in Payments \cup {None}
BY DEF RowInv, Row

LEMMA StatusWriteAdds ==
    ASSUME RowInv(row), NEW target \in ORDER_TRANSITIONS[row.status],
           NEW by \in {"staff", "kitchen"},
           row' = ApplyStatusTransition(row, row.status, target, by)
    PROVE  StatusAdded([prev |-> row.status, new |-> target, by |-> by])
<1> DEFINE e == [prev |-> row.status, new |-> target, by |-> by]
<1>1. target \in OrderStatuses /\ target # "initiated"
  BY RowIsTyped DEF ORDER_TRANSITIONS, OrderStatuses
<1>2. e \in StatusEntry
  BY <1>1, RowIsTyped DEF StatusEntry, StatusAuthors
<1>3. /\ row'.status = target /\ row'.gatewayPaymentId = row.gatewayPaymentId
      /\ row'.statusLog = Append(row.statusLog, e)
      /\ row'.paymentLog = row.paymentLog
  BY RowIsTyped DEF ApplyStatusTransition, Row
<1>4. Entries(row'.statusLog) = Entries(row.statusLog) \cup {e}
  BY <1>2, <1>3, RowIsTyped, EntriesGrow
<1> QED
  BY <1>1, <1>3, <1>4 DEF StatusAdded

LEMMA ConfirmationIsAnEntry == Confirmation \in StatusEntry
BY DEF Confirmation, StatusEntry, StatusAuthors, OrderStatuses

LEMMA StaffPaymentWriteAdds ==
    ASSUME RowInv(row), NEW target \in PAYMENT_TRANSITIONS[row.payment],
           row' = UpdatePaymentStatus(row, row.payment, target)
    PROVE  PaymentAdded([prev |-> row.payment, new |-> target, by |-> "staff",
                         gatewayPaymentId |-> None], row.gatewayPaymentId)
<1> DEFINE e == [prev |-> row.payment, new |-> target, by |-> "staff",
                 gatewayPaymentId |-> None]
<1>1. target \in PaymentStatuses
  BY RowIsTyped, GraphsStayInside
<1>2. e \in PaymentEntry
  BY <1>1, RowIsTyped DEF PaymentEntry, PaymentAuthors
<1>3. /\ row'.paymentLog = Append(row.paymentLog, e)
      /\ IF target = "paid" /\ row.status = "initiated"
         THEN /\ row'.status = "confirmed"
              /\ row'.statusLog = Append(row.statusLog, Confirmation)
         ELSE row'.status = row.status /\ row'.statusLog = row.statusLog
  BY StaffPaymentMoveIsSound DEF Confirmation
<1>4. row'.gatewayPaymentId = row.gatewayPaymentId
  BY RowIsTyped DEF UpdatePaymentStatus, ConfirmOnPayment, Row
<1>5. Entries(row'.paymentLog) = Entries(row.paymentLog) \cup {e}
  BY <1>2, <1>3, RowIsTyped, EntriesGrow
<1>6. Entries(Append(row.statusLog, Confirmation))
         = Entries(row.statusLog) \cup {Confirmation}
  BY RowIsTyped, ConfirmationIsAnEntry, EntriesGrow
<1> QED
  BY <1>3, <1>4, <1>5, <1>6 DEF PaymentAdded

LEMMA SettlementAdds ==
    ASSUME RowInv(row), StillPending(row),
           NEW id \in Payments \cup {None},
           NEW by \in {"webhook", "reconciliation", "coupon"},
           row' = ApplyPaidTransition(row, id, by)
    PROVE  PaymentAdded([prev |-> "pending", new |-> "paid", by |-> by,
                         gatewayPaymentId |-> id],
                        IF id = None THEN row.gatewayPaymentId ELSE id)
<1> DEFINE e == [prev |-> "pending", new |-> "paid", by |-> by,
                 gatewayPaymentId |-> id]
<1>1. by \in PaymentAuthors
  BY DEF PaymentAuthors
<1>2. e \in PaymentEntry
  BY <1>1 DEF PaymentEntry, PaymentStatuses
<1>3. /\ row'.paymentLog = Append(row.paymentLog, e)
      /\ IF row.status = "initiated"
         THEN /\ row'.status = "confirmed"
              /\ row'.statusLog = Append(row.statusLog, Confirmation)
         ELSE row'.status = row.status /\ row'.statusLog = row.statusLog
  BY <1>1, GatewayPaymentMoveIsSound DEF Confirmation
<1>4. row'.gatewayPaymentId = IF id = None THEN row.gatewayPaymentId ELSE id
  BY RowIsTyped DEF ApplyPaidTransition, ConfirmOnPayment, StillPending, Row
<1>5. Entries(row'.paymentLog) = Entries(row.paymentLog) \cup {e}
  BY <1>2, <1>3, RowIsTyped, EntriesGrow
<1>6. Entries(Append(row.statusLog, Confirmation))
         = Entries(row.statusLog) \cup {Confirmation}
  BY RowIsTyped, ConfirmationIsAnEntry, EntriesGrow
<1> QED
  BY <1>3, <1>4, <1>5, <1>6 DEF PaymentAdded

LEMMA LateSettlementDoesNothing ==
    ASSUME NEW id, NEW by, ~StillPending(row),
           row' = ApplyPaidTransition(row, id, by)
    PROVE  row' = row
BY DEF ApplyPaidTransition

-----------------------------------------------------------------------------
\* What never becomes false again.

RowGrows ==
    /\ row.gatewayOrder => row'.gatewayOrder
    /\ row'.free = row.free
    /\ Entries(row.paymentLog) \subseteq Entries(row'.paymentLog)

Grows ==
    /\ RowGrows
    /\ \A p \in Payments : gateway[p] = "SUCCESS" => gateway'[p] = "SUCCESS"

LEMMA RowMovesGrow ==
    ASSUME RowInv(row), RowMove(row, row')
    PROVE  RowGrows
<1>1. CASE row' = row
  BY <1>1 DEF RowGrows
<1>2. CASE StatusMove(row, row')
  <2>1. PICK target \in ORDER_TRANSITIONS[row.status], by \in {"staff", "kitchen"} :
            row' = ApplyStatusTransition(row, row.status, target, by)
    BY <1>2 DEF StatusMove
  <2>2. row'.gatewayOrder = row.gatewayOrder /\ row'.free = row.free
    BY <2>1, RowIsTyped DEF ApplyStatusTransition, Row
  <2>3. Entries(row'.paymentLog) = Entries(row.paymentLog)
    BY <2>1, StatusWriteAdds DEF StatusAdded
  <2> QED
    BY <2>2, <2>3 DEF RowGrows
<1>3. CASE StaffPaymentMove(row, row')
  <2>1. PICK target \in PAYMENT_TRANSITIONS[row.payment] :
            row' = UpdatePaymentStatus(row, row.payment, target)
    BY <1>3 DEF StaffPaymentMove
  <2>2. row'.gatewayOrder = row.gatewayOrder /\ row'.free = row.free
    BY <2>1, RowIsTyped DEF UpdatePaymentStatus, ConfirmOnPayment, Row
  <2>3. Entries(row.paymentLog) \subseteq Entries(row'.paymentLog)
    BY <2>1, StaffPaymentWriteAdds DEF PaymentAdded
  <2> QED
    BY <2>2, <2>3 DEF RowGrows
<1>4. CASE GatewayPaymentMove(row, row')
  <2>1. PICK id \in Payments \cup {None},
             by \in {"webhook", "reconciliation", "coupon"} :
            row' = ApplyPaidTransition(row, id, by)
    BY <1>4 DEF GatewayPaymentMove
  <2>2. CASE StillPending(row)
    <3>1. row'.gatewayOrder = row.gatewayOrder /\ row'.free = row.free
      BY <2>1, RowIsTyped DEF ApplyPaidTransition, ConfirmOnPayment, Row
    <3>2. Entries(row.paymentLog) \subseteq Entries(row'.paymentLog)
      BY <2>1, <2>2, SettlementAdds DEF PaymentAdded
    <3> QED
      BY <3>1, <3>2 DEF RowGrows
  <2>3. CASE ~StillPending(row)
    BY <2>1, <2>3, LateSettlementDoesNothing DEF RowGrows
  <2> QED
    BY <2>2, <2>3
<1>5. CASE Attachment(row, row')
  BY <1>5, RowIsTyped DEF Attachment, Row, RowGrows
<1> QED
  BY <1>1, <1>2, <1>3, <1>4, <1>5 DEF RowMove

\* Only the gateway itself moves an attempt, and a success is final.
LEMMA SuccessIsFinal ==
    ASSUME IInv, [Next]_vars, NEW p \in Payments, gateway[p] = "SUCCESS"
    PROVE  gateway'[p] = "SUCCESS"
<1>1. CASE Gateway
  <2>1. PICK q \in Payments : BeginAttempt(q) \/ FinishAttempt(q)
    BY <1>1 DEF Gateway
  <2>2. q # p
    BY <2>1 DEF BeginAttempt, FinishAttempt
  <2> QED
    BY <2>1, <2>2 DEF BeginAttempt, FinishAttempt, IInv, RestTyped
<1>2. CASE ~Gateway
  <2>1. gateway' = gateway
    <3>1. CASE Dashboard \/ Kitchen
      BY <3>1 DEF Dashboard, StatusRead, StatusWrite, PaymentRead, PaymentWrite,
                  Kitchen, KitchenRead, KitchenWrite, KitchenReread, provider
    <3>2. CASE Consumer
      BY <3>2 DEF Consumer, InitRead, SettleFree, CreateGatewayOrder,
                  AttachGatewayOrder, VerifyRead, AskGateway, SettleReconciled,
                  provider
    <3>3. CASE Webhook
      BY <3>3 DEF Webhook, ReceiveDelivery, ProcessWebhookEvent, DeliveryFails
    <3>4. CASE Notifier \/ Crash \/ UNCHANGED vars
      BY <3>4 DEF Notifier, SkipConfirmation, SendConfirmation, RecordWhatsApp,
                  Crash, vars, provider
    <3> QED
      BY <1>2, <3>1, <3>2, <3>3, <3>4 DEF Next
  <2> QED
    BY <2>1
<1> QED
  BY <1>1, <1>2

LEMMA StepsGrow ==
    ASSUME IInv, [Next]_vars
    PROVE  Grows
<1>1. RowGrows
  BY StepsMoveRows, RowMovesGrow DEF StepOK, IInv
<1> QED
  BY <1>1, SuccessIsFinal DEF Grows

-----------------------------------------------------------------------------
\* What a request found out stays true until it acts on it.

TruthAfter(place, value, answer) ==
    /\ place = "asking" => row'.gatewayOrder
    /\ place = "settling" => gateway'[value] = "SUCCESS"
    /\ place = "settlingFree" => row'.free
    /\ place = "kitchenWrite" => Paid'
    /\ answer = "paid" => HasMoney'

LEMMA TruthsLast ==
    ASSUME IInv, LocalsTrue, Grows
    PROVE  \A q \in Requests : TruthAfter(pc[q], seen[q], reply[q])
<1> SUFFICES ASSUME NEW q \in Requests
             PROVE  TruthAfter(pc[q], seen[q], reply[q])
  OBVIOUS
<1>1. LocalTruth(pc[q], seen[q], reply[q])
  BY DEF LocalsTrue
<1>2. pc[q] = "settling" => seen[q] \in Payments
  BY DEF IInv, LocalsOK, HoldsEdge
<1>3. Paid => Paid'
  BY DEF Grows, RowGrows, Paid
<1>4. HasMoney => HasMoney'
  BY DEF Grows, RowGrows, HasMoney, PaidByStaff
<1> QED
  BY <1>1, <1>2, <1>3, <1>4 DEF Grows, RowGrows, LocalTruth, TruthAfter

LEMMA TruthsMakeTheInvariant ==
    ASSUME \A q \in Requests : TruthAfter(pc'[q], seen'[q], reply'[q])
    PROVE  LocalsTrue'
BY DEF TruthAfter, LocalsTrue, LocalTruth

LEMMA AnswersKeepTruth ==
    ASSUME IInv, LocalsTrue, Grows, NEW r \in Requests, NEW what,
           what = "paid" => HasMoney', Answer(r, what)
    PROVE  LocalsTrue'
<1>1. ASSUME NEW q \in Requests
      PROVE  TruthAfter(pc'[q], seen'[q], reply'[q])
  <2>1. CASE q = r
    BY <2>1 DEF Answer, IInv, RequestsTyped, TruthAfter
  <2>2. CASE q # r
    <3>1. pc'[q] = pc[q] /\ seen'[q] = seen[q] /\ reply'[q] = reply[q]
      BY <2>2 DEF Answer, IInv, RequestsTyped
    <3> QED
      BY <3>1, TruthsLast
  <2> QED
    BY <2>1, <2>2
<1> QED
  BY <1>1, TruthsMakeTheInvariant

LEMMA MovesKeepTruth ==
    ASSUME IInv, LocalsTrue, Grows, NEW r \in Requests, NEW place \in Places,
           NEW value,
           place = "asking" => row'.gatewayOrder,
           place = "settling" => gateway'[value] = "SUCCESS",
           place = "settlingFree" => row'.free,
           place = "kitchenWrite" => Paid',
           \/ value = seen[r] /\ Proceed(r, place)
           \/ \E target : ProceedWith(r, place, target, value)
    PROVE  LocalsTrue'
<1>1. ASSUME NEW q \in Requests
      PROVE  TruthAfter(pc'[q], seen'[q], reply'[q])
  <2>1. CASE q = r
    <3>1. pc'[q] = place /\ seen'[q] = value /\ reply'[q] = reply[q]
      BY <2>1 DEF Proceed, ProceedWith, IInv, RequestsTyped
    <3>2. reply[q] = "paid" => HasMoney'
      BY TruthsLast DEF TruthAfter
    <3> QED
      BY <3>1, <3>2 DEF TruthAfter
  <2>2. CASE q # r
    <3>1. pc'[q] = pc[q] /\ seen'[q] = seen[q] /\ reply'[q] = reply[q]
      BY <2>2 DEF Proceed, ProceedWith, IInv, RequestsTyped
    <3> QED
      BY <3>1, TruthsLast
  <2> QED
    BY <2>1, <2>2
<1> QED
  BY <1>1, TruthsMakeTheInvariant

LEMMA IdleRequestsKeepTruth ==
    ASSUME IInv, LocalsTrue, Grows, UNCHANGED requests
    PROVE  LocalsTrue'
<1>1. pc' = pc /\ seen' = seen /\ reply' = reply
  BY DEF requests
<1> QED
  BY <1>1, TruthsLast, TruthsMakeTheInvariant

-----------------------------------------------------------------------------
\* What a write needs to keep the books.

LEMMA UntouchedRowsKeepBooks ==
    ASSUME IInv, Books, Grows, Untouched,
           UNCHANGED <<events, whatsapp, outbox, sending, messages>>
    PROVE  Books'
<1>1. TrailTrue'
  BY DEF Books, TrailTrue, Grows, RowGrows, Untouched
<1>2. EventsTrue'
  BY DEF Books, EventsTrue, HasWebhookEntry, Untouched
<1>3. KitchenPaid'
  BY DEF Books, KitchenPaid, Paid, Untouched
<1>4. MessagesTrue'
  BY DEF Books, MessagesTrue, Untouched
<1> QED
  BY <1>1, <1>2, <1>3, <1>4 DEF Books

LEMMA StatusWritesKeepBooks ==
    ASSUME IInv, Books, Grows, NEW e, StatusAdded(e),
           e.by = "kitchen" => Paid',
           UNCHANGED <<events, whatsapp, outbox, sending, messages>>
    PROVE  Books'
<1>1. TrailTrue'
  BY DEF Books, TrailTrue, Grows, RowGrows, StatusAdded
<1>2. EventsTrue'
  BY DEF Books, EventsTrue, HasWebhookEntry, StatusAdded
<1>3. KitchenPaid'
  BY DEF Books, KitchenPaid, Paid, StatusAdded
<1>4. MessagesTrue'
  BY DEF Books, MessagesTrue, StatusAdded
<1> QED
  BY <1>1, <1>2, <1>3, <1>4 DEF Books

\* Money arrives with what vouches for it, or money that is not new moves on.
LEMMA PaymentWritesKeepBooks ==
    ASSUME IInv, Books, Grows, NEW e, NEW id, PaymentAdded(e, id),
           e.by \in {"webhook", "reconciliation", "coupon", "staff"},
           e.by \in {"webhook", "reconciliation"}
              => /\ e.gatewayPaymentId \in Payments
                 /\ gateway[e.gatewayPaymentId] = "SUCCESS",
           e.by = "coupon" => row.free,
           \/ id = row.gatewayPaymentId
           \/ e.new = "paid" /\ e.gatewayPaymentId = id,
           QueueIfConfirmed, UNCHANGED <<whatsapp, sending, messages>>
    PROVE  TrailTrue' /\ KitchenPaid' /\ MessagesTrue'
<1>1. Entries(row'.paymentLog) = Entries(row.paymentLog) \cup {e}
  BY DEF PaymentAdded
<1>2. TrailTrue'
  <2>1. ASSUME NEW f \in Entries(row'.paymentLog)
        PROVE  /\ f.by \in {"webhook", "reconciliation"}
                     => /\ f.gatewayPaymentId \in Payments
                        /\ gateway'[f.gatewayPaymentId] = "SUCCESS"
               /\ f.by = "coupon" => row'.free
               /\ f.by = "created" => f.new = "pending"
    BY <1>1 DEF Books, TrailTrue, Grows, RowGrows
  <2>2. row'.gatewayPaymentId # None
           => \E f \in Entries(row'.paymentLog) :
                 f.new = "paid" /\ f.gatewayPaymentId = row'.gatewayPaymentId
    BY <1>1 DEF Books, TrailTrue, PaymentAdded
  <2> QED
    BY <2>1, <2>2 DEF TrailTrue
<1>3. KitchenPaid'
  BY <1>1 DEF Books, KitchenPaid, Paid, PaymentAdded, Confirmation
<1>4. MessagesTrue'
  <2>1. outbox \in Nat /\ messages \in Nat
    BY DEF IInv, RestTyped
  <2>2. CASE e.new = "paid" /\ row.status = "initiated"
    <3>1. /\ outbox' = 1 /\ messages' = 0 /\ row'.status = "confirmed"
          /\ Confirmation \in Entries(row'.statusLog)
      BY <2>1, <2>2 DEF Books, MessagesTrue, PaymentAdded, QueueIfConfirmed,
                        AwaitsConfirmation
    <3>2. sending # "success" /\ whatsapp # "success"
      BY <2>1, <2>2 DEF Books, MessagesTrue
    <3> QED
      BY <3>1, <3>2 DEF MessagesTrue, Confirmation
  <2>3. CASE ~(e.new = "paid" /\ row.status = "initiated")
    <3>1. /\ outbox' = outbox /\ row'.status = row.status
          /\ Entries(row'.statusLog) = Entries(row.statusLog)
      BY <2>3 DEF PaymentAdded, QueueIfConfirmed, AwaitsConfirmation
    <3> QED
      BY <3>1 DEF Books, MessagesTrue
  <2> QED
    BY <2>2, <2>3
<1> QED
  BY <1>2, <1>3, <1>4

LEMMA PaidIsLogged ==
    ASSUME IInv, row.payment = "paid"
    PROVE  Paid
<1>1. /\ row.paymentLog \in Seq(PaymentEntry) /\ Len(row.paymentLog) > 0
      /\ row.paymentLog[Len(row.paymentLog)].new = "paid"
  BY RowIsTyped DEF IInv, RowInv, MoneyPart, Replays
<1>2. Len(row.paymentLog) \in DOMAIN row.paymentLog
  BY <1>1
<1> QED
  BY <1>1, <1>2 DEF Paid, Entries

\* An order is only `paid` by money, by a coupon for all of it, or by a person.
LEMMA PaidHasMoney ==
    ASSUME IInv, TrailTrue, Paid
    PROVE  HasMoney
<1>1. PICK e \in Entries(row.paymentLog) : e.new = "paid"
  BY DEF Paid
<1>2. e.by \in PaymentAuthors
  <2>1. row.paymentLog \in Seq(PaymentEntry)
    BY RowIsTyped DEF IInv
  <2>2. PICK i \in DOMAIN row.paymentLog : e = row.paymentLog[i]
    BY DEF Entries
  <2>3. e \in PaymentEntry
    BY <2>1, <2>2
  <2> QED
    BY <2>3 DEF PaymentEntry
<1>3. e.by # "created"
  BY <1>1 DEF TrailTrue
<1>4. \/ e.by = "staff"
      \/ e.by \in {"webhook", "reconciliation"}
      \/ e.by = "coupon"
  BY <1>2, <1>3 DEF PaymentAuthors
<1> QED
  BY <1>1, <1>4 DEF TrailTrue, HasMoney, PaidByStaff

\* A settlement nobody but a request makes.
LEMMA SettlementsKeepBooks ==
    ASSUME IInv, Books, Grows, NEW id \in Payments \cup {None},
           NEW by \in {"reconciliation", "coupon"},
           by = "reconciliation" => id \in Payments /\ gateway[id] = "SUCCESS",
           by = "coupon" => row.free,
           row' = ApplyPaidTransition(row, id, by),
           QueueIfConfirmed, UNCHANGED <<events, whatsapp, sending, messages>>
    PROVE  Books'
<1>1. RowInv(row)
  BY DEF IInv
<1>2. CASE StillPending(row)
  <2> DEFINE e == [prev |-> "pending", new |-> "paid", by |-> by,
                   gatewayPaymentId |-> id]
             recorded == IF id = None THEN row.gatewayPaymentId ELSE id
  <2>1. PaymentAdded(e, recorded)
    BY <1>1, <1>2, SettlementAdds
  <2>2. TrailTrue' /\ KitchenPaid' /\ MessagesTrue'
    <3>1. /\ e.new = "paid" /\ e.by = by /\ e.gatewayPaymentId = id
          /\ recorded = row.gatewayPaymentId \/ recorded = id
      OBVIOUS
    <3> HIDE DEF e, recorded
    <3> QED
      BY <2>1, <3>1, PaymentWritesKeepBooks
  <2>3. EventsTrue'
    BY <2>1 DEF Books, EventsTrue, HasWebhookEntry, PaymentAdded
  <2> QED
    BY <2>2, <2>3 DEF Books
<1>3. CASE ~StillPending(row)
  <2>1. row' = row
    BY <1>3, LateSettlementDoesNothing
  <2>2. outbox' = outbox
    BY <2>1 DEF QueueIfConfirmed, AwaitsConfirmation
  <2> QED
    BY <2>1, <2>2, UntouchedRowsKeepBooks DEF Untouched
<1> QED
  BY <1>2, <1>3

-----------------------------------------------------------------------------
\* Every step keeps the books and what the requests know.

MoneyOK == Books' /\ LocalsTrue'

LEMMA StatusRequestsKeepMoney ==
    ASSUME IInv, MInv, Grows, NEW r \in StatusRequests,
           StatusRead(r) \/ StatusWrite(r)
    PROVE  MoneyOK
<1>1. r \in Requests
  BY DEF Requests
<1>2. CASE StatusRead(r)
  <2>1. Books'
    BY <1>2, UntouchedRowsKeepBooks
    DEF StatusRead, MInv, Untouched, database, notifier
  <2>2. LocalsTrue'
    <3>1. \/ Answer(r, "ok") \/ Answer(r, "conflict")
          \/ \E target : ProceedWith(r, "statusWrite", target, row.status)
      BY <1>2 DEF StatusRead
    <3> QED
      BY <3>1, <1>1, AnswersKeepTruth, MovesKeepTruth DEF MInv, Places
  <2> QED
    BY <2>1, <2>2 DEF MoneyOK
<1>3. CASE StatusWrite(r)
  <2>1. LocalsTrue'
    <3>1. Answer(r, "ok") \/ Answer(r, "conflict")
      BY <1>3 DEF StatusWrite
    <3> QED
      BY <3>1, <1>1, AnswersKeepTruth DEF MInv
  <2>2. UNCHANGED <<events, whatsapp, outbox, sending, messages>>
    BY <1>3 DEF StatusWrite, notifier
  <2>3. CASE StatusUnmoved(row, seen[r])
    <3>1. seen[r] = row.status /\ goal[r] \in ORDER_TRANSITIONS[row.status]
      BY <1>1, <1>3, <2>3
      DEF StatusWrite, StatusUnmoved, IInv, LocalsOK, HoldsEdge
    <3>2. row' = ApplyStatusTransition(row, row.status, goal[r], "staff")
      BY <1>3, <2>3, <3>1 DEF StatusWrite
    <3> DEFINE e == [prev |-> row.status, new |-> goal[r], by |-> "staff"]
    <3>3. StatusAdded(e) /\ e.by # "kitchen"
      BY <3>1, <3>2, StatusWriteAdds DEF IInv
    <3> HIDE DEF e
    <3> QED
      BY <2>1, <2>2, <3>3, StatusWritesKeepBooks DEF MInv, MoneyOK
  <2>4. CASE ~StatusUnmoved(row, seen[r])
    BY <1>3, <2>1, <2>2, <2>4, UntouchedRowsKeepBooks
    DEF StatusWrite, MInv, Untouched, MoneyOK
  <2> QED
    BY <2>3, <2>4
<1> QED
  BY <1>2, <1>3

LEMMA PaymentRequestsKeepMoney ==
    ASSUME IInv, MInv, Grows, NEW r \in PaymentRequests,
           PaymentRead(r) \/ PaymentWrite(r)
    PROVE  MoneyOK
<1>1. r \in Requests
  BY DEF Requests
<1>2. CASE PaymentRead(r)
  <2>1. Books'
    BY <1>2, UntouchedRowsKeepBooks
    DEF PaymentRead, MInv, Untouched, database, notifier
  <2>2. LocalsTrue'
    <3>1. \/ Answer(r, "ok") \/ Answer(r, "conflict")
          \/ \E target : ProceedWith(r, "paymentWrite", target, row.payment)
      BY <1>2 DEF PaymentRead
    <3> QED
      BY <3>1, <1>1, AnswersKeepTruth, MovesKeepTruth DEF MInv, Places
  <2> QED
    BY <2>1, <2>2 DEF MoneyOK
<1>3. CASE PaymentWrite(r)
  <2>1. LocalsTrue'
    <3>1. Answer(r, "ok") \/ Answer(r, "conflict")
      BY <1>3 DEF PaymentWrite
    <3> QED
      BY <3>1, <1>1, AnswersKeepTruth DEF MInv
  <2>2. UNCHANGED <<events, whatsapp, sending, messages>>
    BY <1>3 DEF PaymentWrite
  <2>3. CASE PaymentUnmoved(row, seen[r])
    <3>1. seen[r] = row.payment /\ goal[r] \in PAYMENT_TRANSITIONS[row.payment]
      BY <1>1, <1>3, <2>3
      DEF PaymentWrite, PaymentUnmoved, IInv, LocalsOK, HoldsEdge
    <3>2. row' = UpdatePaymentStatus(row, row.payment, goal[r]) /\ QueueIfConfirmed
      BY <1>3, <2>3, <3>1 DEF PaymentWrite
    <3> DEFINE e == [prev |-> row.payment, new |-> goal[r], by |-> "staff",
                     gatewayPaymentId |-> None]
    <3>3. PaymentAdded(e, row.gatewayPaymentId) /\ e.by = "staff"
      BY <3>1, <3>2, StaffPaymentWriteAdds DEF IInv
    <3> HIDE DEF e
    <3>4. TrailTrue' /\ KitchenPaid' /\ MessagesTrue'
      BY <2>2, <3>2, <3>3, PaymentWritesKeepBooks DEF MInv
    <3>5. EventsTrue'
      BY <2>2, <3>3
      DEF MInv, Books, EventsTrue, HasWebhookEntry, PaymentAdded
    <3> QED
      BY <2>1, <3>4, <3>5 DEF MoneyOK, Books
  <2>4. CASE ~PaymentUnmoved(row, seen[r])
    BY <1>3, <2>1, <2>2, <2>4, UntouchedRowsKeepBooks
    DEF PaymentWrite, MInv, Untouched, MoneyOK
  <2> QED
    BY <2>3, <2>4
<1> QED
  BY <1>2, <1>3

LEMMA KitchenKeepsMoney ==
    ASSUME IInv, MInv, Grows, NEW r \in KitchenRequests,
           KitchenRead(r) \/ KitchenWrite(r) \/ KitchenReread(r)
    PROVE  MoneyOK
<1>1. r \in Requests
  BY DEF Requests
<1>2. CASE KitchenRead(r)
  <2>1. Books'
    BY <1>2, UntouchedRowsKeepBooks
    DEF KitchenRead, MInv, Untouched, database, notifier
  <2>2. LocalsTrue'
    <3>1. \/ Answer(r, "notfound") \/ Answer(r, "conflict")
          \/ Proceed(r, "kitchenReread")
          \/ /\ KitchenEligible(row)
             /\ \E target : ProceedWith(r, "kitchenWrite", target, row.status)
      BY <1>2 DEF KitchenRead
    <3>2. CASE Answer(r, "notfound") \/ Answer(r, "conflict")
      BY <3>2, <1>1, AnswersKeepTruth DEF MInv
    <3>3. CASE Proceed(r, "kitchenReread")
      BY <3>3, <1>1, MovesKeepTruth DEF MInv, Places
    <3>4. CASE /\ KitchenEligible(row)
               /\ \E target : ProceedWith(r, "kitchenWrite", target, row.status)
      <4>1. Paid
        BY <3>4, PaidIsLogged DEF KitchenEligible
      <4>2. Paid'
        BY <4>1 DEF Paid, Grows, RowGrows
      <4> QED
        BY <3>4, <4>2, <1>1, MovesKeepTruth DEF MInv, Places
    <3> QED
      BY <3>1, <3>2, <3>3, <3>4
  <2> QED
    BY <2>1, <2>2 DEF MoneyOK
<1>3. CASE KitchenWrite(r)
  <2>1. LocalsTrue'
    <3>1. Proceed(r, "kitchenReread") \/ Answer(r, "conflict")
      BY <1>3 DEF KitchenWrite
    <3> QED
      BY <3>1, <1>1, AnswersKeepTruth, MovesKeepTruth DEF MInv, Places
  <2>2. UNCHANGED <<events, whatsapp, outbox, sending, messages>>
    BY <1>3 DEF KitchenWrite, notifier
  <2>3. CASE StatusUnmoved(row, seen[r])
    <3>1. seen[r] = row.status /\ goal[r] \in ORDER_TRANSITIONS[row.status]
      BY <1>1, <1>3, <2>3
      DEF KitchenWrite, StatusUnmoved, IInv, LocalsOK, HoldsEdge
    <3>2. row' = ApplyStatusTransition(row, row.status, goal[r], "kitchen")
      BY <1>3, <2>3, <3>1 DEF KitchenWrite
    <3> DEFINE e == [prev |-> row.status, new |-> goal[r], by |-> "kitchen"]
    <3>3. StatusAdded(e)
      BY <3>1, <3>2, StatusWriteAdds DEF IInv
    <3>4. Paid'
      BY <1>1, <1>3, TruthsLast DEF KitchenWrite, TruthAfter, MInv
    <3> HIDE DEF e
    <3> QED
      BY <2>1, <2>2, <3>3, <3>4, StatusWritesKeepBooks DEF MInv, MoneyOK
  <2>4. CASE ~StatusUnmoved(row, seen[r])
    BY <1>3, <2>1, <2>2, <2>4, UntouchedRowsKeepBooks
    DEF KitchenWrite, MInv, Untouched, MoneyOK
  <2> QED
    BY <2>3, <2>4
<1>4. CASE KitchenReread(r)
  <2>1. Books'
    BY <1>4, UntouchedRowsKeepBooks
    DEF KitchenReread, MInv, Untouched, database, notifier
  <2>2. LocalsTrue'
    BY <1>1, <1>4, AnswersKeepTruth DEF KitchenReread, MInv
  <2> QED
    BY <2>1, <2>2 DEF MoneyOK
<1> QED
  BY <1>2, <1>3, <1>4

LEMMA ConsumerReadsKeepMoney ==
    ASSUME IInv, MInv, Grows, NEW r \in InitRequests \cup VerifyRequests,
           InitRead(r) \/ VerifyRead(r) \/ CreateGatewayOrder(r)
    PROVE  MoneyOK
<1>1. r \in Requests
  BY DEF Requests
<1>2. row' = row /\ UNCHANGED <<events, whatsapp, outbox, sending, messages>>
  BY DEF InitRead, VerifyRead, CreateGatewayOrder, database, notifier
<1>3. Books'
  BY <1>2, UntouchedRowsKeepBooks DEF MInv, Untouched
<1>4. \/ \E what \in {"failed", "refunded", "invalid", "unavailable"} : Answer(r, what)
      \/ row.payment = "paid" /\ Answer(r, "paid")
      \/ row.free /\ Proceed(r, "settlingFree")
      \/ row.gatewayOrder /\ Proceed(r, "asking")
      \/ Proceed(r, "creating") \/ Proceed(r, "attaching")
  <2>1. CASE InitRead(r) \/ VerifyRead(r)
    <3>1. StillPending(row) \/ row.payment \in {"paid", "failed", "refunded"}
      BY DEF IInv, RowInv, Row, PaymentStatuses, StillPending
    <3> QED
      BY <2>1, <3>1 DEF InitRead, VerifyRead
  <2>2. CASE CreateGatewayOrder(r)
    BY <2>2 DEF CreateGatewayOrder
  <2> QED
    BY <2>1, <2>2
<1>5. LocalsTrue'
  <2>1. CASE \E what \in {"failed", "refunded", "invalid", "unavailable"} : Answer(r, what)
    BY <2>1, <1>1, AnswersKeepTruth DEF MInv
  <2>2. CASE row.payment = "paid" /\ Answer(r, "paid")
    <3>1. HasMoney
      BY <2>2, PaidIsLogged, PaidHasMoney DEF MInv, Books
    <3>2. HasMoney'
      BY <3>1 DEF Grows, RowGrows, HasMoney, PaidByStaff
    <3> QED
      BY <2>2, <3>2, <1>1, AnswersKeepTruth DEF MInv
  <2>3. CASE \/ row.free /\ Proceed(r, "settlingFree")
             \/ row.gatewayOrder /\ Proceed(r, "asking")
             \/ Proceed(r, "creating") \/ Proceed(r, "attaching")
    BY <2>3, <1>1, <1>2, MovesKeepTruth DEF MInv, Places
  <2> QED
    BY <1>4, <2>1, <2>2, <2>3
<1> QED
  BY <1>3, <1>5 DEF MoneyOK

LEMMA ConsumerWritesKeepMoney ==
    ASSUME IInv, MInv, Grows, NEW r \in InitRequests \cup VerifyRequests,
           SettleFree(r) \/ AttachGatewayOrder(r) \/ SettleReconciled(r)
    PROVE  MoneyOK
<1>1. r \in Requests
  BY DEF Requests
<1>2. LocalTruth(pc[r], seen[r], reply[r])
  BY <1>1 DEF MInv, LocalsTrue
<1>3. CASE SettleFree(r)
  <2>1. row.free
    BY <1>2, <1>3 DEF SettleFree, LocalTruth
  <2>2. Books'
    BY <1>3, <2>1, SettlementsKeepBooks DEF SettleFree, MInv
  <2>3. HasMoney'
    BY <2>1 DEF HasMoney, Grows, RowGrows
  <2>4. LocalsTrue'
    BY <1>1, <1>3, <2>3, AnswersKeepTruth DEF SettleFree, MInv
  <2> QED
    BY <2>2, <2>4 DEF MoneyOK
<1>4. CASE AttachGatewayOrder(r)
  <2>1. Untouched
    BY <1>4, RowIsTyped DEF AttachGatewayOrder, Untouched, IInv, Row
  <2>2. Books'
    BY <1>4, <2>1, UntouchedRowsKeepBooks DEF AttachGatewayOrder, MInv, notifier
  <2>3. Answer(r, "session") \/ Answer(r, "nosession")
    BY <1>4 DEF AttachGatewayOrder
  <2>4. LocalsTrue'
    BY <1>1, <2>3, AnswersKeepTruth DEF MInv
  <2> QED
    BY <2>2, <2>4 DEF MoneyOK
<1>5. CASE SettleReconciled(r)
  <2>1. seen[r] \in Payments /\ gateway[seen[r]] = "SUCCESS"
    BY <1>1, <1>2, <1>5
    DEF SettleReconciled, LocalTruth, IInv, LocalsOK, HoldsEdge
  <2>2. Books'
    BY <1>5, <2>1, SettlementsKeepBooks DEF SettleReconciled, MInv
  <2>3. HasMoney'
    BY <2>1 DEF HasMoney, Grows
  <2>4. LocalsTrue'
    BY <1>1, <1>5, <2>3, AnswersKeepTruth DEF SettleReconciled, MInv
  <2> QED
    BY <2>2, <2>4 DEF MoneyOK
<1> QED
  BY <1>3, <1>4, <1>5

LEMMA AskGatewayKeepsMoney ==
    ASSUME IInv, MInv, Grows, NEW r \in InitRequests \cup VerifyRequests,
           AskGateway(r)
    PROVE  MoneyOK
<1>1. r \in Requests
  BY DEF Requests
<1>2. Books'
  BY UntouchedRowsKeepBooks DEF AskGateway, MInv, Untouched, database, notifier
<1>3. \/ \E what \in {"unavailable", "inflight", "unpaid", "session", "nosession"} :
            Answer(r, what)
      \/ \E p \in Payments : /\ gateway[p] = "SUCCESS"
                             /\ ProceedWith(r, "settling", None, p)
  <2>1. CASE GatewayAnswersVerify(r)
    BY <2>1 DEF GatewayAnswersVerify
  <2>2. CASE GatewayAnswersInit(r)
    BY <2>2 DEF GatewayAnswersInit
  <2>3. CASE \E p \in Payments : /\ SettlesOrder(p)
                                 /\ ProceedWith(r, "settling", None, p)
    BY <2>3 DEF SettlesOrder
  <2> QED
    BY <2>1, <2>2, <2>3 DEF AskGateway
<1>4. LocalsTrue'
  <2>1. CASE \E what \in {"unavailable", "inflight", "unpaid", "session",
                          "nosession"} : Answer(r, what)
    BY <2>1, <1>1, AnswersKeepTruth DEF MInv
  <2>2. ASSUME NEW p \in Payments, gateway[p] = "SUCCESS",
               ProceedWith(r, "settling", None, p)
        PROVE  LocalsTrue'
    <3>1. gateway'[p] = "SUCCESS"
      BY <2>2 DEF Grows
    <3> QED
      BY <2>2, <3>1, <1>1, MovesKeepTruth DEF MInv, Places
  <2> QED
    BY <1>3, <2>1, <2>2
<1> QED
  BY <1>2, <1>4 DEF MoneyOK

LEMMA GatewayKeepsMoney ==
    ASSUME IInv, MInv, Grows, NEW p \in Payments,
           BeginAttempt(p) \/ FinishAttempt(p)
    PROVE  MoneyOK
<1>1. /\ row' = row /\ UNCHANGED requests
      /\ UNCHANGED <<events, whatsapp, outbox, sending, messages>>
  BY DEF BeginAttempt, FinishAttempt, database, notifier
<1>2. Books'
  BY <1>1, UntouchedRowsKeepBooks DEF MInv, Untouched
<1> QED
  BY <1>1, <1>2, IdleRequestsKeepTruth DEF MInv, MoneyOK

\* The dedup record and the settlement commit together.
LEMMA EventsKeepBooks ==
    ASSUME IInv, Books, Grows, NEW p \in Payments, events[p] = None,
           ApplyEvent(p), UNCHANGED <<whatsapp, sending, messages>>
    PROVE  Books'
<1>1. RowInv(row) /\ events \in [Payments -> Outcomes]
  BY DEF IInv, RestTyped
<1>2. ~HasWebhookEntry(p)
  BY NoneIsNoOutcome DEF Books, EventsTrue
<1>3. ASSUME NEW outcome, outcome # "applied",
             events' = [events EXCEPT ![p] = outcome], UNCHANGED <<row, outbox>>
      PROVE  Books'
  <2>1. EventsTrue'
    <3>1. ASSUME NEW q \in Payments
          PROVE  events'[q] = "applied" <=> HasWebhookEntry(q)
      <4>1. CASE q = p
        BY <1>1, <1>2, <1>3, <4>1
      <4>2. CASE q # p
        BY <1>1, <1>3, <4>2 DEF Books, EventsTrue
      <4> QED
        BY <4>1, <4>2
    <3> QED
      BY <1>3, <3>1 DEF EventsTrue, HasWebhookEntry
  <2>2. TrailTrue' /\ KitchenPaid' /\ MessagesTrue'
    BY <1>3 DEF Books, TrailTrue, KitchenPaid, Paid, MessagesTrue, Grows
  <2> QED
    BY <2>1, <2>2 DEF Books
<1>4. CASE gateway[p] = "FAILED" \/ gateway[p] = "MISMATCHED"
  BY <1>3, <1>4 DEF ApplyEvent
<1>5. CASE gateway[p] = "SUCCESS"
  <2>1. /\ row' = ApplyPaidTransition(row, p, "webhook") /\ QueueIfConfirmed
        /\ events' = [events EXCEPT
                        ![p] = IF StillPending(row) THEN "applied"
                               ELSE "already_settled"]
    BY <1>5 DEF ApplyEvent
  <2>2. CASE StillPending(row)
    <3> DEFINE e == [prev |-> "pending", new |-> "paid", by |-> "webhook",
                     gatewayPaymentId |-> p]
    <3>1. p # None
      BY NoneIsNoValue
    <3>2. PaymentAdded(e, p)
      BY <1>1, <2>1, <2>2, <3>1, SettlementAdds
    <3>3. e.new = "paid" /\ e.by = "webhook" /\ e.gatewayPaymentId = p
      OBVIOUS
    <3> HIDE DEF e
    <3>4. TrailTrue' /\ KitchenPaid' /\ MessagesTrue'
      BY <1>5, <2>1, <3>2, <3>3, PaymentWritesKeepBooks
    <3>5. ASSUME NEW q \in Payments
          PROVE  events'[q] = "applied"
                    <=> \E f \in Entries(row'.paymentLog) :
                           f.by = "webhook" /\ f.gatewayPaymentId = q
      <4>1. Entries(row'.paymentLog) = Entries(row.paymentLog) \cup {e}
        BY <3>2 DEF PaymentAdded
      <4>2. CASE q = p
        BY <1>1, <2>1, <2>2, <3>3, <4>1, <4>2
      <4>3. CASE q # p
        <5>1. events'[q] = events[q]
          BY <1>1, <2>1, <4>3
        <5> QED
          BY <3>3, <4>1, <4>3, <5>1 DEF Books, EventsTrue, HasWebhookEntry
      <4> QED
        BY <4>2, <4>3
    <3>6. EventsTrue'
      BY <3>5 DEF EventsTrue, HasWebhookEntry
    <3> QED
      BY <3>4, <3>6 DEF Books
  <2>3. CASE ~StillPending(row)
    <3>1. row' = row
      BY <2>1, <2>3, LateSettlementDoesNothing
    <3>2. outbox' = outbox
      BY <2>1, <3>1 DEF QueueIfConfirmed, AwaitsConfirmation
    <3>3. events' = [events EXCEPT ![p] = "already_settled"]
      BY <2>1, <2>3
    <3> QED
      BY <1>3, <3>1, <3>2, <3>3
  <2> QED
    BY <2>2, <2>3
<1> QED
  BY <1>4, <1>5 DEF ApplyEvent

LEMMA WebhookKeepsMoney ==
    ASSUME IInv, MInv, Grows, NEW d \in Deliveries,
           ReceiveDelivery(d) \/ ProcessWebhookEvent(d) \/ DeliveryFails(d)
    PROVE  MoneyOK
<1>1. d[1] \in Payments
  BY DEF Deliveries
<1>2. UNCHANGED requests
  BY DEF ReceiveDelivery, ProcessWebhookEvent, DeliveryFails
<1>3. UNCHANGED <<whatsapp, sending, messages>>
  BY DEF ReceiveDelivery, ProcessWebhookEvent, DeliveryFails, database, notifier
<1>4. \/ events[d[1]] = None /\ ApplyEvent(d[1])
      \/ UNCHANGED <<row, events, outbox>>
  BY DEF ReceiveDelivery, ProcessWebhookEvent, DeliveryFails, RolledBack,
         database, notifier
<1>5. Books'
  <2>1. CASE events[d[1]] = None /\ ApplyEvent(d[1])
    BY <1>1, <1>3, <2>1, EventsKeepBooks DEF MInv
  <2>2. CASE UNCHANGED <<row, events, outbox>>
    BY <1>3, <2>2, UntouchedRowsKeepBooks DEF MInv, Untouched
  <2> QED
    BY <1>4, <2>1, <2>2
<1> QED
  BY <1>2, <1>5, IdleRequestsKeepTruth DEF MInv, MoneyOK

LEMMA NotifierKeepsMoney ==
    ASSUME IInv, MInv, Grows, Notifier
    PROVE  MoneyOK
<1>1. /\ row' = row /\ events' = events /\ UNCHANGED requests
  BY DEF Notifier, SkipConfirmation, SendConfirmation, RecordWhatsApp, database
<1>2. outbox \in Nat /\ messages \in Nat
  BY DEF IInv, RestTyped
<1>3. MessagesTrue
  BY DEF MInv, Books
<1>4. MessagesTrue'
  <2>1. CASE SkipConfirmation
    BY <1>2, <1>3, <2>1 DEF SkipConfirmation, MessagesTrue, database
  <2>2. CASE SendConfirmation
    <3>1. /\ outbox = 1 /\ messages = 0 /\ outbox' = 0
          /\ messages' = 0 \/ messages' = 1
      BY <1>2, <1>3, <2>2 DEF SendConfirmation, MessagesTrue
    <3>2. /\ sending' = "success" => messages' = 1
          /\ whatsapp' = whatsapp /\ whatsapp # "success"
      BY <1>2, <1>3, <2>2, <3>1 DEF SendConfirmation, MessagesTrue, database
    <3>3. /\ row.status # "initiated"
          /\ \E e \in Entries(row.statusLog) : e.by = "payment"
      BY <1>3, <3>1 DEF MessagesTrue
    <3>4. messages' + outbox' <= 1
      BY <3>1
    <3> QED
      BY <1>1, <3>2, <3>3, <3>4 DEF MessagesTrue
  <2>3. CASE RecordWhatsApp
    <3>1. /\ outbox' = outbox /\ messages' = messages /\ sending' # "success"
          /\ whatsapp' = "success" => messages = 1
      BY <1>3, <2>3, NoneIsNoOutcome DEF RecordWhatsApp, MessagesTrue
    <3> QED
      BY <1>1, <1>3, <3>1 DEF MessagesTrue
  <2> QED
    BY <2>1, <2>2, <2>3 DEF Notifier
<1>5. TrailTrue' /\ EventsTrue' /\ KitchenPaid'
  BY <1>1 DEF MInv, Books, TrailTrue, EventsTrue, HasWebhookEntry, KitchenPaid,
              Paid, Grows
<1> QED
  BY <1>1, <1>4, <1>5, IdleRequestsKeepTruth DEF MInv, Books, MoneyOK

LEMMA CrashKeepsMoney ==
    ASSUME IInv, MInv, Grows, Crash
    PROVE  MoneyOK
<1>1. row' = row /\ events' = events /\ whatsapp' = whatsapp
  BY DEF Crash, database
<1>2. TrailTrue' /\ EventsTrue' /\ KitchenPaid'
  BY <1>1 DEF MInv, Books, TrailTrue, EventsTrue, HasWebhookEntry, KitchenPaid,
              Paid, Grows
<1>3. MessagesTrue'
  <2>1. outbox \in Nat /\ messages \in Nat
    BY DEF IInv, RestTyped
  <2>2. outbox' = 0 /\ messages' = messages /\ sending' # "success"
    BY NoneIsNoOutcome DEF Crash
  <2> QED
    BY <1>1, <2>1, <2>2 DEF MInv, Books, MessagesTrue
<1>4. ASSUME NEW q \in Requests
      PROVE  TruthAfter(pc'[q], seen'[q], reply'[q])
  <2>1. /\ seen'[q] = seen[q]
        /\ \/ pc'[q] = "done" /\ reply'[q] = "lost"
           \/ pc'[q] = pc[q] /\ reply'[q] = reply[q]
    BY DEF Crash
  <2>2. TruthAfter(pc[q], seen[q], reply[q])
    BY TruthsLast DEF MInv
  <2> QED
    BY <2>1, <2>2 DEF TruthAfter
<1> QED
  BY <1>2, <1>3, <1>4, TruthsMakeTheInvariant DEF Books, MoneyOK

LEMMA StutteringKeepsMoney ==
    ASSUME IInv, MInv, Grows, UNCHANGED vars
    PROVE  MoneyOK
BY UntouchedRowsKeepBooks, IdleRequestsKeepTruth
DEF vars, requests, Untouched, MInv, MoneyOK

(***************************************************************************)
(* A session leaves payment-init, and an attempt reaches the gateway, only *)
(* once the column the webhook looks orders up by is written.              *)
(***************************************************************************)
LEMMA AttemptsStayFindable ==
    ASSUME IInv, MInv, Grows, [Next]_vars
    PROVE  EveryAttemptFindsItsOrder'
<1>1. /\ row.gatewayOrder => row'.gatewayOrder
      /\ (session \/ \E p \in Payments : gateway[p] # "none")
            => row.gatewayOrder
  BY DEF Grows, RowGrows, MInv, EveryAttemptFindsItsOrder
<1>2. CASE session' = session /\ gateway' = gateway
  BY <1>1, <1>2 DEF EveryAttemptFindsItsOrder
<1>3. ASSUME NEW r \in InitRequests \cup VerifyRequests, AttachGatewayOrder(r)
      PROVE  EveryAttemptFindsItsOrder'
  <2>1. row'.gatewayOrder
    BY <1>3, RowIsTyped DEF AttachGatewayOrder, IInv, Row
  <2> QED
    BY <2>1 DEF EveryAttemptFindsItsOrder
<1>4. ASSUME NEW r \in InitRequests \cup VerifyRequests, AskGateway(r)
      PROVE  EveryAttemptFindsItsOrder'
  <2>1. r \in Requests /\ pc[r] = "asking"
    BY <1>4 DEF Requests, AskGateway
  <2>2. row.gatewayOrder
    BY <2>1 DEF MInv, LocalsTrue, LocalTruth
  <2> QED
    BY <1>1, <2>2 DEF EveryAttemptFindsItsOrder
<1>5. ASSUME NEW p \in Payments, BeginAttempt(p) \/ FinishAttempt(p)
      PROVE  EveryAttemptFindsItsOrder'
  <2>1. row.gatewayOrder
    BY <1>1, <1>5 DEF BeginAttempt, FinishAttempt
  <2> QED
    BY <1>1, <2>1 DEF EveryAttemptFindsItsOrder
<1>6. CASE Dashboard \/ Kitchen \/ Webhook
  BY <1>2, <1>6
  DEF Dashboard, StatusRead, StatusWrite, PaymentRead, PaymentWrite,
      Kitchen, KitchenRead, KitchenWrite, KitchenReread,
      Webhook, ReceiveDelivery, ProcessWebhookEvent, DeliveryFails, provider
<1>7. CASE Consumer
  BY <1>2, <1>3, <1>4, <1>7
  DEF Consumer, InitRead, SettleFree, CreateGatewayOrder, VerifyRead,
      SettleReconciled, provider
<1>8. CASE Gateway
  BY <1>5, <1>8 DEF Gateway
<1>9. CASE Notifier \/ Crash \/ UNCHANGED vars
  BY <1>2, <1>9 DEF Notifier, SkipConfirmation, SendConfirmation,
                    RecordWhatsApp, Crash, vars, provider
<1> QED
  BY <1>6, <1>7, <1>8, <1>9 DEF Next

LEMMA StepsKeepMoney ==
    ASSUME IInv, MInv, [Next]_vars
    PROVE  MInv'
<1>1. Grows
  BY StepsGrow
<1>2. MoneyOK
  <2>1. CASE Dashboard
    BY <1>1, <2>1, StatusRequestsKeepMoney, PaymentRequestsKeepMoney
    DEF Dashboard
  <2>2. CASE Kitchen
    BY <1>1, <2>2, KitchenKeepsMoney DEF Kitchen
  <2>3. CASE Consumer
    BY <1>1, <2>3, ConsumerReadsKeepMoney, ConsumerWritesKeepMoney,
       AskGatewayKeepsMoney DEF Consumer
  <2>4. CASE Gateway
    BY <1>1, <2>4, GatewayKeepsMoney DEF Gateway
  <2>5. CASE Webhook
    BY <1>1, <2>5, WebhookKeepsMoney DEF Webhook
  <2>6. CASE Notifier \/ Crash \/ UNCHANGED vars
    BY <1>1, <2>6, NotifierKeepsMoney, CrashKeepsMoney, StutteringKeepsMoney
  <2> QED
    BY <2>1, <2>2, <2>3, <2>4, <2>5, <2>6 DEF Next
<1> QED
  BY <1>1, <1>2, AttemptsStayFindable DEF MoneyOK, MInv

LEMMA MoneyStartsInOrder ==
    ASSUME Init
    PROVE  MInv
<1>1. PICK free \in BOOLEAN : row = NewOrder(free)
  BY DEF Init
<1> DEFINE s == [prev |-> None, new |-> "initiated", by |-> "created"]
           p == [prev |-> None, new |-> "pending", by |-> "created",
                 gatewayPaymentId |-> None]
<1>2. /\ row.statusLog = <<s>> /\ row.paymentLog = <<p>>
      /\ row.gatewayPaymentId = None /\ row.status = "initiated"
  BY <1>1 DEF NewOrder
<1>3. Entries(row.statusLog) = {s} /\ Entries(row.paymentLog) = {p}
  BY <1>2 DEF Entries
<1>4. TrailTrue /\ KitchenPaid
  BY <1>2, <1>3 DEF TrailTrue, KitchenPaid
<1>5. EventsTrue
  <2>1. ASSUME NEW q \in Payments
        PROVE  events[q] # "applied" /\ ~HasWebhookEntry(q)
    BY <1>3, NoneIsNoOutcome DEF Init, HasWebhookEntry
  <2> QED
    BY <2>1 DEF EventsTrue
<1>6. MessagesTrue
  BY NoneIsNoOutcome DEF Init, MessagesTrue
<1>7. LocalsTrue
  BY NoneIsNoValue DEF Init, LocalsTrue, LocalTruth, PaymentStatuses
<1>8. EveryAttemptFindsItsOrder
  BY DEF Init, EveryAttemptFindsItsOrder
<1> QED
  BY <1>4, <1>5, <1>6, <1>7, <1>8 DEF Books, MInv

THEOREM MoneyInvariance == Spec => [](IInv /\ MInv)
<1>1. Init => MInv
  BY MoneyStartsInOrder
<1>2. IInv /\ MInv /\ [Next]_vars => MInv'
  BY StepsKeepMoney
<1> QED
  BY <1>1, <1>2, Invariance, PTL DEF Spec

-----------------------------------------------------------------------------
\* What a reader of the books may rely on.

(***************************************************************************)
(* Whatever the webhook or a customer's call settles, settles a payment    *)
(* the gateway holds as a success of the right amount; a coupon settles    *)
(* free orders only.                                                       *)
(***************************************************************************)
THEOREM MoneyIsReal == Spec => []OnlyRealMoneySettles
<1>1. ASSUME TrailTrue
      PROVE  OnlyRealMoneySettles
  <2>1. ASSUME NEW i \in DOMAIN row.paymentLog
        PROVE  row.paymentLog[i] \in Entries(row.paymentLog)
    BY DEF Entries
  <2> QED
    BY <1>1, <2>1 DEF TrailTrue, OnlyRealMoneySettles, Logged, Entries
<1>2. IInv /\ MInv => OnlyRealMoneySettles
  BY <1>1 DEF MInv, Books
<1> QED
  BY <1>2, MoneyInvariance, PTL

(***************************************************************************)
(* An event's dedup record says `applied` exactly when the trail holds the *)
(* webhook's own entry: a retry is never suppressed for an event that was  *)
(* not acted on, and no event acts twice.                                  *)
(***************************************************************************)
THEOREM EventsAlwaysTellTheTruth == Spec => []EventsTellTheTruth
<1>1. ASSUME EventsTrue
      PROVE  EventsTellTheTruth
  <2>1. ASSUME NEW p \in Payments
        PROVE  HasWebhookEntry(p)
                  <=> \E i \in DOMAIN row.paymentLog :
                         /\ row.paymentLog[i].by = "webhook"
                         /\ row.paymentLog[i].gatewayPaymentId = p
    BY DEF HasWebhookEntry, Entries
  <2> QED
    BY <1>1, <2>1 DEF EventsTrue, EventsTellTheTruth, Logged
<1>2. IInv /\ MInv => EventsTellTheTruth
  BY <1>1 DEF MInv, Books
<1> QED
  BY <1>2, MoneyInvariance, PTL

(***************************************************************************)
(* An entry of a kitchen screen means the order was paid for, although the *)
(* kitchen's write is conditional on the status alone.                     *)
(***************************************************************************)
THEOREM KitchenAlwaysWorksForMoney == Spec => []KitchenWorksForMoney
<1>1. KitchenPaid => KitchenWorksForMoney
  BY DEF KitchenPaid, Paid, KitchenWorksForMoney, Logged, Entries
<1>2. IInv /\ MInv => KitchenWorksForMoney
  BY <1>1 DEF MInv, Books
<1> QED
  BY <1>2, MoneyInvariance, PTL

(***************************************************************************)
(* One message at most, only for an order a payment confirmed, and a row   *)
(* that says `success` had it taken by the provider.                       *)
(***************************************************************************)
THEOREM OneMessageAtMost == Spec => []OneMessagePerPaidOrder
<1>1. MessagesTrue => OneMessagePerPaidOrder
  BY DEF MessagesTrue, OneMessagePerPaidOrder, Logged, Entries
<1>2. IInv /\ MInv => OneMessagePerPaidOrder
  BY <1>1 DEF MInv, Books
<1> QED
  BY <1>2, MoneyInvariance, PTL

(***************************************************************************)
(* No money can move before the webhook can find its order, however        *)
(* payment-init dies, fails or races another call.                         *)
(***************************************************************************)
THEOREM AttemptsAreAlwaysFindable == Spec => []EveryAttemptFindsItsOrder
<1>1. IInv /\ MInv => EveryAttemptFindsItsOrder
  BY DEF MInv
<1> QED
  BY <1>1, MoneyInvariance, PTL

(***************************************************************************)
(* Nobody is told `paid` of an order without money, a full coupon or a     *)
(* person behind it.                                                       *)
(***************************************************************************)
THEOREM PaidIsNeverSaidInVain == Spec => []PaidAnswersHaveMoney
<1>1. HasMoney => \/ row.free
                  \/ \E p \in Payments : gateway[p] = "SUCCESS"
                  \/ Logged(row.paymentLog,
                            LAMBDA e : e.new = "paid" /\ e.by = "staff")
  BY DEF HasMoney, PaidByStaff, Logged, Entries
<1>2. LocalsTrue => PaidAnswersHaveMoney
  BY <1>1 DEF LocalsTrue, LocalTruth, PaidAnswersHaveMoney
<1>3. IInv /\ MInv => PaidAnswersHaveMoney
  BY <1>2 DEF MInv
<1> QED
  BY <1>3, MoneyInvariance, PTL

=============================================================================
