------------------------- MODULE PaymentScreenProofs -------------------------
(***************************************************************************)
(* The confirmation page never lies, and Pay is offered twice in one way   *)
(* only, for every set of orders, attempts and requests.                   *)
(*                                                                         *)
(* Types need the wiring of the page first: a handler that still acts on   *)
(* its page finds one there (Wired).  For the confirmation, the argument   *)
(* goes back to the gateway: an answer "paid" is about a settled order     *)
(* (AnswersAreSettled), a settled order has a payment that succeeded       *)
(* (SettledIsCaptured), and neither is ever undone.  For the Pay button it *)
(* goes forward from the record: at most one request or checkout acts on a *)
(* page (OneHand), so the record is the attempt whose money may move       *)
(* (RecordHolds), and it is given up on an answer that is still true when  *)
(* it lands (NothingIsNothing).  That holds of the device's order as long  *)
(* as no answer about another order has cleared its record (Kept).         *)
(***************************************************************************)
EXTENDS PaymentScreen, TLAPS

CallTables == [Calls -> Requests \cup {None}]

PageStates == Pages \cup {None}

\* What lives on the page has a page; payment-init dies with its page; the open
\* checkout and the record are about a payment, and a checkout that redirected
\* has replaced the page.
Wired ==
    /\ \A c \in Calls : call[c] # None =>
         /\ call[c].live => page # None
         /\ call[c].kind = "init" => call[c].live
    /\ modal # None =>
         /\ payment[modal.attempt] # None
         /\ modal.live => page # None
         /\ modal.away => page = None
    /\ record # None => payment[record] # None

\* The order on screen, in either key, and of any payment, has been placed.
OnlyPlaced ==
    /\ page # None => status[page.order] # "unplaced"
    /\ orderKey # None => status[orderKey] # "unplaced"
    /\ session # None => status[session] # "unplaced"
    /\ \A a \in Attempts : payment[a] # None => status[payment[a].order] # "unplaced"

Settled(o) == status[o] \in {"paid", "refunded"}

SettledIsCaptured == \A o \in Orders : Settled(o) => Holds(o, "success")

AnswersAreSettled ==
    \A c \in Calls : call[c] # None /\ call[c].answer = "paid" => Settled(call[c].order)

ConfirmedAreSettled == \A o \in confirmed : Settled(o)

Typed == TypeOK /\ Wired

IInv == Typed /\ OnlyPlaced /\ SettledIsCaptured /\ AnswersAreSettled /\ ConfirmedAreSettled

-----------------------------------------------------------------------------
\* Types

\* reduce keeps a page a page, of the same order.
LEMMA ReduceIsPage ==
    ASSUME NEW p \in Pages, NEW to \in PaymentPhase,
           NEW a \in Attempts \cup {None}, NEW expected
    PROVE  /\ Reduce(p, to, a, expected) \in Pages
           /\ Reduce(p, to, a, expected) # None
           /\ Reduce(p, to, a, expected).order = p.order
BY NoneIsNoRecord DEF Reduce, Pages

\* A page that mounts is a page of its order.
LEMMA MountedIsPage ==
    ASSUME TypeOK, NEW o \in Orders
    PROVE  /\ Mounted(o) \in Pages
           /\ Mounted(o) # None
           /\ Mounted(o).order = o
<1> DEFINE recovering == [FreshPage(o) EXCEPT !.phase = "unresolved", !.attempt = record]
<1>1. FreshPage(o) \in Pages /\ FreshPage(o).order = o
    BY DEF FreshPage, Pages, PaymentPhase
<1>2. record \in Attempts \cup {None}
    BY DEF TypeOK
<1>3. recovering \in Pages /\ recovering.order = o
    <2> DEFINE unresolved == [FreshPage(o) EXCEPT !.phase = "unresolved"]
    <2>1. unresolved \in Pages /\ unresolved.order = o
        BY <1>1 DEF Pages, PaymentPhase
    <2>2. recovering = [unresolved EXCEPT !.attempt = record]
        BY <1>1 DEF Pages
    <2> HIDE DEF unresolved, recovering
    <2> QED BY <1>2, <2>1, <2>2 DEF Pages
<1>4. "initializing" \in PaymentPhase /\ "verifying" \in PaymentPhase
    BY DEF PaymentPhase
<1>5. Mounted(o) = IF ReadAttempt(o) = None
                   THEN Reduce(FreshPage(o), "initializing", None, None)
                   ELSE Reduce(recovering, "verifying", record, record)
    BY DEF Mounted
<1> HIDE DEF recovering
<1> QED BY <1>1, <1>2, <1>3, <1>4, <1>5, ReduceIsPage

\* Mounting sends one request, which lives on the new page.
LEMMA MountIsWired ==
    ASSUME TypeOK, NEW o \in Orders, NEW cs \in CallTables, MountWith(cs, o),
           \A c \in Calls : cs[c] # None => (cs[c].kind = "init" => cs[c].live)
    PROVE  /\ page' \in Pages /\ page' # None /\ page'.order = o
           /\ call' \in CallTables
           /\ \A c \in Calls : call'[c] # None =>
                (call'[c].kind = "init" => call'[c].live)
           /\ \A c \in Calls : call'[c] # None /\ call'[c].answer # None =>
                cs[c] # None /\ call'[c] = cs[c]
<1>1. PICK d \in Calls :
          /\ page' = Mounted(o)
          /\ call' = [cs EXCEPT ![d] = Request(FirstRequest(o), o, ReadAttempt(o))]
    BY DEF MountWith
<1>2. Request(FirstRequest(o), o, ReadAttempt(o)) \in Requests
    BY DEF Request, FirstRequest, ReadAttempt, Requests, TypeOK
<1>3. /\ Request(FirstRequest(o), o, ReadAttempt(o)).live
      /\ Request(FirstRequest(o), o, ReadAttempt(o)).answer = None
    BY DEF Request
<1>4. call' \in CallTables
    BY <1>1, <1>2 DEF CallTables
<1>5. \A c \in Calls : call'[c] = IF c = d THEN Request(FirstRequest(o), o, ReadAttempt(o))
                                  ELSE cs[c]
    BY <1>1 DEF CallTables
<1>6. Mounted(o) \in Pages /\ Mounted(o) # None /\ Mounted(o).order = o
    BY MountedIsPage
<1>7. ASSUME NEW c \in Calls, call'[c] # None
      PROVE  call'[c].kind = "init" => call'[c].live
    BY <1>3, <1>5, <1>7
<1>8. ASSUME NEW c \in Calls, call'[c] # None, call'[c].answer # None
      PROVE  cs[c] # None /\ call'[c] = cs[c]
    BY <1>3, <1>5, <1>8
<1> QED BY <1>1, <1>4, <1>6, <1>7, <1>8

\* A handler changes the page it lives on, if it lives on one.
LEMMA AppliedIsPage ==
    ASSUME TypeOK, NEW k \in Requests, k.live => page # None,
           NEW to \in PaymentPhase
    PROVE  /\ Apply(k, to) \in PageStates
           /\ page = None => Apply(k, to) = None
           /\ page # None => Apply(k, to) # None /\ Apply(k, to).order = page.order
<1>1. page \in PageStates /\ k.attempt \in Attempts \cup {None}
    BY DEF TypeOK, PageStates, Requests
<1>2. CASE page = None
    BY <1>2 DEF Apply, PageStates
<1>3. CASE page # None
    BY <1>1, <1>3, ReduceIsPage DEF Apply, PageStates
<1> QED BY <1>2, <1>3

\* What an unmounted page leaves behind no longer acts on a page.
LEMMA OrphansAreWired ==
    ASSUME NEW cs \in CallTables
    PROVE  /\ Orphaned(cs) \in CallTables
           /\ \A c \in Calls : Orphaned(cs)[c] # None =>
                /\ cs[c] # None
                /\ ~Orphaned(cs)[c].live
                /\ Orphaned(cs)[c].kind # "init"
                /\ Orphaned(cs)[c].answer = cs[c].answer
                /\ Orphaned(cs)[c].order = cs[c].order
<1> SUFFICES ASSUME NEW c \in Calls
             PROVE  /\ Orphaned(cs)[c] \in Requests \cup {None}
                    /\ Orphaned(cs)[c] # None =>
                         /\ cs[c] # None
                         /\ ~Orphaned(cs)[c].live
                         /\ Orphaned(cs)[c].kind # "init"
                         /\ Orphaned(cs)[c].answer = cs[c].answer
                         /\ Orphaned(cs)[c].order = cs[c].order
    BY DEF CallTables, Orphaned
<1>1. Orphaned(cs)[c] = IF cs[c] = None THEN None
                        ELSE IF cs[c].kind = "init" THEN None
                        ELSE [cs[c] EXCEPT !.live = FALSE]
    BY DEF Orphaned
<1>2. cs[c] \in Requests \cup {None}
    BY DEF CallTables
<1>3. CASE cs[c] \in Requests /\ cs[c].kind # "init"
    BY <1>1, <1>3, NoneIsNoRecord DEF Requests
<1>4. CASE ~(cs[c] \in Requests /\ cs[c].kind # "init")
    BY <1>1, <1>2, <1>4
<1> QED BY <1>3, <1>4

\* The same for an open checkout.
LEMMA OrphanedModalIsWired ==
    ASSUME TypeOK
    PROVE  /\ OrphanedModal \in Modals \cup {None}
           /\ OrphanedModal # None =>
                /\ modal # None /\ ~OrphanedModal.live
                /\ OrphanedModal.attempt = modal.attempt
                /\ OrphanedModal.away = modal.away
BY NoneIsNoRecord DEF TypeOK, OrphanedModal, Modals

\* A fresh request is typed and lives on the page.
LEMMA RequestIsTyped ==
    ASSUME NEW kind \in {"init", "check", "verify", "settle"}, NEW o \in Orders,
           NEW a \in Attempts \cup {None}
    PROVE  /\ Request(kind, o, a) \in Requests
           /\ Request(kind, o, a).live
           /\ Request(kind, o, a).answer = None
           /\ Request(kind, o, a).kind = kind
BY DEF Request, Requests

-----------------------------------------------------------------------------
\* Every step keeps the page typed and wired

\* An order placed, or resumed, opens its page.
LEMMA CheckoutTyped ==
    ASSUME Typed, NEW o \in Orders, Checkout(o)
    PROVE  Typed'
<1>1. TypeOK /\ Wired /\ call \in CallTables /\ status' \in [Orders -> Statuses]
    BY DEF Typed, TypeOK, Checkout, CallTables, Statuses
<1>2. /\ page' \in Pages /\ page' # None /\ call' \in CallTables
      /\ \A c \in Calls : call'[c] # None => (call'[c].kind = "init" => call'[c].live)
    BY <1>1, MountIsWired DEF Checkout, Wired
<1> QED BY <1>1, <1>2 DEF Typed, TypeOK, Wired, Checkout, CallTables

\* A reload mounts the stored order, or nothing.
LEMMA ReloadTyped == Typed /\ Reload => Typed'
<1> SUFFICES ASSUME Typed, Reload PROVE Typed'
    OBVIOUS
<1> DEFINE silence == [c \in Calls |-> None]
<1>1. TypeOK /\ Wired /\ silence \in CallTables /\ orderKey \in Orders \cup {None}
    BY DEF Typed, TypeOK, CallTables
<1>2. CASE orderKey = None
    BY <1>1, <1>2 DEF Typed, TypeOK, Wired, Reload, CallTables
<1>3. CASE orderKey # None
    <2>1. MountWith(silence, orderKey)
        BY <1>3 DEF Reload
    <2>2. \A c \in Calls : silence[c] = None
        OBVIOUS
    <2> HIDE DEF silence
    <2>3. /\ page' \in Pages /\ page' # None /\ call' \in CallTables
          /\ \A c \in Calls : call'[c] # None => (call'[c].kind = "init" => call'[c].live)
        BY <1>1, <1>3, <2>1, <2>2, MountIsWired
    <2> QED BY <1>1, <2>3 DEF Typed, TypeOK, Wired, Reload, CallTables
<1> QED BY <1>2, <1>3

\* Coming back from a redirect mounts it, or nothing.
LEMMA ReturnTyped == Typed /\ Return => Typed'
<1> SUFFICES ASSUME Typed, Return PROVE Typed'
    OBVIOUS
<1>1. TypeOK /\ Wired /\ call \in CallTables /\ orderKey \in Orders \cup {None}
    BY DEF Typed, TypeOK, CallTables
<1>2. CASE orderKey = None
    BY <1>1, <1>2 DEF Typed, TypeOK, Wired, Return, CallTables
<1>3. CASE orderKey # None
    <2>1. /\ page' \in Pages /\ page' # None /\ call' \in CallTables
          /\ \A c \in Calls : call'[c] # None => (call'[c].kind = "init" => call'[c].live)
        BY <1>1, <1>3, MountIsWired DEF Return, Wired
    <2> QED BY <1>1, <2>1 DEF Typed, TypeOK, Wired, Return, CallTables
<1> QED BY <1>2, <1>3

\* Leaving takes the page off its requests and its checkout.
LEMMA LeavePageTyped == Typed /\ LeavePage => Typed'
<1> SUFFICES ASSUME Typed, LeavePage PROVE Typed'
    OBVIOUS
<1>1. TypeOK /\ Wired /\ call \in CallTables
    BY DEF Typed, TypeOK, CallTables
<1>2. call' = Orphaned(call) /\ modal' = OrphanedModal /\ page' = None
    BY DEF LeavePage
<1>3. TypeOK'
    BY <1>1, <1>2, OrphansAreWired, OrphanedModalIsWired DEF TypeOK, LeavePage, CallTables
<1>4. Wired'
    BY <1>1, <1>2, OrphansAreWired, OrphanedModalIsWired DEF Wired, LeavePage
<1> QED BY <1>3, <1>4 DEF Typed

\* Forward mounts the stored order.
LEMMA BrowserForwardTyped == Typed /\ BrowserForward => Typed'
<1> SUFFICES ASSUME Typed, BrowserForward PROVE Typed'
    OBVIOUS
<1>1. TypeOK /\ Wired /\ call \in CallTables /\ orderKey \in Orders
    BY DEF Typed, TypeOK, CallTables, BrowserForward
<1>2. /\ page' \in Pages /\ page' # None /\ call' \in CallTables
      /\ \A c \in Calls : call'[c] # None => (call'[c].kind = "init" => call'[c].live)
    BY <1>1, MountIsWired DEF BrowserForward, Wired
<1> QED BY <1>1, <1>2 DEF Typed, TypeOK, Wired, BrowserForward, CallTables

\* Opening the checkout creates the payment it is about.
LEMMA HandlePayNowTyped ==
    ASSUME Typed, NEW a \in Attempts, HandlePayNow(a)
    PROVE  Typed'
<1>1. /\ TypeOK /\ Wired /\ call \in CallTables
      /\ page \in Pages /\ page # None
    BY DEF Typed, TypeOK, CallTables, HandlePayNow, PayOffered
<1>2. page' \in Pages /\ page' # None
    BY <1>1, ReduceIsPage DEF HandlePayNow, PaymentPhase
<1>3. /\ modal' = [attempt |-> a, live |-> TRUE, away |-> FALSE]
      /\ record' = a
      /\ payment' = [payment EXCEPT ![a] = [order |-> page.order, state |-> "none"]]
      /\ UNCHANGED <<habits, status, call, orderKey, session, confirmed, erased>>
    BY DEF HandlePayNow, RecordOnOpening
<1>4. [order |-> page.order, state |-> "none"] \in Payments
    BY <1>1 DEF Pages, Payments
<1>5. payment' \in [Attempts -> Payments \cup {None}] /\ payment'[a] # None
    BY <1>1, <1>3, <1>4, NoneIsNoRecord DEF TypeOK
<1>6. modal' \in Modals
    BY <1>3 DEF Modals
<1>7. TypeOK'
    BY <1>1, <1>2, <1>3, <1>5, <1>6 DEF TypeOK
<1>8. Wired'
    BY <1>1, <1>2, <1>3, <1>5 DEF Wired
<1> QED BY <1>7, <1>8 DEF Typed

\* A checkout that never opened puts its page, if it is there, in error.
LEMMA CheckoutThrowsTyped == Typed /\ CheckoutThrows => Typed'
<1> SUFFICES ASSUME Typed, CheckoutThrows PROVE Typed'
    OBVIOUS
<1>1. /\ TypeOK /\ Wired /\ page \in PageStates
      /\ modal \in Modals /\ modal # None /\ modal.attempt \in Attempts
    BY DEF Typed, TypeOK, CheckoutThrows, PageStates, Modals
<1>2. modal.live => page \in Pages /\ page # None
    BY <1>1 DEF Wired, PageStates
<1>3. "error" \in PaymentPhase
    BY DEF PaymentPhase
<1>4. /\ page' \in PageStates
      /\ page # None => page' # None
      /\ modal' = None /\ record' = None
    <2>1. page' = IF modal.live THEN Reduce(page, "error", modal.attempt, None) ELSE page
        BY DEF CheckoutThrows
    <2>2. modal.live => /\ Reduce(page, "error", modal.attempt, None) \in Pages
                        /\ Reduce(page, "error", modal.attempt, None) # None
        BY <1>1, <1>2, <1>3, ReduceIsPage
    <2>3. modal' = None /\ record' = None
        BY DEF CheckoutThrows
    <2> QED BY <1>1, <2>1, <2>2, <2>3 DEF PageStates
<1>5. TypeOK'
    BY <1>1, <1>4 DEF TypeOK, CheckoutThrows, PageStates
<1>6. Wired'
    BY <1>1, <1>4 DEF Wired, CheckoutThrows
<1> QED BY <1>5, <1>6 DEF Typed

\* A checkout that returns asks about its own payment, live if its page is.
LEMMA CheckoutReturnsTyped ==
    ASSUME Typed, NEW kind \in {"verify", "settle"}, CheckoutReturns(kind)
    PROVE  Typed'
<1>1. /\ TypeOK /\ Wired /\ call \in CallTables
      /\ modal \in Modals /\ modal # None
      /\ modal.attempt \in Attempts /\ modal.live \in BOOLEAN
      /\ modal.live => page # None
      /\ payment[modal.attempt] # None
    BY DEF Typed, TypeOK, CallTables, CheckoutReturns, Modals, Wired
<1>2. payment[modal.attempt].order \in Orders
    BY <1>1 DEF TypeOK, Payments
<1> DEFINE asked == Request(kind, payment[modal.attempt].order, modal.attempt)
           k == [asked EXCEPT !.live = modal.live]
<1>3. asked \in Requests /\ asked.kind = kind
    BY <1>1, <1>2 DEF Request, Requests
<1>4. k \in Requests /\ k.live = modal.live /\ k.kind # "init"
    BY <1>1, <1>3 DEF Requests
<1>5. PICK d \in Calls : call' = [call EXCEPT ![d] = k] /\ page' = Apply(k, "verifying")
    BY DEF CheckoutReturns
<1> HIDE DEF k
<1>6. "verifying" \in PaymentPhase
    BY DEF PaymentPhase
<1>7. /\ page' \in PageStates /\ (page # None => page' # None)
    BY <1>1, <1>4, <1>5, <1>6, AppliedIsPage
<1>8. /\ call' \in CallTables
      /\ \A c \in Calls : call'[c] = IF c = d THEN k ELSE call[c]
    BY <1>1, <1>4, <1>5 DEF CallTables
<1>9. TypeOK'
    BY <1>1, <1>7, <1>8 DEF TypeOK, CheckoutReturns, PageStates, CallTables
<1>10. Wired'
    BY <1>1, <1>4, <1>7, <1>8 DEF Wired, CheckoutReturns
<1> QED BY <1>9, <1>10 DEF Typed

\* A redirect takes page and requests with it.
LEMMA CheckoutRedirectsTyped == Typed /\ CheckoutRedirects => Typed'
<1> SUFFICES ASSUME Typed, CheckoutRedirects PROVE Typed'
    OBVIOUS
<1>1. /\ TypeOK /\ Wired /\ modal \in Modals /\ modal # None
      /\ modal.attempt \in Attempts
    BY DEF Typed, TypeOK, CheckoutRedirects, Modals
<1>2. modal' = [modal EXCEPT !.live = FALSE, !.away = TRUE]
    BY DEF CheckoutRedirects
<1>3. /\ modal' \in Modals /\ modal'.attempt = modal.attempt /\ ~modal'.live
    BY <1>1, <1>2 DEF Modals
<1>4. TypeOK'
    BY <1>1, <1>3 DEF TypeOK, CheckoutRedirects
<1>5. Wired'
    BY <1>1, <1>3 DEF Wired, CheckoutRedirects
<1> QED BY <1>4, <1>5 DEF Typed

\* The two buttons that send a request from the page on screen.
LEMMA ButtonsTyped == Typed /\ (ResolveAttempt \/ HandleTryAgain) => Typed'
<1> SUFFICES ASSUME Typed, ResolveAttempt \/ HandleTryAgain PROVE Typed'
    OBVIOUS
<1>1. /\ TypeOK /\ Wired /\ call \in CallTables
      /\ page \in Pages /\ page # None /\ page.order \in Orders
      /\ record \in Attempts \cup {None}
    BY DEF Typed, TypeOK, CallTables, ResolveAttempt, HandleTryAgain, Pages
<1>2. {"verifying", "idle", "initializing"} \subseteq PaymentPhase
    BY DEF PaymentPhase
<1>3. PICK d \in Calls, kind \in {"check", "init"}, a \in Attempts \cup {None} :
          call' = [call EXCEPT ![d] = Request(kind, page.order, a)]
    BY <1>1 DEF ResolveAttempt, HandleTryAgain, Sent
<1>4. /\ Request(kind, page.order, a) \in Requests
      /\ Request(kind, page.order, a).live
    BY <1>1, RequestIsTyped
<1>5. /\ call' \in CallTables
      /\ \A c \in Calls : call'[c] = IF c = d THEN Request(kind, page.order, a) ELSE call[c]
    BY <1>1, <1>3, <1>4 DEF CallTables
<1>6. page' \in Pages /\ page' # None
    <2>1. CASE ResolveAttempt
        BY <1>1, <1>2, <2>1, ReduceIsPage DEF ResolveAttempt
    <2>2. CASE HandleTryAgain
        <3>1. Reduce(page, "idle", None, None) \in Pages
            BY <1>1, <1>2, ReduceIsPage
        <3>2. page' = Reduce(Reduce(page, "idle", None, None), "initializing", None, None)
            BY <2>2 DEF HandleTryAgain
        <3> QED BY <1>2, <3>1, <3>2, ReduceIsPage
    <2> QED BY <2>1, <2>2
<1>7. UNCHANGED <<habits, status, payment, modal, record, orderKey, session, confirmed, erased>>
    BY DEF ResolveAttempt, HandleTryAgain
<1>8. TypeOK'
    BY <1>1, <1>5, <1>6, <1>7 DEF TypeOK, CallTables
<1>9. Wired'
    BY <1>1, <1>4, <1>5, <1>6, <1>7, NoneIsNoRecord DEF Wired
<1> QED BY <1>8, <1>9 DEF Typed

\* The world moves payments and orders, never the device.
LEMMA WorldTyped ==
    ASSUME Typed,
           \/ \E a \in Attempts : PaymentStarts(a) \/ PaymentEnds(a)
           \/ \E o \in Orders : Backend(o)
    PROVE  Typed'
<1>1. TypeOK /\ Wired
    BY DEF Typed
<1>2. CASE \E a \in Attempts : PaymentStarts(a) \/ PaymentEnds(a)
    <2>1. PICK a \in Attempts, state \in {"pending", "success", "failed"} :
              payment[a] # None /\ payment' = [payment EXCEPT ![a].state = state]
        BY <1>1, <1>2 DEF PaymentStarts, PaymentEnds, Wired
    <2>2. UNCHANGED <<habits, status, page, call, modal, record, orderKey, session, confirmed, erased>>
        BY <1>2 DEF PaymentStarts, PaymentEnds, device
    <2>3. payment[a] \in Payments
        BY <1>1, <2>1 DEF TypeOK
    <2>4. [payment[a] EXCEPT !.state = state] \in Payments
        BY <2>3 DEF Payments
    <2>5. /\ payment' \in [Attempts -> Payments \cup {None}]
          /\ \A b \in Attempts : payment[b] # None => payment'[b] # None
        BY <1>1, <2>1, <2>4, NoneIsNoRecord DEF TypeOK
    <2>6. (modal # None => modal.attempt \in Attempts) /\ (record # None => record \in Attempts)
        BY <1>1 DEF TypeOK, Modals
    <2>7. TypeOK'
        BY <1>1, <2>2, <2>5 DEF TypeOK
    <2>8. Wired'
        BY <1>1, <2>2, <2>5, <2>6 DEF Wired
    <2> QED BY <2>7, <2>8 DEF Typed
<1>3. CASE \E o \in Orders : Backend(o)
    <2>1. status' \in [Orders -> Statuses]
        BY <1>1, <1>3 DEF TypeOK, Backend, Statuses
    <2>2. UNCHANGED <<habits, payment, page, call, modal, record, orderKey, session, confirmed, erased>>
        BY <1>3 DEF Backend, device
    <2> QED BY <1>1, <2>1, <2>2 DEF Typed, TypeOK, Wired
<1> QED BY <1>2, <1>3

\* An answer fills in one request.
LEMMA AnswerTyped ==
    ASSUME Typed, NEW c \in Calls, Answer(c)
    PROVE  Typed'
<1>1. /\ TypeOK /\ Wired /\ call \in CallTables
      /\ call[c] \in Requests /\ call[c] # None
    BY DEF Typed, TypeOK, CallTables, Answer
<1>2. PICK answer \in Truth(call[c]) \cup {"unknown"} :
          /\ call' = [call EXCEPT ![c].answer = answer]
          /\ status' = IF answer = "paid" /\ status[call[c].order] = "pending"
                       THEN [status EXCEPT ![call[c].order] = "paid"] ELSE status
    BY DEF Answer
<1>3. answer \in Answers
    BY <1>2 DEF Truth, Answers
<1>4. status' \in [Orders -> Statuses]
    BY <1>1, <1>2 DEF TypeOK, Statuses
<1> DEFINE k == [call[c] EXCEPT !.answer = answer]
<1>5. k \in Requests /\ k.live = call[c].live /\ k.kind = call[c].kind
    BY <1>1, <1>3 DEF Requests
<1>6. call' = [call EXCEPT ![c] = k]
    BY <1>2
<1> HIDE DEF k
<1>7. call' \in CallTables /\ \A d \in Calls : call'[d] = IF d = c THEN k ELSE call[d]
    BY <1>1, <1>5, <1>6 DEF CallTables
<1>8. UNCHANGED <<habits, payment, page, modal, record, orderKey, session, confirmed, erased>>
    BY DEF Answer, device
<1>9. TypeOK'
    BY <1>1, <1>4, <1>7, <1>8 DEF TypeOK, CallTables
<1>10. Wired'
    BY <1>1, <1>5, <1>7, <1>8 DEF Wired
<1> QED BY <1>9, <1>10 DEF Typed

\* A confirmation leaves no page, and nothing that would act on one.
LEMMA ConfirmPaidTyped ==
    ASSUME Typed, NEW c \in Calls, call[c] \in Requests, ConfirmPaid(c)
    PROVE  Typed'
<1>1. TypeOK /\ Wired /\ call[c].order \in Orders
    BY DEF Typed, Requests
<1>2. Done(c) \in CallTables
    BY <1>1 DEF TypeOK, CallTables, Done
<1>3. /\ call' = Orphaned(Done(c)) /\ modal' = OrphanedModal /\ page' = None
      /\ record' = None /\ orderKey' = None /\ session' = None
      /\ confirmed' = confirmed \cup {call[c].order}
      /\ UNCHANGED <<habits, status, payment, erased>>
    BY DEF ConfirmPaid
<1>4. TypeOK'
    BY <1>1, <1>2, <1>3, OrphansAreWired, OrphanedModalIsWired DEF TypeOK, CallTables
<1>5. Wired'
    BY <1>1, <1>2, <1>3, OrphansAreWired, OrphanedModalIsWired DEF Wired
<1> QED BY <1>4, <1>5 DEF Typed

\* Any other answer changes the phase of the page it belongs to.
LEMMA ShowsTyped ==
    ASSUME Typed, NEW c \in Calls, call[c] \in Requests, call[c] # None,
           NEW phase \in PaymentPhase, Shows(c, phase),
           record' \in {record, None}, erased' \subseteq Orders,
           UNCHANGED <<orderKey, session>>
    PROVE  Typed'
<1>1. TypeOK /\ Wired /\ (call[c].live => page # None)
    BY DEF Typed, Wired
<1>2. /\ page' \in PageStates
      /\ page = None => page' = None
      /\ page # None => page' # None
    BY <1>1, AppliedIsPage DEF Shows
<1>3. /\ call' \in CallTables
      /\ \A d \in Calls : call'[d] = IF d = c THEN None ELSE call[d]
    BY <1>1 DEF TypeOK, CallTables, Shows, Done
<1>4. UNCHANGED <<habits, status, payment, modal, confirmed>>
    BY DEF Shows
<1>5. TypeOK'
    BY <1>1, <1>2, <1>3, <1>4 DEF TypeOK, PageStates, CallTables
<1>6. Wired'
    BY <1>1, <1>2, <1>3, <1>4 DEF Wired
<1> QED BY <1>5, <1>6 DEF Typed

\* A session from payment-init arms the page that asked for it.
LEMMA SessionTyped ==
    ASSUME Typed, NEW c \in Calls, Answered(c, "init"), InitLands(c),
           call[c].answer = "session"
    PROVE  Typed'
<1>1. TypeOK /\ Wired /\ call[c] # None /\ page \in Pages /\ page # None
    BY DEF Typed, Wired, Answered, TypeOK
<1> DEFINE ready == Reduce(page, "ready", None, None)
<1>2. ready \in Pages
    BY <1>1, ReduceIsPage DEF PaymentPhase
<1>3. /\ page' = [ready EXCEPT !.data = TRUE] /\ call' = Done(c)
      /\ UNCHANGED <<habits, status, payment, modal, record, orderKey, session, confirmed, erased>>
    BY DEF InitLands, ConfirmPaid, Shows, device
<1> HIDE DEF ready
<1>4. page' \in Pages /\ page' # None
    BY <1>2, <1>3, NoneIsNoRecord DEF Pages
<1>5. /\ call' \in CallTables
      /\ \A d \in Calls : call'[d] = IF d = c THEN None ELSE call[d]
    BY <1>1, <1>3 DEF TypeOK, CallTables, Done
<1>6. TypeOK'
    BY <1>1, <1>3, <1>4, <1>5 DEF TypeOK, CallTables
<1>7. Wired'
    BY <1>1, <1>3, <1>4, <1>5 DEF Wired
<1> QED BY <1>6, <1>7 DEF Typed

\* Whatever lands is a confirmation of a paid answer, a session, or a phase.
LEMMA LandingsAre ==
    ASSUME Typed, NEW c \in Calls, Lands(c)
    PROVE  /\ call[c] \in Requests /\ call[c] # None
           /\ \/ call[c].answer = "paid" /\ ConfirmPaid(c)
              \/ Answered(c, "init") /\ InitLands(c) /\ call[c].answer = "session"
              \/ \E phase \in PaymentPhase :
                    /\ Shows(c, phase)
                    /\ record' \in {record, None}
                    /\ erased \subseteq erased' /\ erased' \subseteq Orders
                    /\ UNCHANGED <<orderKey, session>>
<1>1. call[c] \in Requests /\ call[c] # None
    BY DEF Typed, TypeOK, Lands, InitLands, CheckLands, VerifyLands, SettleLands, Answered
<1>2. /\ record \in Attempts \cup {None} /\ {"error", "unresolved", "failed"} \subseteq PaymentPhase
      /\ erased \subseteq Orders
    BY DEF Typed, TypeOK, PaymentPhase
<1>3. CASE InitLands(c)
    <2>1. CASE call[c].answer = "session"
        BY <1>1, <1>3, <2>1 DEF InitLands
    <2>2. CASE call[c].answer # "session"
        BY <1>1, <1>2, <1>3, <2>2 DEF InitLands, device
    <2> QED BY <2>1, <2>2
<1>4. CASE CheckLands(c)
    BY <1>1, <1>2, <1>4 DEF CheckLands, device
<1>5. CASE VerifyLands(c)
    BY <1>1, <1>2, <1>5 DEF VerifyLands, device
<1>6. CASE SettleLands(c)
    <2>1. record # None => payment[record].order \in Orders
        BY <1>2 DEF Typed, TypeOK, Wired, Payments
    <2> QED BY <1>1, <1>2, <1>6, <2>1 DEF SettleLands, device
<1> QED BY <1>3, <1>4, <1>5, <1>6 DEF Lands

\* Every step keeps the page typed and wired.
LEMMA StepsAreTyped == Typed /\ [Next]_vars => Typed'
<1> SUFFICES ASSUME Typed, [Next]_vars PROVE Typed'
    OBVIOUS
<1>1. TypeOK
    BY DEF Typed
<1>2. CASE Customer
    <2>1. CASE \E o \in Orders : Checkout(o)
        BY <2>1, CheckoutTyped
    <2>2. CASE Reload \/ Return \/ BrowserForward
        BY <2>2, ReloadTyped, ReturnTyped, BrowserForwardTyped
    <2>3. CASE BrowserBack \/ HandleGoBack \/ HandleLeaveUnresolved
        BY <2>3, LeavePageTyped DEF BrowserBack, HandleGoBack, HandleLeaveUnresolved
    <2>4. CASE \E a \in Attempts : HandlePayNow(a)
        BY <2>4, HandlePayNowTyped
    <2>5. CASE \E a \in Attempts : PaymentStarts(a)
        BY <2>5, WorldTyped
    <2>6. CASE ResolveAttempt \/ HandleTryAgain
        BY <2>6, ButtonsTyped
    <2> QED BY <1>2, <2>1, <2>2, <2>3, <2>4, <2>5, <2>6 DEF Customer
<1>3. CASE World
    BY <1>3, CheckoutThrowsTyped, CheckoutRedirectsTyped, CheckoutReturnsTyped, WorldTyped
       DEF World
<1>4. CASE \E c \in Calls : Answer(c)
    BY <1>4, AnswerTyped
<1>5. ASSUME NEW c \in Calls, Lands(c)
      PROVE  Typed'
    BY <1>5, LandingsAre, ConfirmPaidTyped, SessionTyped, ShowsTyped
<1>6. CASE UNCHANGED vars
    BY <1>6 DEF vars, device, Typed, TypeOK, Wired
<1> QED BY <1>2, <1>3, <1>4, <1>5, <1>6 DEF Next

-----------------------------------------------------------------------------
\* What is never undone

\* A payment keeps its order, and its success; a new one is of the order on screen.
PaymentsProceed ==
    /\ \A a \in Attempts : payment[a] # None =>
         /\ payment'[a] # None /\ payment'[a].order = payment[a].order
         /\ payment[a].state = "success" => payment'[a].state = "success"
    /\ \A a \in Attempts : payment'[a] # None =>
         \/ payment[a] # None
         \/ page # None /\ payment'[a].order = page.order

\* A settled order stays settled; one settles on a captured payment only.
OrdersProceed ==
    /\ \A o \in Orders : status[o] # "unplaced" => status'[o] # "unplaced"
    /\ \A o \in Orders : Settled(o) => Settled(o)'
    /\ \A o \in Orders : Settled(o)' => Settled(o) \/ Holds(o, "success")

\* A new "paid" is about a settled order, an old one about the order it was.
AnswersProceed ==
    \A c \in Calls : call'[c] # None /\ call'[c].answer = "paid" =>
        \/ call[c] # None /\ call[c].answer = "paid" /\ call'[c].order = call[c].order
        \/ call'[c].order \in Orders /\ status'[call'[c].order] \in {"paid", "refunded"}

\* The step moves no payment, order, or answer.
LEMMA PaymentsOnlyProceed == Typed /\ [Next]_vars => PaymentsProceed
<1> SUFFICES ASSUME TypeOK, Wired, [Next]_vars PROVE PaymentsProceed
    BY DEF Typed
<1>1. ASSUME NEW a \in Attempts, HandlePayNow(a)
      PROVE  PaymentsProceed
    <2>1. payment[a] = None
        BY <1>1 DEF HandlePayNow
    <2>2. \A b \in Attempts \ {a} : payment'[b] = payment[b]
        BY <1>1 DEF HandlePayNow, TypeOK
    <2>3. page # None /\ payment'[a].order = page.order
        BY <1>1 DEF HandlePayNow, PayOffered, TypeOK
    <2> QED BY <2>1, <2>2, <2>3 DEF PaymentsProceed
<1>2. ASSUME NEW a \in Attempts, PaymentStarts(a) \/ PaymentEnds(a)
      PROVE  PaymentsProceed
    <2>1. PICK state : payment' = [payment EXCEPT ![a].state = state]
        BY <1>2 DEF PaymentStarts, PaymentEnds
    <2>2. \A b \in Attempts \ {a} : payment'[b] = payment[b]
        BY <2>1 DEF TypeOK
    <2>3. payment[a] # None => payment[a] \in Payments
        BY DEF TypeOK
    <2>4. payment[a] # None => payment'[a] = [payment[a] EXCEPT !.state = state]
        BY <2>1 DEF TypeOK
    <2>5. payment[a] # None => [payment[a] EXCEPT !.state = state] \in
                                   [order : Orders, state : {state}]
        BY <2>3 DEF Payments
    <2>6. payment[a] # None => payment'[a] # None
        <3>1. CASE PaymentStarts(a)
            BY <2>3, <3>1, NoneIsNoRecord DEF PaymentStarts, TypeOK, Payments
        <3>2. CASE PaymentEnds(a)
            BY <2>3, <3>2, NoneIsNoRecord DEF PaymentEnds, TypeOK, Payments
        <3> QED BY <1>2, <3>1, <3>2
    <2>7. payment[a] # None => payment'[a].order = payment[a].order
        BY <2>3, <2>4 DEF Payments
    <2>8. payment[a].state # "success"
        BY <1>2 DEF PaymentStarts, PaymentEnds
    <2>9. payment[a] # None
        BY <1>2 DEF PaymentStarts, PaymentEnds, Wired
    <2> QED BY <2>2, <2>6, <2>7, <2>8, <2>9 DEF PaymentsProceed
<1>3. CASE UNCHANGED payment
    BY <1>3 DEF PaymentsProceed
<1>4. CASE ~ \E a \in Attempts : HandlePayNow(a) \/ PaymentStarts(a) \/ PaymentEnds(a)
    <2>1. CASE UNCHANGED vars
        BY <2>1 DEF vars, PaymentsProceed
    <2>2. CASE Customer
        BY <1>3, <1>4, <2>2 DEF Customer, Checkout, Reload, Return, BrowserBack, BrowserForward,
           HandleGoBack, HandleLeaveUnresolved, LeavePage, ResolveAttempt, HandleTryAgain
    <2>3. CASE World
        BY <1>3, <1>4, <2>3 DEF World, CheckoutThrows, CheckoutRedirects, CheckoutReturns, Backend
    <2>4. CASE \E c \in Calls : Answer(c)
        BY <1>3, <2>4 DEF Answer
    <2>5. ASSUME NEW c \in Calls, Lands(c)
          PROVE  UNCHANGED payment
        BY <2>5 DEF Lands, InitLands, CheckLands, VerifyLands, SettleLands, ConfirmPaid, Shows
    <2> QED BY <1>3, <2>1, <2>2, <2>3, <2>4, <2>5 DEF Next
<1> QED BY <1>1, <1>2, <1>4

\* Orders settle on captured money, and for good.
LEMMA OrdersOnlyProceed == TypeOK /\ [Next]_vars => OrdersProceed
<1> SUFFICES ASSUME TypeOK, [Next]_vars PROVE OrdersProceed
    OBVIOUS
<1>1. CASE UNCHANGED status
    BY <1>1 DEF OrdersProceed, Settled
<1>2. ASSUME NEW o \in Orders, status[o] = "unplaced",
             status' = [status EXCEPT ![o] = "pending"]
      PROVE  OrdersProceed
    BY <1>2 DEF OrdersProceed, Settled, TypeOK
<1>3. ASSUME NEW o \in Orders, status[o] = "pending", Holds(o, "success"),
             status' = [status EXCEPT ![o] = "paid"]
      PROVE  OrdersProceed
    BY <1>3 DEF OrdersProceed, Settled, TypeOK
<1>4. ASSUME NEW o \in Orders, status[o] = "paid",
             status' = [status EXCEPT ![o] = "refunded"]
      PROVE  OrdersProceed
    BY <1>4 DEF OrdersProceed, Settled, TypeOK
<1>5. ASSUME NEW c \in Calls, Answer(c)
      PROVE  OrdersProceed
    <2>1. PICK answer \in Truth(call[c]) \cup {"unknown"} :
              status' = IF answer = "paid" /\ status[call[c].order] = "pending"
                        THEN [status EXCEPT ![call[c].order] = "paid"] ELSE status
        BY <1>5 DEF Answer
    <2>2. call[c].order \in Orders
        BY <1>5 DEF Answer, TypeOK, Requests
    <2>3. CASE answer = "paid" /\ status[call[c].order] = "pending"
        <3>1. Holds(call[c].order, "success")
            BY <2>1, <2>3 DEF Truth
        <3> QED BY <1>3, <2>1, <2>2, <2>3, <3>1
    <2> QED BY <1>1, <2>1, <2>3
<1>6. ASSUME NEW o \in Orders, Checkout(o)
      PROVE  OrdersProceed
    BY <1>1, <1>2, <1>6 DEF Checkout
<1>7. ASSUME NEW o \in Orders, Backend(o)
      PROVE  OrdersProceed
    BY <1>3, <1>4, <1>7 DEF Backend
<1>8. CASE UNCHANGED vars
    BY <1>1, <1>8 DEF vars
<1>9. CASE Customer
    BY <1>1, <1>6, <1>9 DEF Customer, Reload, Return, BrowserBack, BrowserForward,
       HandleGoBack, HandleLeaveUnresolved, LeavePage, ResolveAttempt, HandleTryAgain,
       HandlePayNow, PaymentStarts
<1>10. CASE World
    BY <1>1, <1>7, <1>10 DEF World, CheckoutThrows, CheckoutRedirects, CheckoutReturns, PaymentEnds
<1>11. ASSUME NEW c \in Calls, Lands(c)
       PROVE  UNCHANGED status
    BY <1>11 DEF Lands, InitLands, CheckLands, VerifyLands, SettleLands, ConfirmPaid, Shows
<1> QED BY <1>1, <1>5, <1>8, <1>9, <1>10, <1>11 DEF Next

\* Answers are given by Answer alone; what mounts or unmounts keeps them.
LEMMA AnswersOnlyProceed == Typed /\ OnlyPlaced /\ [Next]_vars => AnswersProceed
<1> SUFFICES ASSUME Typed, OnlyPlaced, [Next]_vars PROVE AnswersProceed
    OBVIOUS
<1>1. TypeOK /\ Wired /\ call \in CallTables /\ "paid" # None
    BY NoneIsNoAnswer DEF Typed, TypeOK, CallTables, Answers
<1>2. CASE UNCHANGED call
    BY <1>2 DEF AnswersProceed
<1>3. ASSUME NEW cs \in CallTables, NEW o \in Orders, MountWith(cs, o),
             \A c \in Calls : cs[c] = None \/ cs[c] = call[c]
      PROVE  AnswersProceed
    <2>1. \A c \in Calls : cs[c] # None => (cs[c].kind = "init" => cs[c].live)
        BY <1>1, <1>3 DEF Wired
    <2>2. \A c \in Calls : call'[c] # None /\ call'[c].answer # None =>
             cs[c] # None /\ call'[c] = cs[c]
        BY <1>1, <1>3, <2>1, MountIsWired
    <2> QED BY <1>1, <1>3, <2>2 DEF AnswersProceed
<1>4. ASSUME NEW cs \in CallTables, call' = Orphaned(cs),
             \A c \in Calls : cs[c] = None \/ cs[c] = call[c]
      PROVE  AnswersProceed
    BY <1>4, OrphansAreWired DEF AnswersProceed
<1>5. ASSUME NEW d \in Calls, NEW k \in Requests \cup {None},
             call' = [call EXCEPT ![d] = k],
             k # None => k.answer = None
      PROVE  AnswersProceed
    BY <1>1, <1>5 DEF AnswersProceed, CallTables
<1>6. CASE call' = [c \in Calls |-> None]
    BY <1>6 DEF AnswersProceed
<1> DEFINE silence == [c \in Calls |-> None]
<1>7. silence \in CallTables /\ \A c \in Calls : silence[c] = None
    BY DEF CallTables
<1> HIDE DEF silence
<1>8. CASE Customer
    <2>1. ASSUME NEW o \in Orders, Checkout(o) PROVE AnswersProceed
        BY <1>1, <1>3, <2>1 DEF Checkout
    <2>2. CASE Reload
        <3>1. CASE orderKey = None
            BY <1>6, <2>2, <3>1 DEF Reload
        <3>2. CASE orderKey # None
            <4>1. orderKey \in Orders /\ MountWith(silence, orderKey)
                BY <1>1, <2>2, <3>2 DEF Reload, TypeOK, silence
            <4> QED BY <1>3, <1>7, <4>1
        <3> QED BY <3>1, <3>2
    <2>3. CASE Return
        BY <1>1, <1>2, <1>3, <2>3 DEF Return, TypeOK
    <2>4. CASE BrowserForward
        BY <1>1, <1>3, <2>4 DEF BrowserForward, TypeOK
    <2>5. CASE LeavePage
        BY <1>1, <1>4, <2>5 DEF LeavePage
    <2>6. CASE ResolveAttempt \/ HandleTryAgain
        <3>1. PICK d \in Calls, kind \in {"check", "init"}, a \in Attempts \cup {None} :
                  call' = [call EXCEPT ![d] = Request(kind, page.order, a)]
            BY <1>1, <2>6 DEF ResolveAttempt, HandleTryAgain, Sent, TypeOK
        <3>2. page.order \in Orders
            BY <1>1, <2>6 DEF ResolveAttempt, HandleTryAgain, TypeOK, Pages
        <3>3. /\ Request(kind, page.order, a) \in Requests
              /\ Request(kind, page.order, a).answer = None
            BY <3>2, RequestIsTyped
        <3> QED BY <1>5, <3>1, <3>3
    <2>7. CASE \E a \in Attempts : HandlePayNow(a) \/ PaymentStarts(a)
        BY <1>2, <2>7 DEF HandlePayNow, PaymentStarts
    <2> QED BY <1>8, <2>1, <2>2, <2>3, <2>4, <2>5, <2>6, <2>7
        DEF Customer, BrowserBack, HandleGoBack, HandleLeaveUnresolved
<1>9. CASE World
    <2>1. CASE CheckoutThrows
        BY <1>2, <2>1 DEF CheckoutThrows
    <2>2. CASE CheckoutRedirects
        BY <1>6, <2>2 DEF CheckoutRedirects
    <2>3. ASSUME NEW kind \in {"verify", "settle"}, CheckoutReturns(kind)
          PROVE  AnswersProceed
        <3> DEFINE asked == Request(kind, payment[modal.attempt].order, modal.attempt)
        <3>1. /\ modal \in Modals /\ modal.attempt \in Attempts /\ modal.live \in BOOLEAN
              /\ payment[modal.attempt] # None
            BY <1>1, <2>3 DEF CheckoutReturns, TypeOK, Modals, Wired
        <3>2. asked \in Requests /\ asked.answer = None
            BY <1>1, <3>1 DEF Request, Requests, TypeOK, Payments
        <3>3. PICK d \in Calls : call' = [call EXCEPT ![d] = [asked EXCEPT !.live = modal.live]]
            BY <2>3 DEF CheckoutReturns
        <3> HIDE DEF asked
        <3>4. /\ [asked EXCEPT !.live = modal.live] \in Requests
              /\ [asked EXCEPT !.live = modal.live].answer = None
            BY <3>1, <3>2 DEF Requests
        <3> QED BY <1>5, <3>3, <3>4
    <2>4. CASE \E a \in Attempts : PaymentEnds(a)
        BY <1>2, <2>4 DEF PaymentEnds
    <2>5. CASE \E o \in Orders : Backend(o)
        BY <1>2, <2>5 DEF Backend
    <2> QED BY <1>9, <2>1, <2>2, <2>3, <2>4, <2>5 DEF World
<1>10. ASSUME NEW c \in Calls, Answer(c) PROVE AnswersProceed
    <2>1. /\ call[c] \in Requests /\ call[c] # None /\ call[c].order \in Orders
          /\ status[call[c].order] \in Statuses
        BY <1>1, <1>10 DEF Answer, TypeOK, Requests
    <2>2. PICK answer \in Truth(call[c]) \cup {"unknown"} :
              /\ call' = [call EXCEPT ![c].answer = answer]
              /\ status' = IF answer = "paid" /\ status[call[c].order] = "pending"
                           THEN [status EXCEPT ![call[c].order] = "paid"] ELSE status
        BY <1>10 DEF Answer
    <2>3. call'[c].order = call[c].order /\ call'[c].answer = answer
        BY <1>1, <2>1, <2>2 DEF CallTables, Requests
    <2>4. \A d \in Calls \ {c} : call'[d] = call[d]
        BY <1>1, <2>2 DEF CallTables
    <2>5. answer = "paid" => status'[call[c].order] \in {"paid", "refunded"}
        <3>1. CASE status[call[c].order] = "pending"
            BY <1>1, <2>1, <2>2, <3>1 DEF Settled, TypeOK
        <3>2. CASE status[call[c].order] = "unplaced"
            <4>1. answer = "paid" => Holds(call[c].order, "success")
                BY <1>1, <2>2, <3>2, NoneIsNoAnswer DEF Truth
            <4>2. ~Holds(call[c].order, "success")
                BY <2>1, <3>2 DEF Holds, OnlyPlaced
            <4> QED BY <4>1, <4>2
        <3>3. CASE Settled(call[c].order)
            BY <2>2, <3>3 DEF Settled
        <3> QED BY <2>1, <3>1, <3>2, <3>3 DEF Statuses, Settled
    <2>6. ASSUME NEW d \in Calls, call'[d] # None, call'[d].answer = "paid"
          PROVE  \/ call[d] # None /\ call[d].answer = "paid" /\ call'[d].order = call[d].order
                 \/ call'[d].order \in Orders /\ status'[call'[d].order] \in {"paid", "refunded"}
        BY <2>1, <2>3, <2>4, <2>5, <2>6
    <2> QED BY <2>6 DEF AnswersProceed
<1>11. ASSUME NEW c \in Calls, Lands(c) PROVE AnswersProceed
    <2>1. Done(c) \in CallTables /\ \A d \in Calls : Done(c)[d] = None \/ Done(c)[d] = call[d]
        BY <1>1 DEF Done, CallTables
    <2>2. CASE call' = Orphaned(Done(c))
        BY <1>4, <2>1, <2>2
    <2>3. CASE call' = Done(c)
        BY <2>1, <2>3 DEF AnswersProceed
    <2> QED BY <1>11, <2>2, <2>3
        DEF Lands, InitLands, CheckLands, VerifyLands, SettleLands, ConfirmPaid, Shows
<1>12. CASE UNCHANGED vars
    BY <1>2, <1>12 DEF vars
<1> QED BY <1>8, <1>9, <1>10, <1>11, <1>12 DEF Next

\* A page shows the order it showed, or the one the device keeps.
KnownOrders ==
    /\ page' # None =>
         \/ page # None /\ page'.order = page.order
         \/ orderKey' # None /\ page'.order = orderKey'
    /\ orderKey' # None => orderKey' = orderKey \/ status'[orderKey'] # "unplaced"
    /\ session' # None => session' = session \/ status'[session'] # "unplaced"

\* No handler brings up an order the device does not know.
LEMMA PagesShowKnownOrders == Typed /\ OnlyPlaced /\ [Next]_vars => KnownOrders
<1> SUFFICES ASSUME Typed, OnlyPlaced, [Next]_vars PROVE KnownOrders
    OBVIOUS
<1>1. /\ TypeOK /\ Wired /\ call \in CallTables /\ page \in PageStates
      /\ record \in Attempts \cup {None}
    BY DEF Typed, TypeOK, CallTables, PageStates
<1>2. CASE UNCHANGED <<page, orderKey, session>>
    BY <1>2 DEF KnownOrders
<1>3. CASE page' = None /\ UNCHANGED <<orderKey, session>>
    BY <1>3 DEF KnownOrders
<1>4. ASSUME NEW cs \in CallTables, orderKey # None, MountWith(cs, orderKey),
             UNCHANGED <<orderKey, session>>
      PROVE  KnownOrders
    <2>1. PICK d \in Calls : page' = Mounted(orderKey)
        BY <1>4 DEF MountWith
    <2>2. orderKey \in Orders
        BY <1>1, <1>4 DEF TypeOK
    <2> QED BY <1>1, <1>4, <2>1, <2>2, MountedIsPage DEF KnownOrders
<1>5. ASSUME NEW to \in PaymentPhase, NEW a \in Attempts \cup {None}, NEW expected,
             page # None, page' = Reduce(page, to, a, expected), UNCHANGED <<orderKey, session>>
      PROVE  KnownOrders
    BY <1>1, <1>5, ReduceIsPage DEF KnownOrders, PageStates
<1>6. ASSUME NEW k \in Requests, k.live => page # None, NEW to \in PaymentPhase,
             page' = Apply(k, to), UNCHANGED <<orderKey, session>>
      PROVE  KnownOrders
    BY <1>1, <1>6, AppliedIsPage DEF KnownOrders
<1>7. {"opening", "error", "verifying", "idle", "initializing", "ready"} \subseteq PaymentPhase
    BY DEF PaymentPhase
<1>8. CASE Customer
    <2>1. ASSUME NEW o \in Orders, Checkout(o) PROVE KnownOrders
        <3>1. page' = Mounted(o) /\ orderKey' = o /\ session' = o
            BY <2>1 DEF Checkout, MountWith
        <3>2. page'.order = o
            BY <1>1, <3>1, MountedIsPage
        <3>3. status'[o] # "unplaced" \/ session' = session
            BY <1>1, <2>1 DEF Checkout, TypeOK
        <3>4. session' = session => status'[o] # "unplaced"
            <4>1. CASE session = o /\ UNCHANGED status
                <5>1. o # None
                    BY NoneIsNoName
                <5> QED BY <4>1, <5>1 DEF OnlyPlaced
            <4>2. CASE status' = [status EXCEPT ![o] = "pending"]
                BY <1>1, <4>2 DEF TypeOK
            <4> QED BY <2>1, <4>1, <4>2 DEF Checkout
        <3> QED BY <3>1, <3>2, <3>3, <3>4, NoneIsNoName DEF KnownOrders
    <2>2. CASE Reload
        <3>1. [c \in Calls |-> None] \in CallTables
            BY DEF CallTables
        <3> QED BY <1>3, <1>4, <2>2, <3>1 DEF Reload
    <2>3. CASE Return
        BY <1>1, <1>3, <1>4, <2>3 DEF Return
    <2>4. CASE BrowserForward
        BY <1>1, <1>4, <2>4 DEF BrowserForward
    <2>5. CASE LeavePage
        BY <1>3, <2>5 DEF LeavePage
    <2>6. ASSUME NEW a \in Attempts, HandlePayNow(a) PROVE KnownOrders
        BY <1>5, <1>7, <2>6 DEF HandlePayNow, PayOffered
    <2>7. CASE \E a \in Attempts : PaymentStarts(a)
        BY <1>2, <2>7 DEF PaymentStarts, device
    <2>8. CASE ResolveAttempt
        BY <1>1, <1>5, <1>7, <2>8 DEF ResolveAttempt
    <2>9. CASE HandleTryAgain
        <3>1. /\ page # None /\ page \in Pages /\ UNCHANGED <<orderKey, session>>
              /\ page' = Reduce(Reduce(page, "idle", None, None), "initializing", None, None)
            BY <1>1, <2>9 DEF HandleTryAgain, PageStates
        <3>2. /\ Reduce(page, "idle", None, None) \in Pages
              /\ Reduce(page, "idle", None, None).order = page.order
            BY <1>7, <3>1, ReduceIsPage
        <3>3. page'.order = page.order
            BY <1>7, <3>1, <3>2, ReduceIsPage
        <3> QED BY <3>1, <3>3 DEF KnownOrders
    <2> QED BY <1>8, <2>1, <2>2, <2>3, <2>4, <2>5, <2>6, <2>7, <2>8, <2>9
        DEF Customer, BrowserBack, HandleGoBack, HandleLeaveUnresolved
<1>9. CASE World
    <2>1. CASE CheckoutThrows
        <3>1. modal \in Modals /\ modal.attempt \in Attempts /\ (modal.live => page # None)
            BY <1>1, <2>1 DEF CheckoutThrows, TypeOK, Modals, Wired
        <3>2. UNCHANGED <<orderKey, session>>
            BY <2>1 DEF CheckoutThrows
        <3>3. CASE modal.live
            BY <1>5, <1>7, <2>1, <3>1, <3>2, <3>3 DEF CheckoutThrows
        <3>4. CASE ~modal.live
            BY <1>2, <2>1, <3>2, <3>4 DEF CheckoutThrows
        <3> QED BY <3>3, <3>4
    <2>2. CASE CheckoutRedirects
        BY <1>3, <2>2 DEF CheckoutRedirects
    <2>3. ASSUME NEW kind \in {"verify", "settle"}, CheckoutReturns(kind) PROVE KnownOrders
        <3> DEFINE asked == Request(kind, payment[modal.attempt].order, modal.attempt)
                   k == [asked EXCEPT !.live = modal.live]
        <3>1. /\ modal \in Modals /\ modal.attempt \in Attempts /\ modal.live \in BOOLEAN
              /\ payment[modal.attempt] # None /\ (modal.live => page # None)
            BY <1>1, <2>3 DEF CheckoutReturns, TypeOK, Modals, Wired
        <3>2. asked \in Requests
            BY <1>1, <3>1 DEF Request, Requests, TypeOK, Payments
        <3>3. k \in Requests /\ k.live = modal.live
            BY <3>1, <3>2 DEF Requests
        <3>4. page' = Apply(k, "verifying") /\ UNCHANGED <<orderKey, session>>
            BY <2>3 DEF CheckoutReturns
        <3> HIDE DEF k
        <3> QED BY <1>6, <1>7, <3>1, <3>3, <3>4
    <2>4. CASE \/ \E a \in Attempts : PaymentEnds(a)
               \/ \E o \in Orders : Backend(o)
        BY <1>2, <2>4 DEF PaymentEnds, Backend, device
    <2> QED BY <1>9, <2>1, <2>2, <2>3, <2>4 DEF World
<1>10. CASE \E c \in Calls : Answer(c)
    BY <1>2, <1>10 DEF Answer, device
<1>11. ASSUME NEW c \in Calls, Lands(c) PROVE KnownOrders
    <2>1. call[c] \in Requests /\ call[c] # None
        BY <1>11, LandingsAre
    <2>2. call[c].live => page # None
        BY <1>1, <2>1 DEF Wired
    <2>3. CASE ConfirmPaid(c)
        BY <2>3 DEF ConfirmPaid, KnownOrders
    <2>4. CASE Answered(c, "init") /\ InitLands(c) /\ call[c].answer = "session"
        <3> DEFINE ready == Reduce(page, "ready", None, None)
        <3>1. page # None /\ page \in Pages
            BY <1>1, <2>1, <2>4 DEF Wired, Answered, PageStates
        <3>2. ready \in Pages /\ ready.order = page.order
            BY <1>7, <3>1, ReduceIsPage
        <3>3. page' = [ready EXCEPT !.data = TRUE] /\ UNCHANGED <<orderKey, session>>
            BY <2>4 DEF InitLands, ConfirmPaid, Shows, device
        <3> HIDE DEF ready
        <3>4. page'.order = page.order
            BY <3>2, <3>3 DEF Pages
        <3> QED BY <3>1, <3>3, <3>4 DEF KnownOrders
    <2>5. ASSUME NEW phase \in PaymentPhase, Shows(c, phase), UNCHANGED <<orderKey, session>>
          PROVE  KnownOrders
        BY <1>6, <2>1, <2>2, <2>5 DEF Shows
    <2> QED BY <1>11, <2>3, <2>4, <2>5, LandingsAre
<1>12. CASE UNCHANGED vars
    BY <1>2, <1>12 DEF vars, device
<1> QED BY <1>8, <1>9, <1>10, <1>11, <1>12 DEF Next

\* The confirmation is shown on a paid answer only.
LEMMA ConfirmationsOnlyProceed ==
    Typed /\ [Next]_vars =>
        \A o \in confirmed' :
            \/ o \in confirmed
            \/ \E c \in Calls : call[c] # None /\ call[c].answer = "paid"
                                                /\ call[c].order = o
<1> SUFFICES ASSUME Typed, [Next]_vars
             PROVE  \/ confirmed' = confirmed
                    \/ \E c \in Calls : /\ call[c] # None /\ call[c].answer = "paid"
                                         /\ confirmed' = confirmed \cup {call[c].order}
    OBVIOUS
<1>1. CASE Customer
    BY <1>1 DEF Customer, Checkout, Reload, Return, BrowserBack, BrowserForward,
       HandleGoBack, HandleLeaveUnresolved, LeavePage, ResolveAttempt, HandleTryAgain,
       HandlePayNow, PaymentStarts
<1>2. CASE World
    BY <1>2 DEF World, CheckoutThrows, CheckoutRedirects, CheckoutReturns, PaymentEnds, Backend
<1>3. CASE \E c \in Calls : Answer(c)
    BY <1>3 DEF Answer
<1>4. ASSUME NEW c \in Calls, Lands(c)
      PROVE  \/ confirmed' = confirmed
             \/ /\ call[c] # None /\ call[c].answer = "paid"
                /\ confirmed' = confirmed \cup {call[c].order}
    BY <1>4, LandingsAre DEF ConfirmPaid, InitLands, Shows
<1>5. CASE UNCHANGED vars
    BY <1>5 DEF vars
<1> QED BY <1>1, <1>2, <1>3, <1>4, <1>5 DEF Next

-----------------------------------------------------------------------------
\* Money that moves is remembered

\* A request about a checkout that returned.
Asking(k) == k # None /\ k.kind \in {"verify", "settle"}

AskingOf(k, o) == Asking(k) /\ k.order = o

\* The phases before a checkout, with nothing to wait for but payment-init.
Unpaid == {"initializing"} \cup MAY_START_NEW_PAYMENT

\* Both keys, the page and an open checkout are about one order.
DeviceAgrees ==
    /\ session = orderKey
    /\ page # None => page.order = orderKey
    /\ modal # None /\ orderKey # None => payment[modal.attempt].order = orderKey

\* A request may be about an order the device has left, but then it no longer
\* acts on a page.
CallsAreOurs ==
    \A c \in Calls : call[c] # None =>
        /\ status[call[c].order] # "unplaced"
        /\ call[c].live => call[c].order = orderKey
        /\ Asking(call[c]) =>
             /\ call[c].attempt # None
             /\ payment[call[c].attempt] # None
             /\ payment[call[c].attempt].order = call[c].order

\* The device has an order, and its record was not cleared for another's sake.
Kept == orderKey # None /\ orderKey \notin erased

\* The record names the attempt that is in the checkout, or that is asked
\* about, and the one payment of the order that may take money.
RecordHolds ==
    /\ modal # None => record = modal.attempt
    /\ \A c \in Calls : AskingOf(call[c], orderKey) =>
         /\ record = call[c].attempt
         /\ modal = None
         /\ \A d \in Calls : AskingOf(call[d], orderKey) => d = c
    /\ \A a \in Attempts : MayLand(a) /\ payment[a].order = orderKey => record = a

\* An answer "nothing" stays true until it lands.
NothingIsNothing ==
    \A c \in Calls : AskingOf(call[c], orderKey) /\ call[c].answer = "nothing" =>
        \A a \in Attempts : MayLand(a) => payment[a].order # orderKey

\* At most one thing acts on the page, and the phase says which.
OneHand ==
    /\ \A c \in Calls : call[c] # None /\ call[c].live =>
         /\ page.phase = IF call[c].kind = "init" THEN "initializing" ELSE "verifying"
         /\ modal # None => ~modal.live
         /\ \A d \in Calls : call[d] # None /\ call[d].live => d = c
    /\ modal # None /\ modal.live => page.phase = "opening"

\* The page is about the attempt on record, or there is none of its order.
PageRemembers ==
    page # None /\ ReadAttempt(page.order) # None => page.attempt = record

\* Before a checkout there is no attempt to remember.
UnpaidIsClear ==
    page # None /\ page.phase \in Unpaid =>
        /\ ReadAttempt(page.order) = None
        /\ modal = None
        /\ \A c \in Calls : ~AskingOf(call[c], orderKey)

Remembered ==
    RecordHolds /\ NothingIsNothing /\ OneHand /\ PageRemembers /\ UnpaidIsClear

Remembering == DeviceAgrees /\ CallsAreOurs /\ (Kept => Remembered)

Sound == Typed /\ OnlyPlaced /\ Remembering

\* What the record is, of an order.
LEMMA RecordOfOrder ==
    ASSUME NEW o
    PROVE  /\ ReadAttempt(o) \in {None, record}
           /\ ReadAttempt(o) # None <=> record # None /\ payment[record].order = o
BY DEF ReadAttempt

\* What a transition that is allowed does to a page.
LEMMA ReduceAccepts ==
    ASSUME NEW p \in Pages, NEW to \in PaymentPhase, NEW a \in Attempts \cup {None},
           NEW expected, p.phase \notin TERMINAL, CanTransition(p.phase, to),
           expected = None \/ p.attempt = None \/ p.attempt = expected
    PROVE  /\ Reduce(p, to, a, expected).phase = to
           /\ Reduce(p, to, a, expected).attempt = IF a = None THEN p.attempt ELSE a
           /\ Reduce(p, to, a, expected).data = p.data
BY DEF Reduce, Pages

\* A transition goes through, or nothing happens.
LEMMA ReduceRefuses ==
    ASSUME NEW p \in Pages, NEW to \in PaymentPhase, NEW a \in Attempts \cup {None},
           NEW expected
    PROVE  \/ Reduce(p, to, a, expected) = p
           \/ /\ Reduce(p, to, a, expected).phase = to
              /\ Reduce(p, to, a, expected).attempt = IF a = None THEN p.attempt ELSE a
              /\ expected = None \/ p.attempt = None \/ p.attempt = expected
BY DEF Reduce, Pages

\* A page mounts on payment-init, or on the recovery of the attempt on record.
LEMMA MountedPhase ==
    ASSUME TypeOK, NEW o \in Orders
    PROVE  /\ ReadAttempt(o) = None => Mounted(o).phase = "initializing"
           /\ ReadAttempt(o) # None =>
                Mounted(o).phase = "verifying" /\ Mounted(o).attempt = record
<1> DEFINE recovering == [FreshPage(o) EXCEPT !.phase = "unresolved", !.attempt = record]
           unresolved == [FreshPage(o) EXCEPT !.phase = "unresolved"]
<1>1. /\ FreshPage(o) \in Pages
      /\ FreshPage(o).phase = "idle" /\ FreshPage(o).attempt = None
      /\ record \in Attempts \cup {None}
    BY DEF FreshPage, Pages, PaymentPhase, TypeOK
<1>2. unresolved \in Pages /\ unresolved.phase = "unresolved"
    BY <1>1 DEF Pages, PaymentPhase
<1>3. recovering = [unresolved EXCEPT !.attempt = record]
    BY <1>1 DEF Pages
<1> HIDE DEF unresolved, recovering
<1>4. recovering \in Pages /\ recovering.phase = "unresolved" /\ recovering.attempt = record
    BY <1>1, <1>2, <1>3 DEF Pages
<1>5. /\ {"initializing", "verifying"} \subseteq PaymentPhase
      /\ CanTransition("idle", "initializing") /\ CanTransition("unresolved", "verifying")
      /\ "idle" \notin TERMINAL /\ "unresolved" \notin TERMINAL
    BY DEF PaymentPhase, CanTransition, TRANSITIONS, TERMINAL
<1>6. Reduce(FreshPage(o), "initializing", None, None).phase = "initializing"
    BY <1>1, <1>5, ReduceAccepts
<1>7. record # None =>
        /\ Reduce(recovering, "verifying", record, record).phase = "verifying"
        /\ Reduce(recovering, "verifying", record, record).attempt = record
    BY <1>1, <1>4, <1>5, ReduceAccepts
<1> QED BY <1>6, <1>7, RecordOfOrder DEF Mounted, recovering

\* Without a page there is nothing to be about.
LEMMA PageHasKey ==
    ASSUME TypeOK, DeviceAgrees, page # None
    PROVE  orderKey # None /\ page.order = orderKey /\ page.order \in Orders /\ page \in Pages
BY NoneIsNoName DEF TypeOK, DeviceAgrees, Pages

\* Mounting: the page is about the order and its attempt on record, and its
\* request is the only one that acts on it.
LEMMA MountRemembers ==
    ASSUME Sound, Typed', NEW o \in Orders, NEW cs \in CallTables, MountWith(cs, o),
           \A c \in Calls : cs[c] # None => cs[c] = call[c] /\ ~cs[c].live,
           UNCHANGED <<payment, record, erased>>, orderKey' = o, session' = o,
           \A p \in Orders : status[p] # "unplaced" => status'[p] # "unplaced",
           status'[o] # "unplaced",
           modal' \in {None, modal}, modal' # None => ~modal'.live,
           \/ orderKey = o
           \/ /\ modal' = None
              /\ status[o] = "unplaced"
    PROVE  Remembering'
<1> DEFINE k == Request(FirstRequest(o), o, ReadAttempt(o))
<1>1. PICK d \in Calls : cs[d] = None /\ page' = Mounted(o) /\ call' = [cs EXCEPT ![d] = k]
    BY DEF MountWith
<1>2. /\ k # None /\ k.live /\ k.order = o /\ k.answer = None
      /\ k.kind = IF ReadAttempt(o) = None THEN "init" ELSE "check"
    <2>1. k \in Requests
        BY DEF Sound, Typed, TypeOK, Request, FirstRequest, ReadAttempt, Requests
    <2> QED BY <2>1, NoneIsNoRecord DEF Request, FirstRequest
<1>3. ~Asking(k)
    BY <1>2 DEF Asking
<1> HIDE DEF k
<1>4. \A c \in Calls : call'[c] = IF c = d THEN k ELSE cs[c]
    BY <1>1 DEF CallTables
<1>5. /\ TypeOK /\ Wired /\ OnlyPlaced /\ DeviceAgrees /\ CallsAreOurs
      /\ (Kept => Remembered) /\ o # None
    BY NoneIsNoName DEF Sound, Typed, Remembering
<1>6. Mounted(o) # None /\ Mounted(o).order = o
    BY <1>5, MountedIsPage
<1>7. \A c \in Calls : Asking(call'[c]) => Asking(call[c]) /\ call'[c] = call[c] /\ c # d
    BY <1>3, <1>4 DEF Asking
<1>8. DeviceAgrees'
    BY <1>1, <1>5, <1>6 DEF DeviceAgrees
<1>9. CallsAreOurs'
    BY <1>2, <1>3, <1>4, <1>5 DEF CallsAreOurs, TypeOK, CallTables, Requests, Asking
<1>10. CASE orderKey # o
    <2>1. /\ \A c \in Calls : ~AskingOf(call'[c], o)
          /\ \A a \in Attempts : payment[a] # None => payment[a].order # o
          /\ modal' = None
        BY <1>5, <1>7, <1>10 DEF OnlyPlaced, CallsAreOurs, AskingOf, Asking
    <2>2. RecordHolds' /\ NothingIsNothing'
        BY <2>1 DEF RecordHolds, NothingIsNothing, MayLand
    <2>3. OneHand'
        BY <1>1, <1>2, <1>4, <2>1, <1>5, MountedPhase, RecordOfOrder DEF OneHand
    <2>4. ReadAttempt(o)' = None /\ ReadAttempt(o) = None
        BY <1>5, <2>1 DEF ReadAttempt, TypeOK, Wired
    <2>5. PageRemembers' /\ UnpaidIsClear'
        BY <1>1, <1>6, <2>1, <2>4 DEF PageRemembers, UnpaidIsClear, ReadAttempt
    <2> QED BY <1>8, <1>9, <2>2, <2>3, <2>5 DEF Remembering, Remembered
<1>11. CASE orderKey = o
    <2> SUFFICES ASSUME Kept PROVE Remembered'
        BY <1>8, <1>9, <1>11 DEF Remembering, Kept
    <2>1. RecordHolds /\ NothingIsNothing
        BY <1>5 DEF Remembered
    <2>2. RecordHolds' /\ NothingIsNothing'
        BY <1>7, <1>11, <2>1 DEF RecordHolds, NothingIsNothing, MayLand, AskingOf
    <2>3. OneHand'
        BY <1>1, <1>2, <1>4, <1>5, MountedPhase, RecordOfOrder DEF OneHand
    <2>4. ReadAttempt(o)' = ReadAttempt(o)
        BY DEF ReadAttempt
    <2>5. PageRemembers'
        BY <1>1, <1>5, <1>6, <2>4, MountedPhase DEF PageRemembers, ReadAttempt
    <2>6. UnpaidIsClear'
        <3> SUFFICES ASSUME page'.phase \in Unpaid
                     PROVE  /\ ReadAttempt(o)' = None /\ modal' = None
                            /\ \A c \in Calls : ~AskingOf(call'[c], o)
            BY <1>1, <1>6 DEF UnpaidIsClear, ReadAttempt
        <3>1. ReadAttempt(o) = None
            BY <1>1, <1>5, MountedPhase DEF Unpaid, MAY_START_NEW_PAYMENT
        <3>2. record = None \/ payment[record].order # o
            BY <3>1, RecordOfOrder
        <3>3. modal' = None
            BY <1>5, <1>11, <2>1, <3>2, NoneIsNoName DEF RecordHolds, DeviceAgrees, TypeOK, Modals
        <3>4. ASSUME NEW c \in Calls, AskingOf(call[c], o) PROVE FALSE
            BY <1>5, <1>11, <2>1, <3>2, <3>4 DEF RecordHolds, CallsAreOurs, AskingOf, Asking
        <3> QED BY <1>7, <2>4, <3>1, <3>3, <3>4 DEF AskingOf
    <2> QED BY <2>2, <2>3, <2>5, <2>6 DEF Remembered
<1> QED BY <1>10, <1>11

\* A new order has no request, checkout or payment yet; an old one has its own.
LEMMA CheckoutRemembers ==
    ASSUME Sound, NEW o \in Orders, Checkout(o)
    PROVE  Remembering'
<1>1. /\ TypeOK /\ Wired /\ OnlyPlaced /\ DeviceAgrees /\ call \in CallTables /\ o # None
    BY NoneIsNoName DEF Sound, Typed, Remembering, TypeOK, CallTables
<1>2. /\ page = None /\ modal = None /\ modal' = None /\ MountWith(call, o)
      /\ UNCHANGED <<payment, record, erased>> /\ orderKey' = o /\ session' = o
    BY DEF Checkout
<1>3. \A c \in Calls : call[c] # None => ~call[c].live
    BY <1>1, <1>2 DEF Wired
<1>4. CASE session = o /\ UNCHANGED status
    <2>1. orderKey = o /\ status[o] # "unplaced"
        BY <1>1, <1>4 DEF DeviceAgrees, OnlyPlaced
    <2> QED BY <1>1, <1>2, <1>3, <1>4, <2>1, CheckoutTyped, MountRemembers DEF Sound
<1>5. CASE status[o] = "unplaced" /\ status' = [status EXCEPT ![o] = "pending"]
    <2>1. /\ \A p \in Orders : status[p] # "unplaced" => status'[p] # "unplaced"
          /\ status'[o] # "unplaced"
        BY <1>1, <1>5 DEF TypeOK
    <2> QED BY <1>1, <1>2, <1>3, <1>5, <2>1, CheckoutTyped, MountRemembers DEF Sound
<1> QED BY <1>4, <1>5 DEF Checkout

\* A reload forgets everything but the device.
LEMMA ReloadRemembers == Sound /\ Reload => Remembering'
<1> SUFFICES ASSUME Sound, Reload PROVE Remembering'
    OBVIOUS
<1> DEFINE silence == [c \in Calls |-> None]
<1>1. /\ TypeOK /\ Wired /\ OnlyPlaced /\ DeviceAgrees /\ Typed'
      /\ orderKey \in Orders \cup {None}
    BY ReloadTyped DEF Sound, Typed, Remembering, TypeOK
<1>2. /\ modal' = None
      /\ UNCHANGED <<habits, status, payment, record, orderKey, session, confirmed, erased>>
    BY DEF Reload
<1>3. CASE orderKey = None
    <2>1. page' = None /\ \A c \in Calls : call'[c] = None
        BY <1>3 DEF Reload
    <2> QED BY <1>1, <1>2, <1>3, <2>1
        DEF Remembering, DeviceAgrees, CallsAreOurs, Kept
<1>4. CASE orderKey # None
    <2>1. silence \in CallTables /\ \A c \in Calls : silence[c] = None
        BY DEF CallTables
    <2>2. MountWith(silence, orderKey) /\ session' = orderKey /\ status[orderKey] # "unplaced"
        BY <1>1, <1>4 DEF Reload, DeviceAgrees, OnlyPlaced
    <2> HIDE DEF silence
    <2> QED BY <1>1, <1>2, <1>4, <2>1, <2>2, MountRemembers
<1> QED BY <1>3, <1>4

\* Back from a redirect, or forward in the history, the page finds the record.
LEMMA ReturnsRemember == Sound /\ (Return \/ BrowserForward) => Remembering'
<1> SUFFICES ASSUME Sound, Return \/ BrowserForward PROVE Remembering'
    OBVIOUS
<1>1. /\ TypeOK /\ Wired /\ OnlyPlaced /\ DeviceAgrees /\ Remembering /\ Typed'
      /\ orderKey \in Orders \cup {None} /\ call \in CallTables
    BY ReturnTyped, BrowserForwardTyped DEF Sound, Typed, Remembering, TypeOK, CallTables
<1>2. /\ UNCHANGED <<habits, status, payment, record, orderKey, session, confirmed, erased>>
      /\ page = None /\ modal' \in {None, modal}
      /\ modal' # None => ~modal'.live
    BY <1>1 DEF Return, BrowserForward, Wired
<1>3. \A c \in Calls : call[c] # None => ~call[c].live
    BY <1>1, <1>2 DEF Wired
<1>4. CASE orderKey = None
    <2>1. page' = None /\ call' = call /\ modal' = None
        BY <1>4 DEF Return, BrowserForward
    <2> QED BY <1>1, <1>2, <1>4, <2>1
        DEF Remembering, DeviceAgrees, CallsAreOurs, Kept, Asking
<1>5. CASE orderKey # None
    <2>1. MountWith(call, orderKey) /\ session' = orderKey /\ status[orderKey] # "unplaced"
        BY <1>1, <1>5 DEF Return, BrowserForward, DeviceAgrees, OnlyPlaced
    <2> QED BY <1>1, <1>2, <1>3, <1>5, <2>1, MountRemembers
<1> QED BY <1>4, <1>5

\* What a page leaves behind asks what it asked before.
LEMMA LeftBehind ==
    ASSUME Sound, NEW cs \in CallTables,
           \A c \in Calls : cs[c] = None \/ cs[c] = call[c],
           call' = Orphaned(cs), modal' = OrphanedModal, page' = None,
           UNCHANGED <<status, payment, erased>>,
           \/ UNCHANGED <<record, orderKey, session>>
           \/ record' = None /\ orderKey' = None /\ session' = None
    PROVE  Remembering'
<1>1. TypeOK /\ DeviceAgrees /\ CallsAreOurs /\ (Kept => Remembered)
    BY DEF Sound, Typed, Remembering
<1>2. \A c \in Calls : call'[c] # None =>
        /\ cs[c] # None /\ cs[c] = call[c] /\ cs[c].kind # "init"
        /\ ~call'[c].live
        /\ call'[c].kind = call[c].kind
        /\ call'[c].answer = call[c].answer
        /\ call'[c].order = call[c].order
        /\ call'[c].attempt = call[c].attempt
    <2> SUFFICES ASSUME NEW c \in Calls, call'[c] # None
                 PROVE  /\ cs[c] # None /\ cs[c] = call[c] /\ cs[c].kind # "init"
                        /\ ~call'[c].live
                        /\ call'[c].kind = call[c].kind
                        /\ call'[c].answer = call[c].answer
                        /\ call'[c].order = call[c].order
                        /\ call'[c].attempt = call[c].attempt
        OBVIOUS
    <2>1. call'[c] = IF cs[c] = None THEN None
                     ELSE IF cs[c].kind = "init" THEN None
                     ELSE [cs[c] EXCEPT !.live = FALSE]
        BY DEF Orphaned
    <2>2. cs[c] \in Requests /\ cs[c] = call[c] /\ cs[c].kind # "init"
        BY <2>1 DEF CallTables
    <2> QED BY <2>1, <2>2 DEF Requests
<1>3. \A c \in Calls : Asking(call'[c]) =>
        /\ Asking(call[c]) /\ call'[c].attempt = call[c].attempt
        /\ call'[c].answer = call[c].answer
        /\ call'[c].order = call[c].order
    BY <1>2 DEF Asking
<1>4. modal' # None => /\ modal # None /\ ~modal'.live
                       /\ modal'.attempt = modal.attempt /\ modal'.away = modal.away
    BY <1>1, OrphanedModalIsWired
<1>5. DeviceAgrees'
    BY <1>1, <1>4 DEF DeviceAgrees
<1>6. CallsAreOurs'
    BY <1>1, <1>2, <1>3 DEF CallsAreOurs
<1> SUFFICES ASSUME Kept' PROVE Remembered'
    BY <1>5, <1>6 DEF Remembering
<1>7. UNCHANGED <<record, orderKey, session>> /\ Kept
    BY DEF Kept
<1>8. RecordHolds' /\ NothingIsNothing'
    <2>1. \A a \in Attempts : MayLand(a)' <=> MayLand(a)
        BY DEF MayLand
    <2> QED BY <1>1, <1>3, <1>4, <1>7, <2>1 DEF Remembered, RecordHolds, NothingIsNothing, AskingOf
<1>9. OneHand' /\ PageRemembers' /\ UnpaidIsClear'
    BY <1>2, <1>4 DEF OneHand, PageRemembers, UnpaidIsClear
<1> QED BY <1>8, <1>9 DEF Remembered

\* Whatever takes the page away.
LEMMA LeavingRemembers ==
    Sound /\ (BrowserBack \/ HandleGoBack \/ HandleLeaveUnresolved) => Remembering'
<1> SUFFICES ASSUME Sound, BrowserBack \/ HandleGoBack \/ HandleLeaveUnresolved
             PROVE  Remembering'
    OBVIOUS
<1>1. /\ call' = Orphaned(call) /\ modal' = OrphanedModal /\ page' = None
      /\ UNCHANGED <<status, payment, record, orderKey, session, erased>>
    BY DEF BrowserBack, HandleGoBack, HandleLeaveUnresolved, LeavePage
<1>2. call \in CallTables
    BY DEF Sound, Typed, TypeOK, CallTables
<1> QED BY <1>1, <1>2, LeftBehind

\* A confirmation ends the order for the device.
LEMMA ConfirmingRemembers ==
    ASSUME Sound, NEW c \in Calls, call[c] # None, ConfirmPaid(c)
    PROVE  Remembering'
<1>1. /\ record' = None /\ orderKey' = None /\ session' = None /\ page' = None
      /\ call' = Orphaned(Done(c)) /\ modal' = OrphanedModal
      /\ UNCHANGED <<status, payment, erased>>
    BY DEF ConfirmPaid
<1>2. call \in CallTables
    BY DEF Sound, Typed, TypeOK, CallTables
<1>3. /\ Done(c) \in CallTables
      /\ \A d \in Calls : Done(c)[d] = IF d = c THEN None ELSE call[d]
    BY <1>2 DEF Done, CallTables
<1> QED BY <1>1, <1>2, <1>3, LeftBehind

\* A checkout that takes the page's place is the one on record.
LEMMA RedirectRemembers == Sound /\ CheckoutRedirects => Remembering'
<1> SUFFICES ASSUME Sound, CheckoutRedirects PROVE Remembering'
    OBVIOUS
<1>1. /\ TypeOK /\ Wired /\ DeviceAgrees /\ CallsAreOurs /\ (Kept => Remembered)
      /\ modal \in Modals /\ modal # None /\ modal.attempt \in Attempts
    BY DEF Sound, Typed, Remembering, TypeOK, CheckoutRedirects, Modals
<1>2. /\ record' = modal.attempt /\ page' = None
      /\ \A c \in Calls : call'[c] = None
      /\ UNCHANGED <<habits, status, payment, orderKey, session, confirmed, erased>>
    BY DEF CheckoutRedirects
<1>3. modal'.attempt = modal.attempt /\ ~modal'.live /\ modal'.away
    BY <1>1 DEF CheckoutRedirects, Modals
<1>4. \A c \in Calls : ~AskingOf(call'[c], orderKey)
    BY <1>2 DEF Asking, AskingOf
<1>5. DeviceAgrees' /\ CallsAreOurs'
    BY <1>1, <1>2, <1>3 DEF DeviceAgrees, CallsAreOurs
<1> SUFFICES ASSUME Kept PROVE Remembered'
    BY <1>2, <1>5 DEF Remembering, Kept
<1>6. NothingIsNothing' /\ OneHand' /\ PageRemembers' /\ UnpaidIsClear'
    BY <1>2, <1>3, <1>4 DEF NothingIsNothing, OneHand, PageRemembers, UnpaidIsClear
<1>7. RecordHolds'
    BY <1>1, <1>2, <1>3, <1>4 DEF Remembered, RecordHolds, MayLand
<1> QED BY <1>6, <1>7 DEF Remembered

\* While a checkout is open, nothing else acts on a page, and nothing was asked.
LEMMA OpenCheckout ==
    ASSUME Sound, modal # None, Kept
    PROVE  /\ record = modal.attempt /\ record # None /\ payment[record].order = orderKey
           /\ \A c \in Calls : ~AskingOf(call[c], orderKey)
           /\ page # None => page.phase \notin Unpaid /\ page.attempt = record
           /\ modal.live => \A c \in Calls : call[c] # None => ~call[c].live
<1>1. /\ TypeOK /\ Wired /\ DeviceAgrees /\ RecordHolds /\ OneHand /\ PageRemembers
      /\ UnpaidIsClear
    BY DEF Sound, Typed, Remembering, Remembered
<1>2. record = modal.attempt /\ record # None /\ payment[record].order = orderKey
    BY <1>1, NoneIsNoName DEF RecordHolds, DeviceAgrees, TypeOK, Modals, Kept
<1>3. \A c \in Calls : ~AskingOf(call[c], orderKey)
    BY <1>1 DEF RecordHolds
<1>4. page # None => ReadAttempt(page.order) # None
    BY <1>1, <1>2, RecordOfOrder DEF DeviceAgrees
<1> QED BY <1>1, <1>2, <1>3, <1>4 DEF PageRemembers, UnpaidIsClear, OneHand

\* Paying starts from a clear page, so the new attempt is the only one.
LEMMA PayingRemembers ==
    ASSUME Sound, NEW a \in Attempts, HandlePayNow(a)
    PROVE  Remembering'
<1>1. /\ TypeOK /\ Wired /\ DeviceAgrees /\ CallsAreOurs /\ (Kept => Remembered)
      /\ page # None /\ page.phase \in MAY_START_NEW_PAYMENT
    BY DEF Sound, Typed, Remembering, HandlePayNow, PayOffered
<1>2. /\ record' = a /\ payment[a] = None
      /\ modal' = [attempt |-> a, live |-> TRUE, away |-> FALSE]
      /\ page' = Reduce(page, "opening", a, None)
      /\ payment' = [payment EXCEPT ![a] = [order |-> page.order, state |-> "none"]]
      /\ UNCHANGED <<habits, status, call, orderKey, session, confirmed, erased>>
    BY DEF HandlePayNow, RecordOnOpening
<1>3. /\ orderKey # None /\ page.order = orderKey /\ page.order \in Orders /\ page \in Pages
    BY <1>1, PageHasKey
<1>4. /\ page' # None /\ page'.order = orderKey
      /\ page'.phase = "opening" /\ page'.attempt = a
    <2>1. /\ "opening" \in PaymentPhase /\ page.phase \notin TERMINAL
          /\ CanTransition(page.phase, "opening")
        BY <1>1 DEF PaymentPhase, TERMINAL, CanTransition, TRANSITIONS, MAY_START_NEW_PAYMENT
    <2> QED BY <1>2, <1>3, <2>1, ReduceIsPage, ReduceAccepts, NoneIsNoName
<1>5. /\ payment'[a] # None /\ payment'[a].order = orderKey /\ payment'[a].state = "none"
      /\ \A b \in Attempts \ {a} : payment'[b] = payment[b]
    <2>1. [order |-> page.order, state |-> "none"] \in Payments
        BY <1>3 DEF Payments
    <2> QED BY <1>1, <1>2, <1>3, <2>1, NoneIsNoRecord DEF TypeOK
<1>6. DeviceAgrees'
    BY <1>1, <1>2, <1>4, <1>5 DEF DeviceAgrees
<1>7. CallsAreOurs'
    <2>1. \A c \in Calls : Asking(call[c]) => call[c].attempt \in Attempts \ {a}
        BY <1>1, <1>2 DEF CallsAreOurs, TypeOK, Requests, Asking
    <2> QED BY <1>1, <1>2, <1>5, <2>1 DEF CallsAreOurs, Asking
<1> SUFFICES ASSUME Kept PROVE Remembered'
    BY <1>2, <1>6, <1>7 DEF Remembering, Kept
<1>8. RecordHolds /\ OneHand /\ UnpaidIsClear
    BY <1>1 DEF Remembered
<1>9. /\ ReadAttempt(page.order) = None
      /\ \A c \in Calls : ~AskingOf(call[c], orderKey)
    BY <1>1, <1>8 DEF UnpaidIsClear, Unpaid
<1>10. \A c \in Calls : call[c] # None => ~call[c].live
    BY <1>1, <1>8 DEF OneHand, MAY_START_NEW_PAYMENT
<1>11. \A b \in Attempts : ~(MayLand(b) /\ payment[b].order = orderKey)
    BY <1>3, <1>8, <1>9, RecordOfOrder, NoneIsNoName DEF RecordHolds
<1>12. NothingIsNothing' /\ OneHand' /\ PageRemembers'
    BY <1>2, <1>4, <1>9, <1>10 DEF NothingIsNothing, OneHand, PageRemembers
<1>13. RecordHolds'
    <2>1. \A b \in Attempts : MayLand(b)' => b # a /\ MayLand(b)
        BY <1>5 DEF MayLand
    <2> QED BY <1>2, <1>3, <1>5, <1>9, <1>11, <2>1 DEF RecordHolds
<1>14. UnpaidIsClear'
    BY <1>4 DEF UnpaidIsClear, Unpaid, MAY_START_NEW_PAYMENT
<1> QED BY <1>12, <1>13, <1>14 DEF Remembered

\* A checkout that never opened took no money.
LEMMA ThrowingRemembers == Sound /\ CheckoutThrows => Remembering'
<1> SUFFICES ASSUME Sound, CheckoutThrows PROVE Remembering'
    OBVIOUS
<1>1. /\ TypeOK /\ Wired /\ DeviceAgrees /\ CallsAreOurs /\ (Kept => Remembered)
      /\ modal # None /\ modal \in Modals
    BY DEF Sound, Typed, TypeOK, Remembering, CheckoutThrows
<1>2. /\ record' = None /\ modal' = None /\ payment[modal.attempt].state = "none"
      /\ page' = IF modal.live THEN Reduce(page, "error", modal.attempt, None) ELSE page
      /\ UNCHANGED <<habits, status, payment, call, orderKey, session, confirmed, erased>>
    BY DEF CheckoutThrows
<1>3. modal.live => page # None /\ page \in Pages
    BY <1>1 DEF Wired, TypeOK
<1>4. page' # None => page # None /\ page'.order = page.order
    BY <1>1, <1>2, <1>3, ReduceIsPage DEF PaymentPhase, Modals
<1>5. DeviceAgrees' /\ CallsAreOurs'
    BY <1>1, <1>2, <1>4 DEF DeviceAgrees, CallsAreOurs, Asking
<1> SUFFICES ASSUME Kept PROVE Remembered'
    BY <1>2, <1>5 DEF Remembering, Kept
<1>6. RecordHolds /\ OneHand
    BY <1>1 DEF Remembered
<1>7. \A c \in Calls : ~AskingOf(call[c], orderKey)
    BY <1>1, OpenCheckout
<1>8. RecordHolds' /\ NothingIsNothing'
    <2>1. \A a \in Attempts : MayLand(a) => payment[a].order # orderKey
        BY <1>1, <1>2, <1>6, OpenCheckout DEF RecordHolds, MayLand
    <2> QED BY <1>2, <1>7, <2>1 DEF RecordHolds, NothingIsNothing, MayLand
<1>9. OneHand' /\ PageRemembers' /\ UnpaidIsClear'
    BY <1>1, <1>2, <1>6, <1>7 DEF OneHand, PageRemembers, UnpaidIsClear, ReadAttempt
<1> QED BY <1>8, <1>9 DEF Remembered

\* A checkout that returns asks about the attempt on record.
LEMMA ReturningRemembers ==
    ASSUME Sound, NEW kind \in {"verify", "settle"}, CheckoutReturns(kind)
    PROVE  Remembering'
<1>1. /\ TypeOK /\ Wired /\ OnlyPlaced /\ DeviceAgrees /\ CallsAreOurs
      /\ (Kept => Remembered)
      /\ call \in CallTables /\ modal \in Modals /\ modal # None
      /\ modal.attempt \in Attempts /\ modal.live \in BOOLEAN /\ ~modal.away
      /\ modal.live => page # None
      /\ payment[modal.attempt] # None /\ payment[modal.attempt].order \in Orders
    BY DEF Sound, Typed, Remembering, TypeOK, CallTables, CheckoutReturns, Modals, Wired,
           Payments
<1> DEFINE asked == Request(kind, payment[modal.attempt].order, modal.attempt)
           k == [asked EXCEPT !.live = modal.live]
<1>2. asked \in Requests /\ asked.kind = kind /\ asked.answer = None
      /\ asked.attempt = modal.attempt /\ asked.order = payment[modal.attempt].order
    BY <1>1 DEF Request, Requests
<1>3. /\ k \in Requests /\ k # None /\ k.live = modal.live /\ k.kind = kind
      /\ k.answer = None /\ k.attempt = modal.attempt /\ k.order = payment[modal.attempt].order
    BY <1>1, <1>2, NoneIsNoRecord DEF Requests
<1>4. PICK d \in Calls : call' = [call EXCEPT ![d] = k] /\ page' = Apply(k, "verifying")
    BY DEF CheckoutReturns
<1> HIDE DEF k
<1>5. \A c \in Calls : call'[c] = IF c = d THEN k ELSE call[c]
    BY <1>1, <1>4 DEF CallTables
<1>6. /\ record' = modal.attempt /\ modal' = None
      /\ UNCHANGED <<habits, status, payment, orderKey, session, confirmed, erased>>
    BY DEF CheckoutReturns
<1>7. /\ page = None => page' = None
      /\ page # None => page' # None /\ page'.order = page.order
    BY <1>1, <1>3, <1>4, AppliedIsPage DEF PaymentPhase
<1>8. page # None => page.order = orderKey /\ orderKey # None /\ page \in Pages
    BY <1>1, PageHasKey
<1>9. DeviceAgrees'
    BY <1>1, <1>6, <1>7 DEF DeviceAgrees
<1>10. CallsAreOurs'
    <2>1. /\ status[k.order] # "unplaced"
          /\ k.live => k.order = orderKey
          /\ k.attempt # None
        BY <1>1, <1>3, <1>8, NoneIsNoName DEF OnlyPlaced, DeviceAgrees
    <2> QED BY <1>1, <1>3, <1>5, <1>6, <2>1 DEF CallsAreOurs, Asking
<1> SUFFICES ASSUME Kept PROVE Remembered'
    BY <1>6, <1>9, <1>10 DEF Remembering, Kept
<1>11. Remembered /\ RecordHolds /\ OneHand /\ PageRemembers
    BY <1>1 DEF Remembered
<1>12. /\ record' = record /\ record = k.attempt
       /\ \A c \in Calls : ~AskingOf(call[c], orderKey)
       /\ page # None => page.phase \notin Unpaid /\ page.attempt = record
    BY <1>1, <1>3, <1>6, OpenCheckout
<1>13. page # None =>
          /\ page'.attempt = record
          /\ IF modal.live THEN page'.phase = "verifying" ELSE page' = page
    <2>1. CASE ~modal.live
        BY <1>3, <1>4, <1>12, <2>1 DEF Apply
    <2>2. CASE modal.live
        <3>1. page # None /\ page.phase = "opening" /\ page' = Reduce(page, "verifying", modal.attempt, modal.attempt)
            BY <1>1, <1>3, <1>4, <1>11, <2>2 DEF Apply, OneHand
        <3>2. /\ "verifying" \in PaymentPhase /\ "opening" \notin TERMINAL
              /\ CanTransition("opening", "verifying") /\ record = modal.attempt
            BY <1>3, <1>12 DEF PaymentPhase, TERMINAL, CanTransition, TRANSITIONS
        <3> QED BY <1>1, <1>8, <1>12, <2>2, <3>1, <3>2, ReduceAccepts, NoneIsNoName
    <2> QED BY <2>1, <2>2
<1>14. RecordHolds' /\ NothingIsNothing'
    <2>1. \A c \in Calls : AskingOf(call'[c], orderKey) => c = d
        BY <1>5, <1>12
    <2>2. call'[d].answer # "nothing" /\ call'[d].attempt = record
        BY <1>3, <1>5, <1>12, NoneIsNoAnswer DEF Answers
    <2>3. \A a \in Attempts : MayLand(a)' <=> MayLand(a)
        BY <1>6 DEF MayLand
    <2>4. RecordHolds'
        BY <1>6, <1>11, <1>12, <2>1, <2>2, <2>3 DEF RecordHolds
    <2>5. NothingIsNothing'
        BY <1>6, <2>1, <2>2 DEF NothingIsNothing
    <2> QED BY <2>4, <2>5
<1>15. OneHand'
    <2>1. modal.live => \A c \in Calls : call[c] # None => ~call[c].live
        BY <1>1, OpenCheckout
    <2> QED BY <1>1, <1>3, <1>5, <1>6, <1>7, <1>11, <1>13, <2>1 DEF OneHand, Wired
<1>16. PageRemembers'
    BY <1>7, <1>12, <1>13 DEF PageRemembers
<1>17. UnpaidIsClear'
    <2>1. page' # None => page'.phase \notin Unpaid
        BY <1>7, <1>12, <1>13 DEF Unpaid, MAY_START_NEW_PAYMENT
    <2> QED BY <2>1 DEF UnpaidIsClear
<1> QED BY <1>14, <1>15, <1>16, <1>17 DEF Remembered

\* The buttons send the only request that acts on their page.
LEMMA ButtonsRemember == Sound /\ (ResolveAttempt \/ HandleTryAgain) => Remembering'
<1> SUFFICES ASSUME Sound, ResolveAttempt \/ HandleTryAgain PROVE Remembering'
    OBVIOUS
<1>1. /\ TypeOK /\ Wired /\ OnlyPlaced /\ DeviceAgrees /\ CallsAreOurs
      /\ (Kept => Remembered)
      /\ call \in CallTables /\ page # None /\ record \in Attempts \cup {None}
    BY DEF Sound, Typed, Remembering, TypeOK, CallTables, ResolveAttempt, HandleTryAgain
<1>2. /\ orderKey # None /\ page.order = orderKey /\ page.order \in Orders /\ page \in Pages
    BY <1>1, PageHasKey
<1>3. UNCHANGED <<habits, status, payment, modal, record, orderKey, session, confirmed, erased>>
    BY DEF ResolveAttempt, HandleTryAgain
<1>4. {"idle", "initializing", "verifying"} \subseteq PaymentPhase
    BY DEF PaymentPhase
<1>5. PICK d \in Calls, kind \in {"check", "init"}, a \in Attempts \cup {None} :
          /\ call' = [call EXCEPT ![d] = Request(kind, page.order, a)]
          /\ kind = IF ResolveAttempt THEN "check" ELSE "init"
    BY <1>1 DEF ResolveAttempt, HandleTryAgain, Sent
<1> DEFINE idle == Reduce(page, "idle", None, None)
<1>6. /\ ResolveAttempt => /\ page.phase = "unresolved" /\ ReadAttempt(page.order) # None
                           /\ page' = Reduce(page, "verifying", record, record)
      /\ ~ResolveAttempt => page.phase = "error" /\ page' = Reduce(idle, "initializing", None, None)
    BY DEF ResolveAttempt, HandleTryAgain
<1>7. idle \in Pages /\ idle.order = page.order
    BY <1>2, <1>4, ReduceIsPage
<1> HIDE DEF idle
<1>8. page' # None /\ page'.order = page.order
    BY <1>1, <1>2, <1>4, <1>6, <1>7, ReduceIsPage
<1> DEFINE k == Request(kind, page.order, a)
<1>9. /\ k \in Requests /\ k # None /\ k.live /\ k.kind = kind /\ k.order = page.order
    <2>1. k \in Requests /\ k.live /\ k.kind = kind
        BY <1>2, RequestIsTyped
    <2>2. k.order = page.order
        BY DEF Request
    <2> HIDE DEF k
    <2> QED BY <2>1, <2>2, NoneIsNoRecord
<1>10. ~Asking(k)
    BY <1>9 DEF Asking
<1> HIDE DEF k
<1>11. \A c \in Calls : call'[c] = IF c = d THEN k ELSE call[c]
    BY <1>1, <1>5 DEF CallTables, k
<1>12. DeviceAgrees'
    BY <1>1, <1>3, <1>8 DEF DeviceAgrees
<1>13. CallsAreOurs'
    BY <1>1, <1>2, <1>3, <1>9, <1>10, <1>11 DEF CallsAreOurs, OnlyPlaced, Asking
<1> SUFFICES ASSUME Kept PROVE Remembered'
    BY <1>3, <1>12, <1>13 DEF Remembering, Kept
<1>14. RecordHolds /\ NothingIsNothing /\ OneHand /\ PageRemembers /\ UnpaidIsClear
    BY <1>1 DEF Remembered
<1>15. /\ page'.phase = IF kind = "init" THEN "initializing" ELSE "verifying"
       /\ page'.attempt = page.attempt
    <2>1. CASE ResolveAttempt
        <3>1. page.attempt = record /\ record # None
            BY <1>1, <1>6, <1>14, <2>1, RecordOfOrder DEF PageRemembers
        <3>2. "unresolved" \notin TERMINAL /\ CanTransition("unresolved", "verifying")
            BY DEF TERMINAL, CanTransition, TRANSITIONS
        <3> QED BY <1>1, <1>2, <1>4, <1>5, <1>6, <2>1, <3>1, <3>2, ReduceAccepts
    <2>2. CASE ~ResolveAttempt
        <3>1. /\ "error" \notin TERMINAL /\ CanTransition("error", "idle")
              /\ "idle" \notin TERMINAL /\ CanTransition("idle", "initializing")
            BY DEF TERMINAL, CanTransition, TRANSITIONS
        <3>2. idle.phase = "idle" /\ idle.attempt = page.attempt
            BY <1>2, <1>4, <1>6, <2>2, <3>1, ReduceAccepts DEF idle
        <3> QED BY <1>4, <1>5, <1>6, <1>7, <2>2, <3>1, <3>2, ReduceAccepts
    <2> QED BY <2>1, <2>2
<1>16. page.phase \in {"unresolved", "error"}
    BY <1>6
<1>17. \A c \in Calls : AskingOf(call'[c], orderKey) =>
          AskingOf(call[c], orderKey) /\ call'[c] = call[c]
    BY <1>10, <1>11 DEF AskingOf
<1>18. RecordHolds' /\ NothingIsNothing'
    <2>1. \A b \in Attempts : MayLand(b)' <=> MayLand(b)
        BY <1>3 DEF MayLand
    <2> QED BY <1>3, <1>14, <1>17, <2>1 DEF RecordHolds, NothingIsNothing
<1>19. OneHand'
    <2>1. \A c \in Calls : call[c] # None => ~call[c].live
        BY <1>14, <1>16 DEF OneHand
    <2>2. modal # None => ~modal.live
        BY <1>14, <1>16 DEF OneHand
    <2> QED BY <1>3, <1>9, <1>11, <1>15, <2>1, <2>2 DEF OneHand
<1>20. PageRemembers'
    BY <1>1, <1>3, <1>8, <1>14, <1>15 DEF PageRemembers, ReadAttempt
<1>21. UnpaidIsClear'
    <2> SUFFICES ASSUME page'.phase \in Unpaid
                 PROVE  /\ ReadAttempt(page.order) = None /\ modal = None
                        /\ \A c \in Calls : ~AskingOf(call'[c], orderKey)
        BY <1>3, <1>8 DEF UnpaidIsClear, ReadAttempt
    <2>1. page.phase = "error"
        BY <1>5, <1>6, <1>15 DEF Unpaid, MAY_START_NEW_PAYMENT
    <2> QED BY <1>1, <1>14, <1>17, <2>1 DEF UnpaidIsClear, Unpaid, MAY_START_NEW_PAYMENT
<1> QED BY <1>18, <1>19, <1>20, <1>21 DEF Remembered

\* A payment moves where it was begun, and only the checkout begins one.
LEMMA PaymentsRemember ==
    ASSUME Sound, NEW a \in Attempts, PaymentStarts(a) \/ PaymentEnds(a)
    PROVE  Remembering'
<1>1. /\ TypeOK /\ Wired /\ DeviceAgrees /\ CallsAreOurs /\ (Kept => Remembered)
    BY DEF Sound, Typed, Remembering
<1>2. UNCHANGED <<habits, status, page, call, modal, record, orderKey, session, confirmed, erased>>
    BY DEF PaymentStarts, PaymentEnds, device
<1>3. /\ payment[a] # None
      /\ \A b \in Attempts \ {a} : payment'[b] = payment[b]
    BY <1>1 DEF PaymentStarts, PaymentEnds, TypeOK, Wired
<1>4. \A b \in Attempts : payment[b] # None =>
        payment'[b] # None /\ payment'[b].order = payment[b].order
    BY PaymentsOnlyProceed DEF Sound, Typed, Next, Customer, World, PaymentsProceed
<1>5. record # None => record \in Attempts /\ payment[record] # None
    BY <1>1 DEF TypeOK, Wired
<1>6. \A o : ReadAttempt(o)' = ReadAttempt(o)
    BY <1>2, <1>4, <1>5 DEF ReadAttempt
<1>7. \A b \in Attempts : MayLand(b)' => MayLand(b) \/ (modal # None /\ b = modal.attempt)
    <2>1. CASE PaymentStarts(a)
        BY <1>3, <2>1 DEF PaymentStarts, MayLand
    <2>2. CASE PaymentEnds(a)
        BY <1>3, <2>2 DEF PaymentEnds, MayLand
    <2> QED BY <2>1, <2>2
<1>8. modal # None => modal.attempt \in Attempts /\ payment[modal.attempt] # None
    BY <1>1 DEF TypeOK, Wired, Modals
<1>9. DeviceAgrees'
    BY <1>1, <1>2, <1>4, <1>8 DEF DeviceAgrees
<1>10. CallsAreOurs'
    BY <1>1, <1>2, <1>4 DEF CallsAreOurs, TypeOK, Requests, Asking
<1> SUFFICES ASSUME Kept PROVE Remembered'
    BY <1>2, <1>9, <1>10 DEF Remembering, Kept
<1>11. RecordHolds /\ NothingIsNothing /\ OneHand /\ PageRemembers /\ UnpaidIsClear
    BY <1>1 DEF Remembered
<1>12. RecordHolds' /\ NothingIsNothing'
    <2>1. \A b \in Attempts : MayLand(b) => payment'[b].order = payment[b].order
        BY <1>4 DEF MayLand
    <2>2. modal # None => record = modal.attempt
        BY <1>11 DEF RecordHolds
    <2>3. \A b \in Attempts : MayLand(b)' /\ payment'[b].order = orderKey => record = b
        BY <1>7, <1>11, <2>1, <2>2 DEF RecordHolds
    <2>4. RecordHolds'
        BY <1>2, <1>11, <2>3 DEF RecordHolds
    <2>5. NothingIsNothing'
        BY <1>2, <1>7, <1>11, <2>1 DEF NothingIsNothing, RecordHolds
    <2> QED BY <2>4, <2>5
<1>13. OneHand' /\ PageRemembers' /\ UnpaidIsClear'
    BY <1>2, <1>6, <1>11 DEF OneHand, PageRemembers, UnpaidIsClear
<1> QED BY <1>12, <1>13 DEF Remembered

\* The backend's own news concerns no page.
LEMMA BackendRemembers ==
    ASSUME Sound, NEW o \in Orders, Backend(o)
    PROVE  Remembering'
<1>1. UNCHANGED <<habits, payment, page, call, modal, record, orderKey, session, confirmed, erased>>
    BY DEF Backend, device
<1>2. \A p \in Orders : status[p] # "unplaced" => status'[p] # "unplaced"
    BY OrdersOnlyProceed DEF Sound, Typed, Next, World, OrdersProceed
<1>3. CallsAreOurs'
    BY <1>1, <1>2 DEF Sound, Typed, TypeOK, Requests, Remembering, CallsAreOurs, Asking
<1>4. DeviceAgrees'
    BY <1>1 DEF Sound, Remembering, DeviceAgrees
<1>5. Remembered' <=> Remembered
    BY <1>1 DEF Remembered, RecordHolds, NothingIsNothing, OneHand, PageRemembers,
                UnpaidIsClear, ReadAttempt, MayLand
<1> QED BY <1>1, <1>3, <1>4, <1>5 DEF Sound, Remembering, Kept

\* An answer "nothing" is given when no payment of the order has taken money or may.
LEMMA AnsweringRemembers ==
    ASSUME Sound, NEW c \in Calls, Answer(c)
    PROVE  Remembering'
<1>1. /\ TypeOK /\ DeviceAgrees /\ CallsAreOurs /\ (Kept => Remembered)
      /\ call \in CallTables /\ call[c] \in Requests /\ call[c] # None
    BY DEF Sound, Typed, TypeOK, CallTables, Remembering, Answer
<1>2. PICK answer \in Truth(call[c]) \cup {"unknown"} :
          call' = [call EXCEPT ![c].answer = answer]
    BY DEF Answer
<1>3. UNCHANGED <<habits, payment, page, modal, record, orderKey, session, confirmed, erased>>
    BY DEF Answer, device
<1>4. \A d \in Calls :
        /\ call'[d] # None <=> call[d] # None
        /\ call[d] # None =>
             /\ call'[d].live = call[d].live /\ call'[d].kind = call[d].kind
             /\ call'[d].order = call[d].order /\ call'[d].attempt = call[d].attempt
             /\ call'[d].answer = IF d = c THEN answer ELSE call[d].answer
    <2> DEFINE k == [call[c] EXCEPT !.answer = answer]
    <2>1. answer \in Answers
        BY <1>2 DEF Truth, Answers
    <2>2. /\ k \in Requests /\ k.live = call[c].live /\ k.kind = call[c].kind
          /\ k.order = call[c].order /\ k.attempt = call[c].attempt /\ k.answer = answer
        BY <1>1, <2>1 DEF Requests
    <2>3. call' = [call EXCEPT ![c] = k]
        BY <1>2
    <2> HIDE DEF k
    <2> QED BY <1>1, <2>2, <2>3, NoneIsNoRecord DEF CallTables
<1>5. \A d \in Calls : Asking(call'[d]) <=> Asking(call[d])
    BY <1>4 DEF Asking
<1>6. \A d \in Calls : AskingOf(call'[d], orderKey) <=> AskingOf(call[d], orderKey)
    BY <1>4, <1>5 DEF Asking, AskingOf
<1>7. \A p \in Orders : status[p] # "unplaced" => status'[p] # "unplaced"
    BY OrdersOnlyProceed DEF Sound, Typed, Next, OrdersProceed
<1>8. DeviceAgrees'
    BY <1>1, <1>3 DEF DeviceAgrees
<1>9. CallsAreOurs'
    BY <1>1, <1>3, <1>4, <1>5, <1>7 DEF CallsAreOurs, CallTables, Requests
<1> SUFFICES ASSUME Kept PROVE Remembered'
    BY <1>3, <1>8, <1>9 DEF Remembering, Kept
<1>10. RecordHolds /\ NothingIsNothing /\ OneHand /\ PageRemembers /\ UnpaidIsClear
    BY <1>1 DEF Remembered
<1>11. \A b \in Attempts : MayLand(b)' <=> MayLand(b)
    BY <1>3 DEF MayLand
<1>12. RecordHolds'
    BY <1>3, <1>4, <1>6, <1>10, <1>11 DEF RecordHolds, AskingOf, Asking
<1>13. NothingIsNothing'
    <2> SUFFICES ASSUME NEW d \in Calls, AskingOf(call[d], orderKey),
                        call'[d].answer = "nothing"
                 PROVE  \A b \in Attempts : MayLand(b) => payment[b].order # orderKey
        BY <1>3, <1>6, <1>11 DEF NothingIsNothing
    <2>1. CASE d # c
        BY <1>4, <1>10, <2>1 DEF NothingIsNothing, AskingOf, Asking
    <2>2. CASE d = c
        <3>1. answer = "nothing" /\ call[c].kind # "init" /\ call[c].order = orderKey
            BY <1>4, <2>2 DEF AskingOf, Asking
        <3>2. ~Holds(orderKey, "success") /\ ~Holds(orderKey, "pending")
            BY <1>2, <3>1 DEF Truth
        <3> QED BY <3>2 DEF Holds, MayLand
    <2> QED BY <2>1, <2>2
<1>14. OneHand'
    BY <1>3, <1>4, <1>10 DEF OneHand
<1>15. PageRemembers' /\ UnpaidIsClear'
    BY <1>3, <1>6, <1>10 DEF PageRemembers, UnpaidIsClear, ReadAttempt
<1> QED BY <1>12, <1>13, <1>14, <1>15 DEF Remembered

\* A session arms a page that was clear while it waited.
LEMMA SessionRemembers ==
    ASSUME Sound, NEW c \in Calls, Answered(c, "init"), InitLands(c),
           call[c].answer = "session"
    PROVE  Remembering'
<1>1. /\ TypeOK /\ Wired /\ DeviceAgrees /\ CallsAreOurs /\ (Kept => Remembered)
      /\ call \in CallTables /\ call[c] # None /\ call[c].kind = "init" /\ call[c].live
      /\ page # None /\ page \in Pages
    BY DEF Sound, Typed, TypeOK, CallTables, Remembering, Answered, Wired
<1> DEFINE ready == Reduce(page, "ready", None, None)
<1>2. /\ page' = [ready EXCEPT !.data = TRUE] /\ call' = Done(c)
      /\ UNCHANGED <<habits, status, payment, modal, record, orderKey, session, confirmed, erased>>
    BY DEF InitLands, ConfirmPaid, Shows, device
<1>3. ready \in Pages /\ ready.order = page.order
    BY <1>1, ReduceIsPage DEF PaymentPhase
<1> HIDE DEF ready
<1>4. page' # None /\ page'.order = page.order /\ page'.phase = ready.phase
    BY <1>2, <1>3, NoneIsNoRecord DEF Pages
<1>5. \A d \in Calls : call'[d] = IF d = c THEN None ELSE call[d]
    BY <1>1, <1>2 DEF Done, CallTables
<1>6. DeviceAgrees' /\ CallsAreOurs'
    BY <1>1, <1>2, <1>4, <1>5 DEF DeviceAgrees, CallsAreOurs, Asking
<1> SUFFICES ASSUME Kept PROVE Remembered'
    BY <1>2, <1>6 DEF Remembering, Kept
<1>7. RecordHolds /\ NothingIsNothing /\ OneHand /\ UnpaidIsClear
    BY <1>1 DEF Remembered
<1>8. page.phase = "initializing" /\ \A d \in Calls : call[d] # None /\ call[d].live => d = c
    BY <1>1, <1>7 DEF OneHand
<1>9. ready.phase = "ready"
    <2>1. /\ "ready" \in PaymentPhase /\ "initializing" \notin TERMINAL
          /\ CanTransition("initializing", "ready")
        BY DEF PaymentPhase, TERMINAL, CanTransition, TRANSITIONS
    <2> QED BY <1>1, <1>8, <2>1, ReduceAccepts DEF ready
<1>10. \A d \in Calls : AskingOf(call'[d], orderKey) =>
          AskingOf(call[d], orderKey) /\ call'[d] = call[d]
    BY <1>5 DEF AskingOf, Asking
<1>11. /\ ReadAttempt(page.order) = None /\ modal = None
       /\ \A d \in Calls : ~AskingOf(call[d], orderKey)
    BY <1>1, <1>7, <1>8 DEF UnpaidIsClear, Unpaid
<1>12. RecordHolds' /\ NothingIsNothing'
    <2>1. \A b \in Attempts : MayLand(b)' <=> MayLand(b)
        BY <1>2 DEF MayLand
    <2> QED BY <1>2, <1>7, <1>10, <2>1 DEF RecordHolds, NothingIsNothing
<1>13. OneHand'
    BY <1>2, <1>5, <1>8, <1>11 DEF OneHand
<1>14. PageRemembers' /\ UnpaidIsClear'
    BY <1>2, <1>4, <1>10, <1>11 DEF PageRemembers, UnpaidIsClear, ReadAttempt
<1> QED BY <1>12, <1>13, <1>14 DEF Remembered

\* Any other answer: an error of payment-init, an outcome still unknown, or the
\* word that no money was taken.  On that word the record is given up, and an
\* order that still had its attempt there is one of the erased.
LEMMA ShowingRemembers ==
    ASSUME Sound, NEW c \in Calls, call[c] # None, NEW phase \in PaymentPhase,
           Shows(c, phase), erased \subseteq erased', UNCHANGED <<orderKey, session>>,
           \/ phase = "unresolved" /\ record' = record
           \/ phase = "error" /\ call[c].kind = "init" /\ record' = record
           \/ /\ phase = "failed" /\ record' = None
              /\ Asking(call[c]) /\ call[c].answer = "nothing"
              /\ \/ call[c].order = orderKey
                 \/ ReadAttempt(orderKey) = None
                 \/ orderKey \in erased'
    PROVE  Remembering'
<1>1. /\ TypeOK /\ Wired /\ DeviceAgrees /\ CallsAreOurs /\ (Kept => Remembered)
      /\ call \in CallTables /\ call[c] \in Requests
      /\ call[c].attempt \in Attempts \cup {None} /\ (call[c].live => page # None)
    BY DEF Sound, Typed, TypeOK, CallTables, Remembering, Wired, Requests
<1>2. /\ page' = Apply(call[c], phase) /\ call' = Done(c)
      /\ UNCHANGED <<habits, status, payment, modal, orderKey, session, confirmed>>
    BY DEF Shows
<1>3. /\ page = None => page' = None
      /\ page # None => /\ page' # None /\ page'.order = page.order
                        /\ page \in Pages /\ orderKey # None /\ page.order = orderKey
    BY <1>1, <1>2, AppliedIsPage, PageHasKey
<1>4. \A d \in Calls : call'[d] = IF d = c THEN None ELSE call[d]
    BY <1>1, <1>2 DEF Done, CallTables
<1>5. DeviceAgrees'
    BY <1>1, <1>2, <1>3 DEF DeviceAgrees
<1>6. CallsAreOurs'
    BY <1>1, <1>2, <1>4 DEF CallsAreOurs, Asking
<1> SUFFICES ASSUME Kept' PROVE Remembered'
    BY <1>5, <1>6 DEF Remembering
<1>7. Kept /\ orderKey \notin erased'
    BY DEF Kept
<1>8. RecordHolds /\ NothingIsNothing /\ OneHand /\ PageRemembers /\ UnpaidIsClear
    BY <1>1, <1>7 DEF Remembered
<1>9. page' # None =>
        \/ page' = page
        \/ /\ call[c].live /\ page'.phase = phase
           /\ page.attempt # None => page'.attempt = page.attempt
    <2>1. CASE call[c].live
        BY <1>1, <1>2, <1>3, <2>1, ReduceRefuses DEF Apply
    <2>2. CASE ~call[c].live
        BY <1>2, <2>2 DEF Apply
    <2> QED BY <2>1, <2>2
<1>10. \A d \in Calls : AskingOf(call'[d], orderKey) =>
          AskingOf(call[d], orderKey) /\ call'[d] = call[d] /\ d # c
    BY <1>4 DEF AskingOf, Asking
<1>11. \A b \in Attempts : MayLand(b)' <=> MayLand(b)
    BY <1>2 DEF MayLand
<1>12. ASSUME phase = "failed"
       PROVE  /\ modal = None
              /\ \A d \in Calls : ~AskingOf(call'[d], orderKey)
              /\ \A b \in Attempts : MayLand(b) => payment[b].order # orderKey
    <2>1. CASE call[c].order = orderKey
        BY <1>8, <1>10, <1>12, <2>1 DEF RecordHolds, NothingIsNothing, AskingOf
    <2>2. CASE ReadAttempt(orderKey) = None
        <3>1. record = None \/ payment[record].order # orderKey
            BY <2>2, RecordOfOrder
        <3>2. modal = None
            BY <1>1, <1>7, <1>8, <3>1, NoneIsNoName DEF RecordHolds, DeviceAgrees, Kept, TypeOK, Modals
        <3>3. \A d \in Calls : ~AskingOf(call[d], orderKey)
            BY <1>1, <1>8, <3>1 DEF RecordHolds, CallsAreOurs, AskingOf, Asking
        <3>4. \A b \in Attempts : MayLand(b) => payment[b].order # orderKey
            BY <1>8, <3>1, NoneIsNoName DEF RecordHolds
        <3> QED BY <1>10, <3>2, <3>3, <3>4
    <2> QED BY <1>7, <1>12, <2>1, <2>2
<1>13. record' = record \/ record' = None
    OBVIOUS
<1>14. RecordHolds' /\ NothingIsNothing'
    <2>1. CASE record' = record
        BY <1>2, <1>8, <1>10, <1>11, <2>1 DEF RecordHolds, NothingIsNothing
    <2>2. CASE phase = "failed"
        BY <1>2, <1>11, <1>12, <2>2 DEF RecordHolds, NothingIsNothing
    <2> QED BY <2>1, <2>2
<1>15. OneHand'
    BY <1>1, <1>2, <1>3, <1>4, <1>8, <1>9 DEF OneHand, Wired
<1>16. \A o : ReadAttempt(o)' # None => ReadAttempt(o) # None /\ record' = record /\ record # None
    BY <1>2, <1>13 DEF ReadAttempt
<1>17. PageRemembers'
    <2> SUFFICES ASSUME page' # None, ReadAttempt(page.order)' # None
                 PROVE  page'.attempt = record'
        BY <1>3 DEF PageRemembers, ReadAttempt
    <2> QED BY <1>3, <1>8, <1>9, <1>16 DEF PageRemembers
<1>18. UnpaidIsClear'
    <2> SUFFICES ASSUME page' # None, page'.phase \in Unpaid
                 PROVE  /\ ReadAttempt(page.order)' = None /\ modal = None
                        /\ \A d \in Calls : ~AskingOf(call'[d], orderKey)
        BY <1>2, <1>3 DEF UnpaidIsClear, ReadAttempt
    <2>1. CASE page.phase \in Unpaid
        BY <1>3, <1>8, <1>10, <1>16, <2>1 DEF UnpaidIsClear
    <2>2. CASE page.phase \notin Unpaid
        <3>1. call[c].live /\ page'.phase = phase /\ phase # "unresolved"
            BY <1>9, <2>2 DEF Unpaid, MAY_START_NEW_PAYMENT
        <3>2. call[c].kind # "init"
            BY <1>1, <1>8, <2>2, <3>1 DEF OneHand, Unpaid
        <3>3. phase = "failed" /\ record' = None
            BY <3>1, <3>2
        <3> QED BY <1>12, <1>16, <3>3 DEF ReadAttempt
    <2> QED BY <2>1, <2>2
<1> QED BY <1>14, <1>15, <1>17, <1>18 DEF Remembered

\* Every answer that lands.
LEMMA LandingRemembers ==
    ASSUME Sound, NEW c \in Calls, Lands(c)
    PROVE  Remembering'
<1>1. call[c] \in Requests /\ call[c] # None
    BY LandingsAre DEF Sound
<1>2. {"error", "unresolved", "failed"} \subseteq PaymentPhase
    BY DEF PaymentPhase
<1>3. CASE ConfirmPaid(c)
    BY <1>1, <1>3, ConfirmingRemembers
<1>4. CASE InitLands(c)
    <2>1. CASE call[c].answer = "session"
        BY <1>4, <2>1, SessionRemembers DEF InitLands
    <2>2. CASE Shows(c, "error") /\ UNCHANGED <<device, erased>>
        BY <1>1, <1>2, <1>4, <2>2, ShowingRemembers DEF InitLands, Answered, device
    <2> QED BY <1>3, <1>4, <2>1, <2>2 DEF InitLands
<1>5. CASE Shows(c, "unresolved") /\ UNCHANGED <<device, erased>>
    BY <1>1, <1>2, <1>5, ShowingRemembers DEF device
<1>6. CASE SettleLands(c)
    <2>1. CASE /\ NothingTaken(call[c].answer) /\ record' = None
               /\ erased' = IF record # None /\ payment[record].order # call[c].order
                            THEN erased \cup {payment[record].order} ELSE erased
               /\ Shows(c, "failed") /\ UNCHANGED <<orderKey, session>>
        <3>1. \/ call[c].order = orderKey
              \/ ReadAttempt(orderKey) = None
              \/ orderKey \in erased'
            BY <2>1, RecordOfOrder
        <3>2. Asking(call[c]) /\ call[c].answer = "nothing"
            BY <1>1, <1>6, <2>1 DEF SettleLands, Answered, NothingTaken, Asking
        <3> QED BY <1>1, <1>2, <2>1, <3>1, <3>2, ShowingRemembers
    <2> QED BY <1>3, <1>5, <1>6, <2>1 DEF SettleLands
<1> QED BY <1>3, <1>4, <1>5, <1>6 DEF Lands, CheckLands, VerifyLands

\* Every step remembers.
LEMMA StepsRemember == Sound /\ [Next]_vars => Remembering'
<1> SUFFICES ASSUME Sound, [Next]_vars PROVE Remembering'
    OBVIOUS
<1>1. CASE Customer
    BY <1>1, CheckoutRemembers, ReloadRemembers, ReturnsRemember, LeavingRemembers,
       PayingRemembers, PaymentsRemember, ButtonsRemember DEF Customer
<1>2. CASE World
    BY <1>2, ThrowingRemembers, RedirectRemembers, ReturningRemembers, PaymentsRemember,
       BackendRemembers DEF World
<1>3. CASE \E c \in Calls : Answer(c) \/ Lands(c)
    BY <1>3, AnsweringRemembers, LandingRemembers
<1>4. CASE UNCHANGED vars
    <2>1. Remembered' <=> Remembered
        BY <1>4 DEF vars, Remembered, RecordHolds, NothingIsNothing, OneHand, PageRemembers,
           UnpaidIsClear, ReadAttempt, MayLand
    <2> QED BY <1>4, <2>1 DEF vars, Sound, Remembering, DeviceAgrees, CallsAreOurs, Kept, Asking
<1> QED BY <1>1, <1>2, <1>3, <1>4 DEF Next
-----------------------------------------------------------------------------
\* The invariant and the theorems

\* At first nothing has been placed.
LEMMA InitIsSound == Init => IInv
<1> SUFFICES ASSUME Init PROVE IInv
    OBVIOUS
<1>1. Typed
    BY CustomersHaveHabits, NoneIsNoRecord DEF Init, Typed, TypeOK, Wired, Statuses
<1>2. \A o \in Orders : ~Settled(o)
    BY DEF Init, Settled
<1> QED BY <1>1, <1>2
    DEF Init, IInv, OnlyPlaced, SettledIsCaptured, AnswersAreSettled, ConfirmedAreSettled

\* Every step keeps the invariant.
LEMMA StepsAreSound == IInv /\ [Next]_vars => IInv'
<1> SUFFICES ASSUME IInv, [Next]_vars PROVE IInv'
    OBVIOUS
<1>1. Typed /\ TypeOK /\ OnlyPlaced /\ SettledIsCaptured /\ AnswersAreSettled
      /\ ConfirmedAreSettled
    BY DEF IInv, Typed
<1>2. Typed' /\ TypeOK'
    BY <1>1, StepsAreTyped DEF Typed
<1>3. PaymentsProceed /\ OrdersProceed /\ AnswersProceed /\ KnownOrders
    BY <1>1, PaymentsOnlyProceed, OrdersOnlyProceed, AnswersOnlyProceed, PagesShowKnownOrders
<1>4. OnlyPlaced'
    <2>1. page # None => page.order \in Orders /\ status'[page.order] # "unplaced"
        BY <1>1, <1>3 DEF OnlyPlaced, OrdersProceed, TypeOK, Pages
    <2>2. orderKey' # None => status'[orderKey'] # "unplaced"
        BY <1>1, <1>3 DEF OnlyPlaced, OrdersProceed, KnownOrders, TypeOK
    <2>3. session' # None => status'[session'] # "unplaced"
        BY <1>1, <1>3 DEF OnlyPlaced, OrdersProceed, KnownOrders, TypeOK
    <2>4. page' # None => status'[page'.order] # "unplaced"
        BY <1>3, <2>1, <2>2 DEF KnownOrders
    <2>5. ASSUME NEW a \in Attempts, payment'[a] # None
          PROVE  status'[payment'[a].order] # "unplaced"
        <3>1. CASE payment[a] # None
            <4>1. payment[a].order \in Orders /\ status[payment[a].order] # "unplaced"
                BY <1>1, <3>1 DEF OnlyPlaced, TypeOK, Payments
            <4>2. payment'[a].order = payment[a].order
                BY <1>3, <3>1 DEF PaymentsProceed
            <4> QED BY <1>3, <4>1, <4>2 DEF OrdersProceed
        <3>2. CASE payment[a] = None
            BY <1>3, <2>1, <2>5, <3>2 DEF PaymentsProceed
        <3> QED BY <3>1, <3>2
    <2> QED BY <2>2, <2>3, <2>4, <2>5 DEF OnlyPlaced
<1>5. SettledIsCaptured'
    <2> SUFFICES ASSUME NEW o \in Orders, Settled(o)'
                 PROVE  Holds(o, "success")'
        BY DEF SettledIsCaptured
    <2>1. Holds(o, "success")
        BY <1>1, <1>3 DEF SettledIsCaptured, OrdersProceed
    <2> QED BY <1>3, <2>1 DEF Holds, PaymentsProceed
<1>6. AnswersAreSettled'
    <2> SUFFICES ASSUME NEW c \in Calls, call'[c] # None, call'[c].answer = "paid"
                 PROVE  status'[call'[c].order] \in {"paid", "refunded"}
        BY DEF AnswersAreSettled, Settled
    <2>1. call'[c].order \in Orders
        BY <1>2 DEF TypeOK, Requests
    <2>2. CASE call[c] # None /\ call[c].answer = "paid" /\ call'[c].order = call[c].order
        <3>1. Settled(call'[c].order)
            BY <1>1, <2>2 DEF AnswersAreSettled, Settled
        <3> QED BY <1>3, <2>1, <3>1 DEF OrdersProceed, Settled
    <2> QED BY <1>3, <2>2 DEF AnswersProceed
<1>7. ConfirmedAreSettled'
    <2> SUFFICES ASSUME NEW o \in confirmed'
                 PROVE  Settled(o)'
        BY DEF ConfirmedAreSettled
    <2>1. o \in Orders
        BY <1>2 DEF TypeOK
    <2>2. Settled(o)
        BY <1>1, ConfirmationsOnlyProceed DEF ConfirmedAreSettled, AnswersAreSettled
    <2> QED BY <1>3, <2>1, <2>2 DEF OrdersProceed
<1> QED BY <1>2, <1>4, <1>5, <1>6, <1>7 DEF IInv

\* The invariant holds in every state.
LEMMA InvariantHolds == Spec => []IInv
BY InitIsSound, StepsAreSound, PTL DEF Spec

\* The page, its requests, the checkout and the device are well formed in every
\* state, whatever the customer does.
THEOREM ScreenIsTyped == Spec => []TypeOK
<1>1. IInv => TypeOK
    BY DEF IInv, Typed
<1> QED BY <1>1, InvariantHolds, PTL

\* No customer is told that an order is paid which is not: a confirmation is of
\* a settled order, and of a payment that succeeded at the gateway.
THEOREM ConfirmationsAreTrue == Spec => []ConfirmationMeansPaid
<1>1. IInv => ConfirmationMeansPaid
    BY DEF IInv, Typed, TypeOK, SettledIsCaptured, ConfirmedAreSettled, Settled,
       ConfirmationMeansPaid
<1> QED BY <1>1, InvariantHolds, PTL

\* At first the device is empty.
LEMMA InitRemembers == Init => Remembering
BY DEF Init, Remembering, DeviceAgrees, CallsAreOurs, Kept

\* The device remembers in every state, whatever the customer does.
LEMMA AlwaysRemembering == Spec => []Remembering
<1>1. IInv /\ Remembering /\ [Next]_vars => Remembering'
    BY StepsRemember DEF IInv, Sound
<1> QED BY <1>1, InitRemembers, InvariantHolds, PTL DEF Spec

\* While the device holds an order whose record was not cleared by the late
\* answer of another order's checkout, it remembers the attempt that may take
\* its money: for any number of orders, attempts and requests, and a customer
\* who orders again, goes back and forward, reloads and leaves at will.
THEOREM MovingMoneyIsRemembered == Spec => []MoneyIsRememberedUnlessErased
<1>1. IInv /\ Remembering => MoneyIsRememberedUnlessErased
    <2> SUFFICES ASSUME IInv, Remembering, NEW a \in Attempts, MayLand(a),
                        orderKey = payment[a].order, orderKey \notin erased
                 PROVE  ReadAttempt(payment[a].order) # None
        BY DEF MoneyIsRememberedUnlessErased
    <2>1. Kept
        BY NoneIsNoName DEF IInv, Typed, TypeOK, Payments, MayLand, Kept
    <2>2. record = a /\ record # None
        BY <2>1, NoneIsNoName DEF Remembering, Remembered, RecordHolds
    <2> QED BY <2>2 DEF ReadAttempt
<1> QED BY <1>1, AlwaysRemembering, InvariantHolds, PTL

\* No order is offered for payment that an earlier payment has paid or may yet
\* pay, unless its record was cleared by another order's late answer.
THEOREM NothingIsPaidTwiceUnlessErased == Spec => []PayIsSafeUnlessErased
<1>1. IInv /\ Remembering => PayIsSafeUnlessErased
    <2> SUFFICES ASSUME IInv, Remembering, PayOffered, page.order \notin erased,
                        NEW a \in Attempts, MayLand(a), payment[a].order = page.order
                 PROVE  FALSE
        BY DEF PayIsSafeUnlessErased
    <2>1. page # None /\ page.phase \in Unpaid
        BY DEF PayOffered, Unpaid
    <2>2. Kept /\ page.order = orderKey
        BY <2>1, PageHasKey DEF IInv, Typed, Remembering, Kept
    <2>3. record = a /\ record # None
        BY <2>2, NoneIsNoName DEF Remembering, Remembered, RecordHolds
    <2> QED BY <2>1, <2>2, <2>3 DEF Remembering, Remembered, UnpaidIsClear, ReadAttempt
<1> QED BY <1>1, AlwaysRemembering, InvariantHolds, PTL
=============================================================================
