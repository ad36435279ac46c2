---------------------------- MODULE OrderCreation ----------------------------
(***************************************************************************)
(* POST /api/consumer/orders from the checkout sheet to the commit: the    *)
(* browser derives an idempotency key from what it submits, and the server *)
(* creates one order per key, however often the submission is repeated.    *)
(*                                                                         *)
(* A request is one submission.  It names the order row it may create and  *)
(* the key it may mint, so no separate sets of ids are needed.  The reads  *)
(* of createOrder's transaction hold no locks (READ COMMITTED); the row of *)
(* the unique key is locked from its insert to the end of the transaction. *)
(***************************************************************************)
EXTENDS Naturals, FiniteSets

CONSTANTS
    Requests,    \* submissions, each with the key and the order it may make
    Browsers,    \* kiosks and phones
    Baskets,     \* what orderFingerprint covers: items, seat, contact, show
    ForAShow,    \* those that name a session: sessionId may be null
    Coupons,     \* codes, which it does not cover
    Limit,       \* a coupon's max_txn_limit
    MaxVisits,   \* bound: customers one device serves
    None

ASSUME NoneIsNoRequest ==
    /\ None \notin Requests \cup Coupons \cup Baskets
    /\ "refused" \notin Requests \cup {None}

ASSUME SomeNameASession == ForAShow \subseteq Baskets

ASSUME LimitsAreNaturals == Limit \in Nat /\ MaxVisits \in Nat

VARIABLES
    visitor,  \* how many customers have walked away from the device
    stored,   \* qbusto_checkout_key: the key and the basket it is bound to
    busy,     \* the submission the sheet is waiting for
    screen,   \* qbusto_order_id: the order the payment page is open on
    sent,     \* each request as it was posted
    heard,    \* requests whose promise the page still holds
    pc,       \* where createOrder is with each request
    answer,   \* what it answered: an order, or "refused"
    orders,   \* committed order rows
    opened,   \* those with their opening log entries
    keys,     \* idempotency_keys: the order of each committed key
    paid,     \* orders whose payment succeeded
    onSale    \* the session row's status is Open

browser == <<visitor, stored, busy, screen>>
server == <<pc, answer, orders, opened, keys>>
vars == <<visitor, stored, busy, screen, sent, heard, pc, answer,
          orders, opened, keys, paid, onSale>>

Sessions == [key : Requests, basket : Baskets]

Attempts == [browser : Browsers, visitor : 0..MaxVisits, key : Requests,
             basket : Baskets, coupon : Coupons \cup {None}]

Places == {"unsent", "lookup", "show", "coupon", "order", "key", "logs", "done"}

TypeOK ==
    /\ visitor \in [Browsers -> 0..MaxVisits]
    /\ stored \in [Browsers -> Sessions \cup {None}]
    /\ busy \in [Browsers -> Requests \cup {None}]
    /\ screen \in [Browsers -> Requests \cup {None}]
    /\ sent \in [Requests -> Attempts \cup {None}]
    /\ heard \in SUBSET Requests
    /\ pc \in [Requests -> Places]
    /\ answer \in [Requests -> Requests \cup {None, "refused"}]
    /\ orders \in SUBSET Requests
    /\ opened \in SUBSET Requests
    /\ keys \in [Requests -> Requests \cup {None}]
    /\ paid \in SUBSET Requests
    /\ onSale \in BOOLEAN

Init ==
    /\ visitor = [b \in Browsers |-> 0]
    /\ stored = [b \in Browsers |-> None]
    /\ busy = [b \in Browsers |-> None]
    /\ screen = [b \in Browsers |-> None]
    /\ sent = [r \in Requests |-> None]
    /\ heard = {}
    /\ pc = [r \in Requests |-> "unsent"]
    /\ answer = [r \in Requests |-> None]
    /\ orders = {}
    /\ opened = {}
    /\ keys = [r \in Requests |-> None]
    /\ paid = {}
    /\ onSale = TRUE

Goto(r, place) == pc' = [pc EXCEPT ![r] = place]

-----------------------------------------------------------------------------
\* The browser.

OnCatalog(b) == screen[b] = None

\* Mutant: only the stored key is sent; a new attempt goes without one.
KeyWithoutCreating(b, r, basket) ==
    IF stored[b] # None /\ stored[b].basket = basket THEN stored[b].key ELSE None

\* Mutant: the key is kept for the tab, whatever the cart has become.
KeyOfTab(b, r, basket) == IF stored[b] # None THEN stored[b].key ELSE r

\* getOrCreateIdempotencyKey: reuse the key only for the basket it is bound to.
KeyFor(b, r, basket) ==
    IF stored[b] # None /\ stored[b].basket = basket
    THEN stored[b].key ELSE r

\* The sheet posts what the customer has put together by now.
Submit(b, r) ==
    /\ OnCatalog(b) /\ busy[b] = None
    /\ pc[r] = "unsent"
    /\ \E basket \in Baskets, coupon \in Coupons \cup {None} :
          LET key == KeyFor(b, r, basket)
          IN  /\ stored' = [stored EXCEPT ![b] = [key |-> key, basket |-> basket]]
              /\ sent' = [sent EXCEPT ![r] =
                            [browser |-> b, visitor |-> visitor[b], key |-> key,
                             basket |-> basket, coupon |-> coupon]]
    /\ busy' = [busy EXCEPT ![b] = r]
    /\ heard' = heard \cup {r}
    /\ Goto(r, "lookup")
    /\ UNCHANGED <<visitor, screen, answer, orders, opened, keys, paid, onSale>>

\* onSubmit goes on: an order opens the payment page, whoever is there now.
Receive(r) ==
    LET b == sent[r].browser
    IN  /\ r \in heard /\ pc[r] = "done"
        /\ heard' = heard \ {r}
        /\ screen' = IF answer[r] = "refused" THEN screen
                     ELSE [screen EXCEPT ![b] = answer[r]]
        /\ busy' = IF busy[b] = r THEN [busy EXCEPT ![b] = None] ELSE busy
        /\ UNCHANGED <<visitor, stored, sent, server, paid, onSale>>

\* The connection breaks; the sheet reports it and may be submitted again.
Disconnect(r) ==
    LET b == sent[r].browser
    IN  /\ r \in heard
        /\ heard' = heard \ {r}
        /\ busy' = IF busy[b] = r THEN [busy EXCEPT ![b] = None] ELSE busy
        /\ UNCHANGED <<visitor, stored, screen, sent, server, paid,
                       onSale>>

\* A reload drops every promise of the page and keeps sessionStorage.
Reload(b) ==
    /\ busy[b] # None
    /\ heard' = {r \in heard : sent[r].browser # b}
    /\ busy' = [busy EXCEPT ![b] = None]
    /\ UNCHANGED <<visitor, stored, screen, sent, server, paid, onSale>>

EndSession(b) == stored' = [stored EXCEPT ![b] = None]

\* IdleReset, or Order now on the screensaver: the next customer's turn.  It
\* does not look at busy, and the page's promises live on.
Abandon(b) ==
    /\ OnCatalog(b)
    /\ visitor[b] < MaxVisits
    /\ visitor' = [visitor EXCEPT ![b] = @ + 1]
    /\ EndSession(b)
    /\ busy' = [busy EXCEPT ![b] = None]
    /\ UNCHANGED <<screen, sent, heard, server, paid, onSale>>

\* Back from the payment page: the sheet remounts with the same cart.
LeavePayment(b) ==
    /\ screen[b] # None /\ screen[b] \notin paid
    /\ screen' = [screen EXCEPT ![b] = None]
    /\ UNCHANGED <<visitor, stored, busy, sent, heard, server, paid,
                   onSale>>

\* confirmPaid and the confirmation page's Done.
Confirm(b) ==
    /\ screen[b] \in paid
    /\ screen' = [screen EXCEPT ![b] = None]
    /\ EndSession(b)
    /\ UNCHANGED <<visitor, busy, sent, heard, server, paid, onSale>>

-----------------------------------------------------------------------------
\* The server: createOrder, one step per read or write others can see.

Finish(r, what) ==
    /\ Goto(r, "done")
    /\ answer' = [answer EXCEPT ![r] = what]

\* A key that is committed is answered with its order.
Lookup(r) ==
    /\ pc[r] = "lookup"
    /\ \/ /\ keys[sent[r].key] # None
          /\ Finish(r, keys[sent[r].key])
       \/ /\ keys[sent[r].key] = None
          /\ Goto(r, "show")
          /\ UNCHANGED answer
    /\ UNCHANGED <<browser, sent, heard, orders, opened, keys, paid, onSale>>

\* A session that is named must be open.
ReadShow(r) ==
    /\ pc[r] = "show"
    /\ \/ /\ sent[r].basket \in ForAShow => onSale
          /\ Goto(r, "coupon")
          /\ UNCHANGED answer
       \/ /\ sent[r].basket \in ForAShow /\ ~onSale
          /\ Finish(r, "refused")
    /\ UNCHANGED <<browser, sent, heard, orders, opened, keys, paid, onSale>>

Redeemed(c) == Cardinality({o \in paid : sent[o].coupon = c})

\* validateCoupon: only paid redemptions count against the limit.
ReadCoupon(r) ==
    /\ pc[r] = "coupon"
    /\ \/ /\ sent[r].coupon # None /\ Redeemed(sent[r].coupon) >= Limit
          /\ Finish(r, "refused")
       \/ /\ sent[r].coupon = None \/ Redeemed(sent[r].coupon) < Limit
          /\ Goto(r, "order")
          /\ UNCHANGED answer
    /\ UNCHANGED <<browser, sent, heard, orders, opened, keys, paid, onSale>>

\* Order.create and its items: nobody sees the row before the commit.
InsertOrder(r) ==
    /\ pc[r] = "order"
    /\ Goto(r, "key")
    /\ UNCHANGED <<browser, sent, heard, answer, orders, opened, keys, paid,
                   onSale>>

\* Mutant: the index on the key is not unique.
NoUniqueKey(r) == FALSE

\* The key is in the table already: SequelizeUniqueConstraintError.
KeyTaken(r) == keys[sent[r].key] # None

\* Another open transaction has inserted the key; this insert waits for it.
KeyLocked(r) ==
    \E o \in Requests \ {r} : pc[o] = "logs" /\ sent[o].key = sent[r].key

\* The unique violation is caught and answered with the winner's order.  The
\* callback returns, so the transaction commits the order it has inserted.
TryKey(r) ==
    /\ \/ /\ ~KeyTaken(r)
          /\ Goto(r, "logs")
          /\ UNCHANGED <<answer, orders>>
       \/ /\ KeyTaken(r)
          /\ orders' = orders \cup {r}
          /\ Finish(r, keys[sent[r].key])
    /\ UNCHANGED <<browser, sent, heard, opened, keys, paid, onSale>>

\* Mutant: the lookup keeps a shared lock on the missing key's range, so two
\* that have looked it up wait for each other's lock.
InsertKeyUnderRangeLocks(r) ==
    /\ pc[r] = "key"
    /\ \A o \in Requests \ {r} :
          sent[o] # None /\ sent[o].key = sent[r].key => pc[o] \notin {"key", "logs"}
    /\ TryKey(r)

InsertKey(r) ==
    /\ pc[r] = "key"
    /\ ~KeyLocked(r)
    /\ TryKey(r)

\* Mutant: the order is committed first and its key afterwards, never.
CommitWithoutKey(r) ==
    /\ orders' = orders \cup {r}
    /\ opened' = opened \cup {r}
    /\ UNCHANGED keys

CommitOrder(r) ==
    /\ orders' = orders \cup {r}
    /\ opened' = opened \cup {r}
    /\ keys' = [keys EXCEPT ![sent[r].key] = r]

WriteLogs(r) ==
    /\ pc[r] = "logs"
    /\ CommitOrder(r)
    /\ Finish(r, r)
    /\ UNCHANGED <<browser, sent, heard, paid, onSale>>

\* Any error, or the process dying: the transaction leaves nothing.
Rollback(r) ==
    /\ pc[r] \notin {"unsent", "done"}
    /\ Finish(r, "refused")
    /\ UNCHANGED <<browser, sent, heard, orders, opened, keys, paid, onSale>>

-----------------------------------------------------------------------------
\* The rest of the world.

\* The order on the payment page is paid (OrderLifecycle tells how).
Pay(b) ==
    /\ screen[b] # None
    /\ paid' = paid \cup {screen[b]}
    /\ UNCHANGED <<browser, sent, heard, server, onSale>>

\* The show sync finds the session closed.
CloseShow ==
    /\ onSale' = FALSE
    /\ UNCHANGED <<browser, sent, heard, server, paid>>

Serve(r) ==
    \/ Lookup(r) \/ ReadShow(r) \/ ReadCoupon(r)
    \/ InsertOrder(r) \/ InsertKey(r) \/ WriteLogs(r)

Next ==
    \/ \E b \in Browsers :
          \/ Reload(b) \/ Abandon(b) \/ LeavePayment(b)
          \/ Confirm(b) \/ Pay(b)
          \/ \E r \in Requests : Submit(b, r)
    \/ \E r \in Requests :
          Serve(r) \/ Rollback(r) \/ Receive(r) \/ Disconnect(r)
    \/ CloseShow

Spec == Init /\ [][Next]_vars

\* The server works on what it has received.
ServedSpec == Spec /\ \A r \in Requests : WF_vars(Serve(r))

-----------------------------------------------------------------------------
\* Properties.

(***************************************************************************)
(* However submissions race, retry and cross, a key stands for one order:  *)
(* two orders with opening entries never come from the same key.           *)
(* (createOrder: "IDEMPOTENT by Idempotency-Key".)                         *)
(***************************************************************************)
OneOpenedOrderPerKey ==
    \A r, o \in opened : sent[r].key = sent[o].key => r = o

(***************************************************************************)
(* Every submission of one attempt that is answered with an order is       *)
(* answered with the same one, through the lookup, the lost race and the   *)
(* creation alike.                                                         *)
(***************************************************************************)
RetriesGetTheSameOrder ==
    \A r, o \in Requests :
        (/\ answer[r] \in Requests /\ answer[o] \in Requests
         /\ sent[r].key = sent[o].key) => answer[r] = answer[o]

(***************************************************************************)
(* A customer is only ever handed an order with opening entries that this  *)
(* customer sent for this basket, never one left over from the basket or   *)
(* the customer before (the reason checkoutSession.ts binds the key to a   *)
(* fingerprint and IdleReset clears it).                                   *)
(***************************************************************************)
AnswersAreTheCustomersOwn ==
    \A r \in Requests : answer[r] \in Requests =>
        LET o == answer[r]
        IN  /\ o \in opened
            /\ sent[o].browser = sent[r].browser
            /\ sent[o].visitor = sent[r].visitor
            /\ sent[o].basket = sent[r].basket

(***************************************************************************)
(* No submission waits for ever on the key of another: whoever reaches the *)
(* key insert leaves it.                                                   *)
(***************************************************************************)
KeyInsertsEnd ==
    \A r \in Requests : pc[r] = "key" ~> pc[r] = "done"

=============================================================================
