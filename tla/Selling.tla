------------------------------- MODULE Selling -------------------------------
(***************************************************************************)
(* What a customer is shown and what they are charged: the week's rates    *)
(* and hours staff keep, the listing behind the shared cache, the cart     *)
(* that remembers its prices, the coupon looked up in advance, and the     *)
(* order, which the server prices again.  Money is in paise.  A cart line  *)
(* and an answer remember what they were computed from: that is history,   *)
(* and no guard reads it.                                                  *)
(***************************************************************************)
EXTENDS Integers, FiniteSets, Functions

CONSTANTS
    Products,
    DaysInWeek,
    SlotsPerDay,  \* instants of a day; the code's are seconds
    BUSINESS_DAY_START,
    Shops,        \* what staff may have configured: rates and hours
    Offers,       \* what the coupon may be
    maxTxnLimit,  \* how many paid orders may use it
    Visits,       \* what customers may come with: a claimed source, a seat
    MaxPieces,    \* bound: pieces in a cart
    MaxUnderWay,  \* bound: unpaid orders with the coupon at a time
    MaxChanges,   \* bound: changes of the world in a behaviour
    None

WeekDays == 1..DaysInWeek
Slots == 0..(SlotsPerDay - 1)
Instants == [date : WeekDays, slot : Slots]

\* 0 in a window's day means every day.
EVERY_DAY == 0
Windows == {[day |-> d, start |-> s, end |-> e] :
               d \in WeekDays \cup {EVERY_DAY}, s \in Slots, e \in Slots}

Sources == {"qr", "seat_qr", "kiosk", "counter"}

\* "P" is a percentage and "F" an amount; a channel's own value comes first.
Discounts == [type : {"P", "F"}, value : Int \cup {None},
              on : [Sources -> Int \cup {None}]]
Rates == [price : Nat, discount : Discounts \cup {None}]

\* No rate: not sold that day.  No hours: not carried at the cinema.
ShopRecords == [rates : [Products -> [WeekDays -> Rates \cup {None}]],
                hours : [Products -> (SUBSET Windows) \cup {None}]]

\* Limits that are None do not apply.
OfferRecords == [percentage : BOOLEAN, amount : Nat, most : Nat \cup {None},
                 from : Nat \cup {None}, upTo : Nat \cup {None}]

ASSUME ProductsAreFinite == IsFiniteSet(Products)

ASSUME WeekIsAWeek == DaysInWeek \in Nat \ {0} /\ SlotsPerDay \in Nat \ {0}

ASSUME DayStartsInTheDay == BUSINESS_DAY_START \in Slots

ASSUME ConfiguredSoundly == Shops \subseteq ShopRecords /\ Offers \subseteq OfferRecords

ASSUME VisitsAreVisits == Visits \subseteq [claim : Sources, seat : BOOLEAN]

ASSUME SellingBounds == {maxTxnLimit, MaxPieces, MaxUnderWay, MaxChanges} \subseteq Nat

VARIABLES
    now,       \* the cinema's clock
    shop,      \* product_pricing, cinema_products and their hours
    offer,     \* the coupon, None while it is not to be had
    cache,     \* the listing of each channel in Redis
    visit,     \* the customer at the device
    page,      \* the menu on the screen
    cart,      \* the cart's lines
    preview,   \* the coupon request under way
    applied,   \* the coupon in the checkout sheet
    bill,      \* the order: priced, then placed
    counted,   \* other customers' orders with the coupon: past the check of
               \* its limit, not yet committed
    open,      \* committed orders with the coupon: payment pending
    givenUp,   \* ... payment failed, which staff may reopen
    redeemed,  \* ... paid
    overdraft, \* history: orders under way when the limit was reached
    changes

vars == <<now, shop, offer, cache, visit, page, cart, preview, applied, bill,
          counted, open, givenUp, redeemed, overdraft, changes>>
device == <<visit, page, cart, preview, applied, bill>>
coupons == <<counted, open, givenUp, redeemed, overdraft>>

-----------------------------------------------------------------------------
\* The business day

\* Before 06:00 it is still yesterday, and before Monday comes Sunday.
BusinessDayOfWeek(t) ==
    IF t.slot >= BUSINESS_DAY_START THEN t.date
    ELSE IF t.date = 1 THEN DaysInWeek ELSE t.date - 1

\* How far round the clock it is from one slot to another.
Since(from, to) == (to - from + SlotsPerDay) % SlotsPerDay

Width(w) == Since(w.start, w.end)

IsWithinDailyWindow(slot, w) == Since(w.start, slot) < Width(w)

\* On a line, as a query would compare them.
DailyWindowsOverlapOnALine(a, b) == a.start < b.end /\ b.start < a.end

DailyWindowsOverlap(a, b) ==
    /\ Width(a) # 0 /\ Width(b) # 0
    /\ Since(a.start, b.start) < Width(a) \/ Since(b.start, a.start) < Width(b)

\* What saving window w is refused for.
Clashes(w, existing) ==
    /\ w.day = EVERY_DAY \/ existing.day \in {EVERY_DAY, w.day}
    /\ DailyWindowsOverlap(w, existing)

OpenAt(w, t) ==
    /\ w.day \in {EVERY_DAY, BusinessDayOfWeek(t)}
    /\ IsWithinDailyWindow(t.slot, w)

Available(hours, t) ==
    hours # None /\ (hours = {} \/ \E w \in hours : OpenAt(w, t))

-----------------------------------------------------------------------------
\* Prices

\* A seat's rate needs a seat.
DeriveSource(claim, hasSeat) ==
    IF claim = "seat_qr" /\ ~hasSeat THEN "qr" ELSE claim

Lesser(m, n) == IF m < n THEN m ELSE n
Greater(m, n) == IF m < n THEN n ELSE m

Percent(amount, percent) == (2 * amount * percent + 100) \div 200

UnitDiscount(rate, source) ==
    LET d == rate.discount
        raw == IF d.on[source] # None THEN d.on[source] ELSE d.value
        amount == IF d.type = "P" THEN Percent(rate.price, raw) ELSE raw
    IN IF d = None THEN 0
       ELSE IF raw = None THEN 0
       ELSE Lesser(Greater(amount, 0), rate.price)

Today == [shop |-> shop, day |-> BusinessDayOfWeek(now)]

\* What can be sold now, and at which rate.
OnSale == {p \in Products : /\ Available(shop.hours[p], now)
                            /\ shop.rates[p][Today.day] # None}

Rate(p) == shop.rates[p][Today.day]

GetProducts(source) ==
    [asOf |-> Today,
     prices |-> [p \in OnSale |-> Rate(p).price - UnitDiscount(Rate(p), source)]]

Sum(f) == FoldFunction(+, 0, f)

\* Only paid orders count, and one more would be let in.
RedeemableOnceMore == redeemed <= maxTxnLimit

\* Only paid orders count: one that is not paid has not taken a place.
Redeemable == redeemed < maxTxnLimit

\* The discount of a coupon that is accepted; None for one that is refused.
ValidateCoupon(subtotal) ==
    LET value == IF offer.percentage THEN Percent(subtotal, offer.amount)
                                     ELSE offer.amount
        discount == Lesser(IF offer.most # None THEN Lesser(value, offer.most)
                                                ELSE value, subtotal)
    IN IF /\ offer # None
          /\ offer.from # None => subtotal >= offer.from
          /\ offer.upTo # None => subtotal <= offer.upTo
          /\ Redeemable
          /\ discount > 0
       THEN discount ELSE None

-----------------------------------------------------------------------------
\* The cart and its sheet

Lines == [quantity : 1..MaxPieces, unitPrice : Nat,
          asOf : [shop : Shops, day : WeekDays]]

InCart == {p \in Products : cart[p] # None}

EmptyCart == [p \in Products |-> None]

\* What a coupon is checked against.
ItemsFingerprint(lines) ==
    [p \in Products |-> IF lines[p] = None THEN 0 ELSE lines[p].quantity]

EstimatedSubtotal == Sum([p \in InCart |-> cart[p].quantity * cart[p].unitPrice])

EstimatedTotal ==
    Greater(0, EstimatedSubtotal - (IF applied = None THEN 0 ELSE applied.discount))

\* The effect that drops a coupon once the cart is not what it was checked
\* against.
StillApplies(coupon, lines) ==
    IF coupon # None /\ coupon.cart = ItemsFingerprint(lines) THEN coupon ELSE None

\* The server's sums over a cart of these quantities.
Ordered(quantity) == {p \in Products : quantity[p] > 0}

Subtotal(quantity) == Sum([p \in Ordered(quantity) |-> quantity[p] * Rate(p).price])

ProductDiscount(quantity, source) ==
    Sum([p \in Ordered(quantity) |-> quantity[p] * UnitDiscount(Rate(p), source)])

\* Each discount is within the subtotal, and their sum is taken to be.
TotalUncapped(subtotal, discount) == subtotal - discount

Total(subtotal, discount) == subtotal - Lesser(discount, subtotal)

NewVisit(v) ==
    /\ visit' = v /\ page' = None /\ cart' = EmptyCart
    /\ preview' = None /\ applied' = None /\ bill' = None

Init ==
    /\ now \in Instants /\ shop \in Shops /\ offer \in Offers
    /\ cache = [s \in Sources |-> None]
    /\ visit \in Visits /\ page = None /\ cart = EmptyCart
    /\ preview = None /\ applied = None /\ bill = None
    /\ counted = 0 /\ open = 0 /\ givenUp = 0
    /\ redeemed = 0 /\ overdraft = 0 /\ changes = 0

-----------------------------------------------------------------------------
\* The world

WorldChanges == changes < MaxChanges /\ changes' = changes + 1

Tick ==
    /\ WorldChanges
    /\ now' = IF now.slot < SlotsPerDay - 1 THEN [now EXCEPT !.slot = now.slot + 1]
              ELSE [date |-> (now.date % DaysInWeek) + 1, slot |-> 0]
    /\ UNCHANGED <<shop, offer, cache, device, coupons>>

\* Staff save a rate or hours, which bumps the cache's generation.
EditCatalogue(s) ==
    /\ WorldChanges
    /\ s # shop /\ shop' = s
    /\ cache' = [c \in Sources |-> None]
    /\ UNCHANGED <<now, offer, device, coupons>>

\* Staff edit or end the coupon, its period ends, the cinema stops coupons.
EditOffer(o) ==
    /\ WorldChanges
    /\ o # offer /\ offer' = o
    /\ UNCHANGED <<now, shop, cache, device, coupons>>

Expire(s) ==
    /\ WorldChanges
    /\ cache[s] # None /\ cache' = [cache EXCEPT ![s] = None]
    /\ UNCHANGED <<now, shop, offer, device, coupons>>

\* The device's own order, between the check and its commit.
Submitted(order) == IF order # None /\ order.coupon /\ ~order.placed THEN 1 ELSE 0

\* Orders that have passed the check and may yet be paid.
UnderWay == counted + open + givenUp + Submitted(bill)

\* Others order with the coupon: the paid orders are counted outside the
\* transaction that creates the order, which commits later or rolls back.
OthersCount ==
    /\ offer # None /\ Redeemable
    /\ UnderWay < MaxUnderWay /\ counted' = counted + 1
    /\ UNCHANGED <<now, shop, offer, cache, device, open, givenUp, redeemed,
                   overdraft, changes>>

OthersCommit ==
    /\ counted > 0 /\ counted' = counted - 1 /\ open' = open + 1
    /\ UNCHANGED <<now, shop, offer, cache, device, givenUp, redeemed, overdraft,
                   changes>>

OthersRollBack ==
    /\ counted > 0 /\ counted' = counted - 1
    /\ UNCHANGED <<now, shop, offer, cache, device, open, givenUp, redeemed,
                   overdraft, changes>>

\* The money has moved, or staff say so of an order written off: nothing looks
\* at the limit again.
CouponOrderPaid ==
    /\ \/ open > 0 /\ open' = open - 1 /\ UNCHANGED <<givenUp, changes>>
       \/ givenUp > 0 /\ givenUp' = givenUp - 1 /\ WorldChanges /\ UNCHANGED open
    /\ redeemed' = redeemed + 1
    /\ overdraft' = IF redeemed + 1 = maxTxnLimit THEN UnderWay - 1 ELSE overdraft
    /\ UNCHANGED <<now, shop, offer, cache, device, counted>>

\* Staff write a payment off, and may reopen it.
CouponOrderGivenUp ==
    /\ WorldChanges
    /\ open > 0 /\ open' = open - 1 /\ givenUp' = givenUp + 1
    /\ UNCHANGED <<now, shop, offer, cache, device, counted, redeemed, overdraft>>

GivenUpReopened ==
    /\ WorldChanges
    /\ givenUp > 0 /\ givenUp' = givenUp - 1 /\ open' = open + 1
    /\ UNCHANGED <<now, shop, offer, cache, device, counted, redeemed, overdraft>>

CouponOrderRefunded ==
    /\ WorldChanges
    /\ redeemed > 0 /\ redeemed' = redeemed - 1
    /\ UNCHANGED <<now, shop, offer, cache, device, counted, open, givenUp, overdraft>>

-----------------------------------------------------------------------------
\* The menu

\* Under the source the request claims.
CacheKeyOfTheClaim(v) == v.claim

\* Under the source it is entitled to.
CacheKey(v) == DeriveSource(v.claim, v.seat)

GetProductsCached(v) ==
    IF cache[CacheKey(v)] # None THEN cache[CacheKey(v)]
    ELSE GetProducts(DeriveSource(v.claim, v.seat))

Serve(v) == cache' = [cache EXCEPT ![CacheKey(v)] = GetProductsCached(v)]

OthersBrowse(v) ==
    /\ WorldChanges
    /\ Serve(v)
    /\ UNCHANGED <<now, shop, offer, device, coupons>>

\* The page is mounted and loads the menu.  The cart outlives a page, the
\* sheet's coupon does not.
LoadProducts ==
    /\ bill = None
    /\ Serve(visit) /\ page' = GetProductsCached(visit)
    /\ preview' = None /\ applied' = None
    /\ UNCHANGED <<now, shop, offer, visit, cart, bill, coupons, changes>>

CartBecomes(lines) ==
    /\ Sum(ItemsFingerprint(lines)) <= MaxPieces
    /\ cart' = lines /\ applied' = StillApplies(applied, lines)
    /\ UNCHANGED <<now, shop, offer, cache, visit, page, preview, bill, coupons, changes>>

\* A product already in the cart keeps the price it was added at.
AddItem(p) ==
    /\ bill = None /\ page # None /\ p \in DOMAIN page.prices
    /\ \/ /\ cart[p] = None
          /\ CartBecomes([cart EXCEPT ![p] =
                [quantity |-> 1, unitPrice |-> page.prices[p], asOf |-> page.asOf]])
       \/ /\ cart[p] # None
          /\ CartBecomes([cart EXCEPT ![p].quantity = cart[p].quantity + 1])

UpdateQuantity(p, n) ==
    /\ bill = None /\ cart[p] # None /\ n # cart[p].quantity
    /\ CartBecomes([cart EXCEPT ![p] = IF n = 0 THEN None
                                       ELSE [cart[p] EXCEPT !.quantity = n]])

-----------------------------------------------------------------------------
\* The coupon

\* handleApplyCoupon up to its await; the button is disabled during it.
AskForCoupon ==
    /\ bill = None /\ InCart # {} /\ applied = None /\ preview = None
    /\ preview' = [cart |-> ItemsFingerprint(cart), answered |-> FALSE]
    /\ UNCHANGED <<now, shop, offer, cache, visit, page, cart, applied, bill,
                   coupons, changes>>

\* An error, as for a product no longer on sale, ends like a refusal.
ValidateCouponPreview ==
    /\ preview # None /\ ~preview.answered
    /\ preview' = [cart |-> preview.cart, answered |-> TRUE,
                   discount |-> IF Ordered(preview.cart) \subseteq OnSale
                                THEN ValidateCoupon(Subtotal(preview.cart)) ELSE None,
                   asOf |-> Today, offer |-> offer]
    /\ UNCHANGED <<now, shop, offer, cache, visit, page, cart, applied, bill,
                   coupons, changes>>

\* The cart may have changed since the request left.
PreviewLands ==
    /\ preview # None /\ preview.answered
    /\ preview' = None
    /\ applied' = IF preview.discount = None THEN None ELSE StillApplies(preview, cart)
    /\ UNCHANGED <<now, shop, offer, cache, visit, page, cart, bill, coupons, changes>>

RemoveCoupon ==
    /\ bill = None /\ applied # None /\ applied' = None
    /\ UNCHANGED <<now, shop, offer, cache, visit, page, cart, preview, bill,
                   coupons, changes>>

-----------------------------------------------------------------------------
\* The order

\* The form does not submit without a row and a seat.
OrderSource == DeriveSource(visit.claim, TRUE)

\* createOrder up to its insert: the lines are priced, the coupon is validated
\* again.  A request that is refused changes nothing.  The sheet is locked from
\* the submission on.
PriceOrder ==
    LET quantity == ItemsFingerprint(cart)
        subtotal == Subtotal(quantity)
        coupon   == IF applied = None THEN 0 ELSE ValidateCoupon(subtotal)
    IN /\ bill = None /\ InCart # {} /\ InCart \subseteq OnSale
       /\ coupon # None
       /\ applied # None => UnderWay < MaxUnderWay
       /\ bill' = [total |-> Total(subtotal, ProductDiscount(quantity, OrderSource)
                                                + coupon),
                   coupon |-> applied # None, placed |-> FALSE]
       /\ UNCHANGED <<now, shop, offer, cache, visit, page, cart, preview, applied,
                      coupons, changes>>

\* The insert and its commit.
CreateOrder ==
    /\ bill # None /\ ~bill.placed /\ bill' = [bill EXCEPT !.placed = TRUE]
    /\ open' = IF bill.coupon THEN open + 1 ELSE open
    /\ UNCHANGED <<now, shop, offer, cache, visit, page, cart, preview, applied,
                   counted, givenUp, redeemed, overdraft, changes>>

\* The transaction fails: the sheet is open again.
OrderRolledBack ==
    /\ bill # None /\ ~bill.placed /\ bill' = None
    /\ UNCHANGED <<now, shop, offer, cache, visit, page, cart, preview, applied,
                   coupons, changes>>

NextCustomer(v) ==
    /\ bill # None /\ bill.placed /\ NewVisit(v)
    /\ UNCHANGED <<now, shop, offer, cache, coupons, changes>>

Next ==
    \/ Tick
    \/ \E s \in Shops : EditCatalogue(s)
    \/ \E o \in Offers \cup {None} : EditOffer(o)
    \/ \E s \in Sources : Expire(s)
    \/ OthersCount \/ OthersCommit \/ OthersRollBack
    \/ CouponOrderPaid \/ CouponOrderGivenUp \/ GivenUpReopened
    \/ CouponOrderRefunded
    \/ \E v \in Visits : OthersBrowse(v)
    \/ LoadProducts
    \/ \E p \in Products : AddItem(p)
    \/ \E p \in Products, n \in 0..MaxPieces : UpdateQuantity(p, n)
    \/ AskForCoupon \/ ValidateCouponPreview \/ PreviewLands \/ RemoveCoupon
    \/ PriceOrder \/ CreateOrder \/ OrderRolledBack
    \/ \E v \in Visits : NextCustomer(v)

Spec == Init /\ [][Next]_vars

-----------------------------------------------------------------------------
\* Properties

Origins == [shop : Shops, day : WeekDays]

Bills == [total : Nat, coupon : BOOLEAN, placed : BOOLEAN]

\* Every variable keeps its type, and no combination of discounts makes a
\* total negative: pricing.service clamps per piece, coupon.service per
\* subtotal, createOrder their sum.
TypeOK ==
    /\ now \in Instants /\ shop \in Shops /\ offer \in Offers \cup {None}
    /\ \A s \in Sources, l \in {page} \cup {cache[c] : c \in Sources} : l # None =>
        l.asOf \in Origins /\ l.prices \in [DOMAIN l.prices -> Nat]
    /\ DOMAIN cache = Sources /\ visit \in Visits
    /\ cart \in [Products -> Lines \cup {None}]
    /\ \A c \in {preview, applied} : c # None =>
        c.cart \in [Products -> 0..MaxPieces]
    /\ applied # None => applied.discount \in Nat \ {0}
    /\ bill \in Bills \cup {None}
    /\ {counted, open, givenUp, redeemed, overdraft} \subseteq Nat
    /\ UnderWay <= MaxUnderWay /\ changes \in 0..MaxChanges

\* An order is charged what the sheet showed (CheckoutDrawer estimatedTotal,
\* consumer.service createOrder), if the lines, the coupon and the order were
\* priced by one configuration, on one business day, for one channel.
CardIsBill ==
    [][/\ bill = None /\ bill' # None
       /\ OrderSource = DeriveSource(visit.claim, visit.seat)
       /\ \A p \in InCart : cart[p].asOf = Today
       /\ applied # None => applied.asOf = Today /\ applied.offer = offer
       => bill'.total = EstimatedTotal]_vars

\* A coupon's limit is exceeded by no more than the orders that were under way
\* when it was reached: past the check, unpaid, or written off and reopened
\* since.  memory.md accepts "at most the number of orders racing".
CapBoundsRedemptions ==
    redeemed >= maxTxnLimit => redeemed + UnderWay <= maxTxnLimit + overdraft

\* Windows that are refused beside another exactly when some instant is in
\* both, as the catalogue reads them.
ReadAsWritten ==
    {w \in Windows : \A other \in Windows :
        Clashes(other, w) <=> \E t \in Instants : OpenAt(other, t) /\ OpenAt(w, t)}

\* "what the writer rejects and what the reader honours cannot drift apart":
\* availability.service assertNoOverlap and pricing.service unavailableReason,
\* on a clock that wraps at midnight and a day that does not begin there.
WriterAndReaderAgree ==
    \A p \in Products : shop.hours[p] # None => shop.hours[p] \subseteq ReadAsWritten
=============================================================================
