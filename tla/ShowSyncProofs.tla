--------------------------- MODULE ShowSyncProofs ---------------------------
(***************************************************************************)
(* What a pass may close, for every set of cinemas, shows and passes.      *)
(*                                                                         *)
(* A feed is never more than what the POS sold when it was asked: either   *)
(* the part of it in the window, or nothing (FeedsAreHonest).  That, and   *)
(* the refusal to reconcile on less than the whole of it, is the argument. *)
(***************************************************************************)
EXTENDS ShowSync, TLAPS

\* A pass holds what the POS had in the window, or an empty answer.
FeedsAreHonest ==
    \A p \in Passes : pass[p].feed # None =>
        \/ pass[p].feed.shows = Listed(pass[p].feed.sold, pass[p].from)
        \/ pass[p].feed.shows = Nowhere

IInv == TypeOK /\ FeedsAreHonest

Schedules == [Shows -> Screenings \cup {None}]

Tables == [Shows -> SessionRows \cup {None}]

-----------------------------------------------------------------------------
\* Types

\* The part of a schedule in a window is a schedule.
LEMMA ListedIsSchedule ==
    ASSUME NEW s \in Schedules, NEW from
    PROVE  Listed(s, from) \in Schedules
BY DEF Listed, Schedules

LEMMA NowhereIsSchedule == Nowhere \in Schedules
BY DEF Nowhere, Schedules

\* A transaction leaves rows of session.
LEMMA AfterSyncIsTable ==
    ASSUME NEW rows \in Tables, NEW feed \in Feeds, NEW from
    PROVE  AfterSync(rows, feed, from) \in Tables
<1> SUFFICES ASSUME NEW h \in Shows
             PROVE  AfterSync(rows, feed, from)[h] \in SessionRows \cup {None}
    BY DEF AfterSync, Tables
<1>1. CASE h \in Seen(feed)
    <2>1. feed.shows[h] \in Screenings
        BY <1>1 DEF Seen, Feeds
    <2> QED BY <1>1, <2>1
        DEF AfterSync, Upserted, SessionRow, SessionRows, Screenings
<1>2. CASE h \notin Seen(feed)
    <2>1. rows[h] \in SessionRows \cup {None}
        BY DEF Tables
    <2>2. rows[h] \in SessionRows => [rows[h] EXCEPT !.status = "C"] \in SessionRows
        BY DEF SessionRows
    <2> QED BY <1>2, <2>1, <2>2 DEF AfterSync, Open
<1> QED BY <1>1, <1>2

\* Wherever a pass goes next, it is a pass.
LEMMA AdvancedIsTyped ==
    ASSUME TypeOK, NEW p \in Passes, pass[p].at # 0
    PROVE  Advanced(p) \in [Passes -> PassRecords]
<1>1. Len(Integrations) \in Nat /\ pass \in [Passes -> PassRecords]
    BY OneIntegrationACinema DEF TypeOK
<1>2. Resting \in PassRecords
    BY <1>1, BoundsAreNumbers DEF Resting, PassRecords
<1>3. pass[p].at # Len(Integrations) =>
          [at |-> pass[p].at + 1, from |-> pass[p].from, feed |-> None] \in PassRecords
    BY <1>1 DEF PassRecords
<1> QED BY <1>1, <1>2, <1>3 DEF Advanced

\* What a fetch records is a feed.
LEMMA FetchedIsTyped ==
    ASSUME TypeOK, NEW p \in Passes, NEW c \in Cinemas,
           NEW shows \in Schedules, NEW unmappable \in SUBSET Shows,
           Fetched(p, c, shows, unmappable)
    PROVE  pass' \in [Passes -> PassRecords]
<1> DEFINE feed == [shows |-> shows, unmappable |-> unmappable, sold |-> pos[c]]
<1>1. feed \in Feeds
    BY DEF TypeOK, Feeds, Schedules
<1>2. [pass[p] EXCEPT !.feed = feed] \in PassRecords
    BY <1>1 DEF TypeOK, PassRecords
<1> QED BY <1>2 DEF Fetched, TypeOK

LEMMA StepIsTyped ==
    ASSUME TypeOK, NEW p \in Passes, NEW c \in Cinemas, Step(p, c)
    PROVE  TypeOK'
<1>1. CASE FetchFails(p, c)
    <2>1. Advanced(p) \in [Passes -> PassRecords]
        BY <1>1, AdvancedIsTyped, OneIntegrationACinema DEF FetchFails, Asks
    <2> QED BY <1>1, <2>1 DEF FetchFails, TypeOK
<1>2. CASE FetchNothing(p, c)
    <2>1. pass' \in [Passes -> PassRecords]
        BY <1>2, FetchedIsTyped, NowhereIsSchedule DEF FetchNothing
    <2> QED BY <1>2, <2>1 DEF FetchNothing, Fetched, TypeOK
<1>3. CASE \E unmappable \in SUBSET Shows : FetchShows(p, c, unmappable)
    <2> PICK unmappable \in SUBSET Shows : FetchShows(p, c, unmappable)
        BY <1>3
    <2>1. Listed(pos[c], pass[p].from) \in Schedules
        BY ListedIsSchedule DEF TypeOK, Schedules
    <2>2. pass' \in [Passes -> PassRecords]
        BY <2>1, FetchedIsTyped DEF FetchShows
    <2> QED BY <2>2 DEF FetchShows, Fetched, TypeOK
<1>4. CASE Commit(p, c)
    <2>1. Advanced(p) \in [Passes -> PassRecords]
        BY <1>4, AdvancedIsTyped, OneIntegrationACinema DEF Commit, Writes
    <2>2. pass[p].feed \in Feeds
        BY <1>4 DEF Commit, Writes, TypeOK, PassRecords
    <2>3. AfterSync(session[c], pass[p].feed, pass[p].from) \in Tables
        BY <2>2, AfterSyncIsTable DEF TypeOK, Tables
    <2> QED BY <1>4, <2>1, <2>3 DEF Commit, TypeOK, Tables
<1>5. CASE RollBack(p, c)
    <2>1. Advanced(p) \in [Passes -> PassRecords]
        BY <1>5, AdvancedIsTyped, OneIntegrationACinema DEF RollBack, Writes
    <2> QED BY <1>5, <2>1 DEF RollBack, TypeOK
<1> QED BY <1>1, <1>2, <1>3, <1>4, <1>5 DEF Step

LEMMA NextKeepsTypes == TypeOK /\ [Next]_vars => TypeOK'
<1> SUFFICES ASSUME TypeOK, [Next]_vars PROVE TypeOK'
    OBVIOUS
<1>1. CASE Tick
    BY <1>1, BoundsAreNumbers DEF Tick, TypeOK
<1>2. CASE \E c \in Cinemas \ Unusable, h \in Shows : ScheduleChanges(c, h)
    BY <1>2, BoundsAreNumbers DEF ScheduleChanges, TypeOK
<1>3. ASSUME NEW p \in Passes, Begin(p) PROVE TypeOK'
    <2>1. Len(Integrations) \in Nat /\ 1 <= Len(Integrations)
        BY OneIntegrationACinema
    <2> QED BY <1>3, <2>1 DEF Begin, TypeOK, PassRecords
<1>4. ASSUME NEW p \in Passes, Die(p) PROVE TypeOK'
    BY <1>4, BoundsAreNumbers, OneIntegrationACinema
       DEF Die, TypeOK, PassRecords, Resting
<1>5. ASSUME NEW p \in Passes, NEW c \in Cinemas, Step(p, c) PROVE TypeOK'
    BY <1>5, StepIsTyped
<1>6. CASE UNCHANGED vars
    BY <1>6 DEF vars, TypeOK
<1> QED BY <1>1, <1>2, <1>3, <1>4, <1>5, <1>6 DEF Next
-----------------------------------------------------------------------------
\* The invariant

LEMMA InitEstablishesIInv == Init => IInv
<1> SUFFICES ASSUME Init PROVE IInv
    OBVIOUS
<1>1. session \in [Cinemas -> [Shows -> SessionRows \cup {None}]]
    BY FirstSessionsAreRows DEF Init
<1>2. Resting \in PassRecords /\ Resting.feed = None
    BY OneIntegrationACinema, BoundsAreNumbers DEF Resting, PassRecords
<1>3. TypeOK
    BY <1>1, <1>2, BoundsAreNumbers, FirstScheduleIsOne DEF Init, TypeOK
<1>4. FeedsAreHonest
    BY <1>2 DEF Init, FeedsAreHonest
<1> QED BY <1>3, <1>4 DEF IInv

\* A pass that moves on holds no feed, and the others what they held.
LEMMA AdvancedIsHonest ==
    ASSUME IInv, NEW p \in Passes, pass' = Advanced(p)
    PROVE  FeedsAreHonest'
<1>1. \A q \in Passes : q # p => pass'[q] = pass[q]
    BY DEF Advanced, IInv, TypeOK
<1>2. pass'[p].feed = None
    BY DEF Advanced, IInv, TypeOK, Resting
<1> QED BY <1>1, <1>2 DEF IInv, FeedsAreHonest

LEMMA FetchedIsHonest ==
    ASSUME IInv, NEW p \in Passes, NEW c \in Cinemas,
           NEW shows, NEW unmappable,
           shows = Listed(pos[c], pass[p].from) \/ shows = Nowhere,
           Fetched(p, c, shows, unmappable)
    PROVE  FeedsAreHonest'
<1>1. \A q \in Passes : q # p => pass'[q] = pass[q]
    BY DEF Fetched, IInv, TypeOK
<1>2. /\ pass'[p].from = pass[p].from
      /\ pass'[p].feed.shows = shows
      /\ pass'[p].feed.sold = pos[c]
    BY DEF Fetched, IInv, TypeOK, PassRecords
<1> QED BY <1>1, <1>2 DEF IInv, FeedsAreHonest

LEMMA NextKeepsIInv == IInv /\ [Next]_vars => IInv'
<1> SUFFICES ASSUME IInv, [Next]_vars PROVE IInv'
    OBVIOUS
<1>1. TypeOK'
    BY NextKeepsTypes DEF IInv
<1>2. ASSUME UNCHANGED pass PROVE FeedsAreHonest'
    BY <1>2 DEF IInv, FeedsAreHonest
<1>3. ASSUME NEW p \in Passes, Begin(p) \/ Die(p) PROVE FeedsAreHonest'
    <2>1. \A q \in Passes : q # p => pass'[q] = pass[q]
        BY <1>3 DEF Begin, Die, IInv, TypeOK
    <2>2. pass'[p].feed = None
        BY <1>3 DEF Begin, Die, IInv, TypeOK, Resting
    <2> QED BY <2>1, <2>2 DEF IInv, FeedsAreHonest
<1>4. ASSUME NEW p \in Passes, NEW c \in Cinemas, Step(p, c)
      PROVE  FeedsAreHonest'
    <2>1. CASE FetchFails(p, c) \/ Commit(p, c) \/ RollBack(p, c)
        BY <2>1, AdvancedIsHonest DEF FetchFails, Commit, RollBack
    <2>2. CASE FetchNothing(p, c)
        BY <2>2, FetchedIsHonest DEF FetchNothing
    <2>3. CASE \E unmappable \in SUBSET Shows : FetchShows(p, c, unmappable)
        BY <2>3, FetchedIsHonest DEF FetchShows
    <2> QED BY <1>4, <2>1, <2>2, <2>3 DEF Step
<1>5. \/ UNCHANGED pass
      \/ \E p \in Passes : Begin(p) \/ Die(p) \/ \E c \in Cinemas : Step(p, c)
    BY DEF Next, Tick, ScheduleChanges, vars
<1>6. FeedsAreHonest'
    BY <1>2, <1>3, <1>4, <1>5
<1> QED BY <1>1, <1>6 DEF IInv

LEMMA IInvHolds == Spec => []IInv
<1>1. Init => IInv
    BY InitEstablishesIInv
<1>2. IInv /\ [Next]_vars => IInv'
    BY NextKeepsIInv
<1> QED BY <1>1, <1>2, PTL DEF Spec

-----------------------------------------------------------------------------
\* Closing a show

\* A transaction closes no show the POS sold, at that time, when asked.
LEMMA TransactionClosesDropped ==
    ASSUME NEW rows \in Tables, NEW feed \in Feeds, NEW from \in Nat,
           feed.shows = Listed(feed.sold, from) \/ feed.shows = Nowhere,
           NEW h \in Shows,
           Open(rows, h), ~Open(AfterSync(rows, feed, from), h)
    PROVE  feed.sold[h] # [startsAt |-> rows[h].startsAt, cancelled |-> FALSE]
<1> DEFINE sold == [startsAt |-> rows[h].startsAt, cancelled |-> FALSE]
<1>1. rows[h] # None /\ rows[h] \in SessionRows /\ rows[h].status = "O"
    BY DEF Open, Tables
<1>2. CASE h \in Seen(feed)
    <2>1. feed.shows[h] # None /\ feed.shows = Listed(feed.sold, from)
        BY <1>2 DEF Seen, Nowhere
    <2>2. feed.shows[h] = feed.sold[h] /\ feed.sold[h] \in Screenings
        BY <2>1 DEF Listed, Feeds
    <2>3. AfterSync(rows, feed, from)[h] = SessionRow(feed.shows[h])
        BY <1>2 DEF AfterSync, Upserted
    <2>4. SessionRow(feed.shows[h]) \in SessionRows
        BY <2>2 DEF SessionRow, SessionRows, Screenings
    <2>5. SessionRow(feed.shows[h]) # None
        BY <2>4, NoneIsNothing
    <2>6. SessionRow(feed.shows[h]).status # "O"
        BY <2>3, <2>5 DEF Open
    <2>7. feed.sold[h].cancelled
        BY <2>2, <2>6 DEF SessionRow
    <2> QED BY <2>7
<1>3. CASE h \notin Seen(feed)
    <2>1. Reconciles(feed) /\ InWindow(from, rows[h].startsAt)
        BY <1>1, <1>3 DEF AfterSync, Open
    <2>2. feed.unmappable = {} /\ feed.shows = Listed(feed.sold, from)
        BY <2>1 DEF Reconciles, Seen, Nowhere
    <2>3. Listed(feed.sold, from)[h] = None
        BY <1>3, <2>2 DEF Seen
    <2>4. ASSUME feed.sold[h] = sold PROVE FALSE
        <3>0. sold \in Screenings
            BY <1>1 DEF SessionRows, Screenings
        <3>1. sold # None
            BY <3>0, NoneIsNothing
        <3>2. InWindow(from, feed.sold[h].startsAt)
            BY <2>1, <2>4
        <3> QED BY <2>3, <2>4, <3>1, <3>2 DEF Listed
    <2> QED BY <2>4
<1> QED BY <1>2, <1>3

LEMMA StepClosesDropped ==
    IInv /\ [Next]_vars =>
        \A c \in Cinemas, h \in Shows :
            Open(session[c], h) /\ ~Open(session'[c], h) =>
                \E p \in Passes :
                    /\ Writes(p, c)
                    /\ pass[p].feed.sold[h] # [startsAt |-> session[c][h].startsAt,
                                               cancelled |-> FALSE]
<1> SUFFICES ASSUME IInv, [Next]_vars, NEW c \in Cinemas, NEW h \in Shows,
                    Open(session[c], h), ~Open(session'[c], h)
             PROVE  \E p \in Passes :
                        /\ Writes(p, c)
                        /\ pass[p].feed.sold[h] #
                              [startsAt |-> session[c][h].startsAt, cancelled |-> FALSE]
    OBVIOUS
<1>1. session'[c] # session[c]
    BY DEF Open
<1>2. PICK p \in Passes, d \in Cinemas : Commit(p, d)
    BY <1>1 DEF Next, vars, Tick, ScheduleChanges, Begin, Die, Step, FetchFails,
                FetchNothing, FetchShows, Fetched, RollBack
<1>3. c = d
    BY <1>1, <1>2 DEF Commit, IInv, TypeOK
<1>4. /\ Writes(p, c)
      /\ session'[c] = AfterSync(session[c], pass[p].feed, pass[p].from)
    BY <1>2, <1>3 DEF Commit, IInv, TypeOK
<1>5. pass[p].feed # None /\ pass[p].feed \in Feeds /\ pass[p].from \in Nat
    BY <1>4, BoundsAreNumbers DEF Writes, IInv, TypeOK, PassRecords
<1>6. \/ pass[p].feed.shows = Listed(pass[p].feed.sold, pass[p].from)
      \/ pass[p].feed.shows = Nowhere
    BY <1>5 DEF IInv, FeedsAreHonest
<1>7. session[c] \in Tables
    BY DEF IInv, TypeOK, Tables
<1>8. pass[p].feed.sold[h] # [startsAt |-> session[c][h].startsAt, cancelled |-> FALSE]
    BY <1>4, <1>5, <1>6, <1>7, TransactionClosesDropped
<1> QED BY <1>4, <1>8

-----------------------------------------------------------------------------
\* Theorems

(***************************************************************************)
(* Every variable keeps its type, for any cinemas, shows and passes.       *)
(***************************************************************************)
THEOREM SyncTyped == Spec => []TypeOK
<1>1. IInv => TypeOK
    BY DEF IInv
<1> QED BY <1>1, IInvHolds, PTL

(***************************************************************************)
(* showSync's refusal to reconcile on an incomplete view: no pass, however *)
(* late, partial or empty its feed, closes a show the POS sold when asked. *)
(***************************************************************************)
THEOREM OnlyDroppedShowsClose == Spec => ClosesOnlyWhatThePosDropped
<1>1. IInv /\ [Next]_vars =>
        [\A c \in Cinemas, h \in Shows :
            Open(session[c], h) /\ ~Open(session'[c], h) =>
                \E p \in Passes :
                    /\ Writes(p, c)
                    /\ pass[p].feed.sold[h] # [startsAt |-> session[c][h].startsAt,
                                               cancelled |-> FALSE]]_vars
    BY StepClosesDropped
<1> QED BY <1>1, IInvHolds, PTL DEF Spec, ClosesOnlyWhatThePosDropped

=============================================================================
