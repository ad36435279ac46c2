------------------------------- MODULE ShowSync -------------------------------
(***************************************************************************)
(* Mirroring the schedules of the cinemas' ticketing systems (POS) into    *)
(* `session`, the table customers choose a show from.  An outside          *)
(* scheduler starts a pass over every integration, whether or not the last *)
(* pass has ended.  Inside a transaction the rows a pass has written are   *)
(* locked to every other until it ends, so two of one cinema take effect   *)
(* one after the other, or one is rolled back: a duplicate key, a deadlock.*)
(***************************************************************************)
EXTENDS Naturals, Sequences

CONSTANTS
    Cinemas,
    Integrations,  \* the active ones, in the order a pass takes them
    Unusable,      \* cinemas without an adapter or a code, or with a dead POS
    Shows,         \* external session ids: two cinemas may use the same
    Passes,        \* bound: passes under way at a time
    LastDay,       \* bound: days a behaviour lasts
    StartDays,     \* bound: the days shows are sold for
    FirstSchedule, \* what a POS sells at first
    FirstSessions, \* what session may hold at first
    MaxChanges,    \* bound: changes of the POS's schedule
    None

\* UQ_pos_integrations_active_cinema: one active integration a cinema.  With
\* no integration a pass ends as it begins.
ASSUME OneIntegrationACinema ==
    /\ Integrations \in Seq(Cinemas) /\ Integrations # <<>>
    /\ \A i, j \in DOMAIN Integrations : Integrations[i] = Integrations[j] => i = j

ASSUME BoundsAreNumbers ==
    LastDay \in Nat /\ StartDays \subseteq Nat /\ MaxChanges \in Nat

SYNC_WINDOW_DAYS == 2

Screenings == [startsAt : StartDays, cancelled : BOOLEAN]

ASSUME FirstScheduleIsOne == FirstSchedule \in [Shows -> Screenings \cup {None}]

\* "other": not a status the sync writes, but the client loads rows too.
SessionRows == [startsAt : StartDays, status : {"O", "C", "other"}]

ASSUME FirstSessionsAreRows ==
    FirstSessions \subseteq [Cinemas -> [Shows -> SessionRows \cup {None}]]

\* The answer of a POS: what it lists in the window, what of it cannot be
\* a row of session, for want of an end time or of a number for its id.
\* `sold` is history: all the POS sold at that moment.
Feeds == [shows : [Shows -> Screenings \cup {None}], unmappable : SUBSET Shows,
          sold : [Shows -> Screenings \cup {None}]]

ASSUME NoneIsNothing == None \notin Screenings \cup SessionRows \cup Feeds

VARIABLES
    day,      \* the clock
    changes,  \* how often a schedule has changed
    pos,      \* what each POS has on sale
    session,  \* the table, by cinema code and session id, as committed
    pass      \* each pass: its clock, its integration, the feed it holds

vars == <<day, changes, pos, session, pass>>

\* 0: not running.  Otherwise the integration it is at.
PassRecords == [at : 0..Len(Integrations), from : 0..LastDay,
                feed : Feeds \cup {None}]

TypeOK ==
    /\ day \in 0..LastDay /\ changes \in 0..MaxChanges
    /\ pos \in [Cinemas -> [Shows -> Screenings \cup {None}]]
    /\ session \in [Cinemas -> [Shows -> SessionRows \cup {None}]]
    /\ pass \in [Passes -> PassRecords]

Nowhere == [h \in Shows |-> None]

Resting == [at |-> 0, from |-> 0, feed |-> None]

Init ==
    /\ day = 0 /\ changes = 0
    /\ pos = [c \in Cinemas |-> FirstSchedule]
    /\ session \in FirstSessions
    /\ pass = [p \in Passes |-> Resting]

-----------------------------------------------------------------------------
\* The world

Tick == /\ day < LastDay /\ day' = day + 1
        /\ UNCHANGED <<changes, pos, session, pass>>

\* A show is put on sale, moved, cancelled or withdrawn.  What an unusable
\* POS sells nobody asks.
ScheduleChanges(c, h) ==
    /\ changes < MaxChanges /\ changes' = changes + 1
    /\ \E s \in (Screenings \cup {None}) \ {pos[c][h]} :
        pos' = [pos EXCEPT ![c][h] = s]
    /\ UNCHANGED <<day, session, pass>>

-----------------------------------------------------------------------------
\* A pass

\* computeWindow, its ends included.
InWindow(from, t) == from <= t /\ t <= from + SYNC_WINDOW_DAYS

Listed(schedule, from) == [h \in Shows |->
    IF schedule[h] # None /\ InWindow(from, schedule[h].startsAt)
    THEN schedule[h] ELSE None]

Begin(p) ==
    /\ pass[p].at = 0
    /\ pass' = [pass EXCEPT ![p] = [at |-> 1, from |-> day, feed |-> None]]
    /\ UNCHANGED <<day, changes, pos, session>>

Asks(p, c) ==
    /\ pass[p].at \in DOMAIN Integrations
    /\ c = Integrations[pass[p].at]
    /\ pass[p].feed = None

\* Mutant: the pass goes on past its last integration.
AdvancedPastTheEnd(p) ==
    [pass EXCEPT ![p] = [at |-> pass[p].at + 1, from |-> pass[p].from, feed |-> None]]

\* On to the next integration, or to the exit of the script.
Advanced(p) ==
    [pass EXCEPT ![p] =
        IF pass[p].at = Len(Integrations) THEN Resting
        ELSE [at |-> pass[p].at + 1, from |-> pass[p].from, feed |-> None]]

\* Mutant: the first failure ends the pass.
FetchFailsForAll(p, c) ==
    /\ Asks(p, c)
    /\ pass' = [pass EXCEPT ![p] = Resting]
    /\ UNCHANGED <<day, changes, pos, session>>

\* No adapter, no answer, an answer that is malformed or has no code to go to.
FetchFails(p, c) ==
    /\ Asks(p, c)
    /\ pass' = Advanced(p)
    /\ UNCHANGED <<day, changes, pos, session>>

Fetched(p, c, shows, unmappable) ==
    /\ Asks(p, c) /\ c \notin Unusable
    /\ pass' = [pass EXCEPT ![p].feed =
           [shows |-> shows, unmappable |-> unmappable, sold |-> pos[c]]]
    /\ UNCHANGED <<day, changes, pos, session>>

\* Everything in the window, some of it perhaps not to be represented.
FetchShows(p, c, unmappable) ==
    /\ \A h \in unmappable : Listed(pos[c], pass[p].from)[h] # None
    /\ Fetched(p, c, Listed(pos[c], pass[p].from), unmappable)

\* 200 with an empty body.
FetchNothing(p, c) == Fetched(p, c, Nowhere, {})

\* What a pass reconciles against.
Seen(feed) == {h \in Shows : feed.shows[h] # None} \ feed.unmappable

\* toSessionRow
SessionRow(screening) ==
    [startsAt |-> screening.startsAt,
     status |-> IF screening.cancelled THEN "C" ELSE "O"]

\* Mutant: a show already there keeps its status.
RowOfTheFirstFeed(old, screening) ==
    IF old = None THEN SessionRow(screening)
    ELSE [old EXCEPT !.startsAt = screening.startsAt]

\* The upsert of one show.
Upserted(old, screening) == SessionRow(screening)

\* Mutant: reconciles whatever the feed was worth.
ReconcilesAlways(feed) == TRUE

\* "REFUSE TO RECONCILE ON AN INCOMPLETE VIEW"
Reconciles(feed) == feed.unmappable = {} /\ Seen(feed) # {}

Open(rows, h) == rows[h] # None /\ rows[h].status = "O"

\* The table of one cinema after the transaction of a feed.
AfterSync(rows, feed, from) == [h \in Shows |->
    IF h \in Seen(feed) THEN Upserted(rows[h], feed.shows[h])
    ELSE IF Reconciles(feed) /\ Open(rows, h) /\ InWindow(from, rows[h].startsAt)
    THEN [rows[h] EXCEPT !.status = "C"]
    ELSE rows[h]]

Writes(p, c) ==
    /\ pass[p].at \in DOMAIN Integrations
    /\ c = Integrations[pass[p].at]
    /\ pass[p].feed # None

Commit(p, c) ==
    /\ Writes(p, c)
    /\ session' = [session EXCEPT ![c] = AfterSync(@, pass[p].feed, pass[p].from)]
    /\ pass' = Advanced(p)
    /\ UNCHANGED <<day, changes, pos>>

\* The transaction fails; syncAllIntegrations goes on.
RollBack(p, c) ==
    /\ Writes(p, c)
    /\ pass' = Advanced(p)
    /\ UNCHANGED <<day, changes, pos, session>>

\* The process of the script is stopped.
Die(p) ==
    /\ pass[p].at # 0
    /\ pass' = [pass EXCEPT ![p] = Resting]
    /\ UNCHANGED <<day, changes, pos, session>>

Step(p, c) ==
    \/ FetchFails(p, c) \/ FetchNothing(p, c)
    \/ \E unmappable \in SUBSET Shows : FetchShows(p, c, unmappable)
    \/ Commit(p, c) \/ RollBack(p, c)

Next ==
    \/ Tick
    \/ \E c \in Cinemas \ Unusable, h \in Shows : ScheduleChanges(c, h)
    \/ \E p \in Passes : \/ Begin(p) \/ Die(p)
                         \/ \E c \in Cinemas : Step(p, c)

Spec == Init /\ [][Next]_vars

\* A pass that read all of a cinema's schedule, as it is now, commits.
CommitWhole(p, c) ==
    /\ Writes(p, c) /\ pass[p].from = day /\ pass[p].feed.unmappable = {}
    /\ pass[p].feed.shows = Listed(pos[c], day)
    /\ Commit(p, c)

\* A pass of today gets past c: it reads all of it, or fails if it must.
GetsPast(c) == \E p \in Passes :
    /\ pass[p].from = day
    /\ IF c \in Unusable THEN FetchFails(p, c) ELSE FetchShows(p, c, {})

(***************************************************************************)
(* The scheduler starts passes, a pass ends, and not every pass dies, not  *)
(* every answer of a POS in order is useless, not every transaction fails. *)
(***************************************************************************)
ServedSpec ==
    /\ Spec
    /\ WF_vars(\E p \in Passes : Begin(p))
    /\ \A p \in Passes : WF_vars(Die(p) \/ \E c \in Cinemas : Step(p, c))
    /\ \A c \in Cinemas : SF_vars(GetsPast(c))
    /\ \A c \in Cinemas \ Unusable : SF_vars(\E p \in Passes : CommitWhole(p, c))

-----------------------------------------------------------------------------
\* Properties

(***************************************************************************)
(* "A provider outage must never look like 'no shows'": a session closes   *)
(* only if, when the pass that closes it asked, the POS had cancelled,     *)
(* moved or withdrawn that show, whatever was skipped, empty, late or      *)
(* another cinema's.                                                       *)
(***************************************************************************)
ClosesOnlyWhatThePosDropped ==
    [][\A c \in Cinemas, h \in Shows :
        Open(session[c], h) /\ ~Open(session'[c], h) =>
            \E p \in Passes :
                /\ Writes(p, c)
                /\ pass[p].feed.sold[h] # [startsAt |-> session[c][h].startsAt,
                                  cancelled |-> FALSE]]_vars

(***************************************************************************)
(* The table agrees with the POS over the window that is ahead.            *)
(***************************************************************************)
Mirrors(c) ==
    LET ahead == Listed(pos[c], day)
    IN  ahead # Nowhere =>
            \A h \in Shows :
                IF ahead[h] # None THEN session[c][h] = SessionRow(ahead[h])
                ELSE Open(session[c], h) => ~InWindow(day, session[c][h].startsAt)

(***************************************************************************)
(* Once a POS's schedule rests, the table comes to agree with it and stays *)
(* so, though other integrations fail before it in every pass, passes      *)
(* overlap, late ones write old feeds and some feeds are useless.          *)
(***************************************************************************)
ScheduleIsMirrored == \A c \in Cinemas \ Unusable : <>[]Mirrors(c)

=============================================================================
