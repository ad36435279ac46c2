----------------------------- MODULE KitchenBoard -----------------------------
(***************************************************************************)
(* The kitchen screen's store over a server it shares with other screens:  *)
(* polls, loads forced by the user, transitions, sign-out and failures.    *)
(*                                                                         *)
(* A load fetches the two lanes with two requests; each is answered from   *)
(* the server's rows at a moment of its own.  requestToken is only ever    *)
(* compared with the token of a load, so `newest` names the load that      *)
(* holds the current token, None when it is out or the token was bumped.   *)
(***************************************************************************)
EXTENDS Naturals, FiniteSets

CONSTANTS
    Orders,
    Loads,       \* bound: calls of load() outstanding at a time
    Moves,       \* bound: calls of transition() outstanding at a time
    MaxCalls,    \* bound: calls of both outstanding when another starts
    Filters,     \* "all" and the statuses the user may filter by
    MaxTrouble,  \* bound: changes of query, failed calls and sign-outs
    None

\* The server's statuses as the kitchen sees them: an order not yet paid is
\* hidden, a refunded or rejected one gone.
Active == {"confirmed", "preparing", "ready"}
Shown == Active \cup {"delivered"}
Statuses == Shown \cup {"hidden", "gone"}

\* nextAction: the one step a button offers.
NextAction == [s \in Active |->
    IF s = "confirmed" THEN "preparing"
    ELSE IF s = "preparing" THEN "ready" ELSE "delivered"]

\* How far along the workflow a card is.
Rank == [s \in Shown |->
    IF s = "confirmed" THEN 1 ELSE IF s = "preparing" THEN 2
    ELSE IF s = "ready" THEN 3 ELSE 4]

ASSUME FiltersAreStatuses == "all" \in Filters /\ Filters \subseteq Shown \cup {"all"}

ASSUME NoneIsNoCall == None \notin Loads \cup Moves \cup Statuses

ASSUME BoundsAreNaturals == MaxTrouble \in Nat /\ MaxCalls \in Nat

VARIABLES
    status,     \* the server's rows
    active, completed,  \* the lanes: the status each order's card shows
    statusFilter,
    error,      \* the board is flagged as stale
    pending,    \* orders whose button is locked
    inFlight, newest,   \* the module-level flag and token
    load,       \* loads outstanding: their query and what they were answered
    move,       \* transitions outstanding
    signedIn,
    lastSync,   \* history: how far along the last load to land had an order,
                \* kept as long as another load is outstanding
    trouble,
    wasReset    \* history: the user has signed out at least once

board == <<active, completed, error>>
calls == <<load, move>>
history == <<lastSync, trouble, wasReset>>
vars == <<status, active, completed, statusFilter, error, pending, inFlight,
          newest, load, move, signedIn, lastSync, trouble, wasReset>>

Lanes == [Orders -> Shown \cup {None}]
Empty == [o \in Orders |-> None]

LoadCalls == [filter : Filters, active : Lanes \cup {None},
              completed : Lanes \cup {None}]

\* "moving": the server has read the order and not written it yet.
\* "committed": the transaction is through, the order not read back yet.
Answers == Shown \cup {"moving", "committed", "refused"}

MoveCalls == [order : Orders, target : Shown,
              answer : Answers \cup {None}]

ASSUME NoneIsNoRecord == None \notin LoadCalls /\ None \notin MoveCalls

TypeOK ==
    /\ status \in [Orders -> Statuses]
    /\ active \in Lanes /\ completed \in Lanes
    /\ statusFilter \in Filters
    /\ error \in BOOLEAN
    /\ pending \in SUBSET Orders
    /\ inFlight \in BOOLEAN
    /\ newest \in Loads \cup {None}
    /\ load \in [Loads -> LoadCalls \cup {None}]
    /\ move \in [Moves -> MoveCalls \cup {None}]
    /\ signedIn \in BOOLEAN
    /\ lastSync \in [Orders -> 0..4]
    /\ trouble \in 0..MaxTrouble
    /\ wasReset \in BOOLEAN

Init ==
    /\ status = [o \in Orders |-> "hidden"]
    /\ active = Empty /\ completed = Empty
    /\ statusFilter = "all"
    /\ error = FALSE
    /\ pending = {}
    /\ inFlight = FALSE /\ newest = None
    /\ load = [l \in Loads |-> None]
    /\ move = [m \in Moves |-> None]
    /\ signedIn = TRUE
    /\ lastSync = [o \in Orders |-> 0]
    /\ trouble = 0
    /\ wasReset = FALSE

Trouble == trouble < MaxTrouble /\ trouble' = trouble + 1

-----------------------------------------------------------------------------
\* The server.

\* listKitchenOrders: what a lane holds now.  A status asked for replaces the
\* lane's statuses.
ActiveLane(filter) ==
    LET wanted == IF filter = "all" THEN Active ELSE {filter}
    IN  [o \in Orders |-> IF status[o] \in wanted THEN status[o] ELSE None]

CompletedLane ==
    [o \in Orders |-> IF status[o] = "delivered" THEN "delivered" ELSE None]

\* Payments, the Dashboard and other kitchen screens move an order.
OthersMove(o) ==
    /\ \E next \in Statuses :
          /\ \/ status[o] = "hidden" /\ next \in Shown
             \/ status[o] \in Active /\ next \in {NextAction[status[o]], "gone"}
             \/ status[o] = "delivered" /\ next = "gone"
          /\ status' = [status EXCEPT ![o] = next]
    /\ UNCHANGED <<board, statusFilter, pending, inFlight, newest, calls,
                   signedIn, history>>

\* updateKitchenOrderStatus reads the order: there already, a legal move, or
\* refused with 409 or 404.
ReadOrder(m) ==
    LET o == move[m].order
        target == move[m].target
        legal == status[o] \in Active /\ NextAction[status[o]] = target
    IN  /\ move[m] # None /\ move[m].answer = None
        /\ move' = [move EXCEPT ![m].answer =
              IF status[o] = target THEN "committed" ELSE IF legal THEN "moving" ELSE "refused"]
        /\ UNCHANGED status

\* Its conditional UPDATE compares the status alone: 409 when another device
\* moved or rejected the order, but through when it was refunded.
CompareAndSet(m) ==
    LET o == move[m].order
        target == move[m].target
    IN  /\ move[m] # None /\ move[m].answer = "moving"
        /\ \/ /\ status[o] \in Active /\ NextAction[status[o]] = target
              /\ status' = [status EXCEPT ![o] = target]
              /\ move' = [move EXCEPT ![m].answer = "committed"]
           \/ /\ status[o] \in Active => NextAction[status[o]] # target
              /\ move' = [move EXCEPT ![m].answer = "refused"]
              /\ UNCHANGED status
           \/ /\ status[o] = "gone"
              /\ move' = [move EXCEPT ![m].answer = "committed"]
              /\ UNCHANGED status

ServeMove(m) ==
    /\ ReadOrder(m) \/ CompareAndSet(m)
    /\ UNCHANGED <<board, statusFilter, pending, inFlight, newest, load,
                   signedIn, history>>

\* Mutant: the read-back does not look at eligibility.
AnyStatus(o) == status[o]

\* getKitchenOrder: the order as it now is, 404 when it has left the board.
GetKitchenOrder(o) == IF status[o] \in Shown THEN status[o] ELSE "refused"

\* The answer is read back after the transaction.
ReadBack(m) ==
    /\ move[m] # None /\ move[m].answer = "committed"
    /\ move' = [move EXCEPT ![m].answer = GetKitchenOrder(move[m].order)]
    /\ UNCHANGED <<status, board, statusFilter, pending, inFlight, newest,
                   load, signedIn, history>>

ReadActive(l) ==
    /\ load[l] # None /\ load[l].active = None
    /\ load' = [load EXCEPT ![l].active = ActiveLane(load[l].filter)]
    /\ UNCHANGED <<status, board, statusFilter, pending, inFlight, newest,
                   move, signedIn, history>>

ReadCompleted(l) ==
    /\ load[l] # None /\ load[l].completed = None
    /\ load' = [load EXCEPT ![l].completed = CompletedLane]
    /\ UNCHANGED <<status, board, statusFilter, pending, inFlight, newest,
                   move, signedIn, history>>

-----------------------------------------------------------------------------
\* load().

\* Calls are interchangeable: a new one goes by the first free name.
IsFree(call, c) == call[c] = None /\ c = CHOOSE k \in DOMAIN call : call[k] = None

Room ==
    Cardinality({l \in Loads : load[l] # None})
        + Cardinality({m \in Moves : move[m] # None}) < MaxCalls

\* A call that gets past the gate takes the token.
StartLoad(l, filter) ==
    /\ IsFree(load, l)
    /\ load' = [load EXCEPT ![l] = [filter |-> filter, active |-> None,
                                    completed |-> None]]
    /\ newest' = l
    /\ inFlight' = TRUE

\* Rule 2: a tick that finds a load in flight does nothing.
Poll(l) ==
    /\ signedIn /\ ~inFlight /\ Room
    /\ StartLoad(l, statusFilter)
    /\ UNCHANGED <<status, board, statusFilter, pending, move, signedIn, history>>

\* Mutant: a change of query waits for the next poll when one is in flight.
LoadUnlessBusy(l, filter) ==
    IF inFlight THEN UNCHANGED <<load, newest, inFlight>> ELSE StartLoad(l, filter)

ForceLoad(l, filter) == StartLoad(l, filter)

\* setSearch, setStatusFilter, setSort: all three force a load.
SetStatusFilter(l, filter) ==
    /\ signedIn /\ Room
    /\ Trouble
    /\ statusFilter' = filter
    /\ ForceLoad(l, filter)
    /\ UNCHANGED <<status, board, pending, move, signedIn, lastSync, wasReset>>

\* Mutant: whichever response comes, comes.
AnyTokenIsCurrent(l) == TRUE

\* Rule 1: only the newest load may touch the board.
HoldsToken(l) == newest = l

\* Mutant: the flag is cleared after a success only.
ReopenAfterSuccess(l, ok) ==
    IF HoldsToken(l) /\ ok THEN inFlight' = FALSE /\ newest' = None
    ELSE UNCHANGED <<inFlight, newest>>

\* finally: only the newest load owns the gate.
Reopen(l, ok) ==
    IF HoldsToken(l) THEN inFlight' = FALSE /\ newest' = None
    ELSE UNCHANGED <<inFlight, newest>>

\* For the history: where a load shows an order, as before if nowhere.
Furthest(answer, o) ==
    IF answer.active[o] # None THEN Rank[answer.active[o]]
    ELSE IF answer.completed[o] # None THEN Rank[answer.completed[o]]
    ELSE lastSync[o]

\* Promise.all: both lanes are in.
Answered(l) == load[l] # None /\ load[l].active # None /\ load[l].completed # None

EndLoad(l, ok) ==
    /\ load' = [load EXCEPT ![l] = None]
    /\ Reopen(l, ok)
    /\ lastSync' = [o \in Orders |->
          IF \A k \in Loads \ {l} : load[k] = None THEN 0
          ELSE IF ok /\ HoldsToken(l) THEN Furthest(load[l], o)
          ELSE lastSync[o]]

LoadLands(l) ==
    /\ Answered(l)
    /\ IF HoldsToken(l)
       THEN active' = load[l].active /\ completed' = load[l].completed /\ error' = FALSE
       ELSE UNCHANGED board
    /\ EndLoad(l, TRUE)
    /\ UNCHANGED <<status, statusFilter, pending, move, signedIn, trouble,
                   wasReset>>

\* A timeout, a 5xx or, when the session has expired, a 401.
LoadFails(l) ==
    /\ load[l] # None
    /\ Trouble
    /\ \/ error' = (error \/ HoldsToken(l)) /\ UNCHANGED signedIn
       \/ signedIn' = (signedIn /\ ~HoldsToken(l)) /\ UNCHANGED error
    /\ EndLoad(l, FALSE)
    /\ UNCHANGED <<status, active, completed, statusFilter, pending, move,
                   wasReset>>

-----------------------------------------------------------------------------
\* transition().

\* Mutant: the button locks only when the answer is in.
NeverLocked(o) == FALSE

Locked(o) == o \in pending

Press(m, o) ==
    /\ signedIn /\ Room
    /\ active[o] \in Active
    /\ ~Locked(o)
    /\ IsFree(move, m)
    /\ pending' = pending \cup {o}
    /\ move' = [move EXCEPT ![m] = [order |-> o, target |-> NextAction[active[o]],
                                    answer |-> None]]
    /\ UNCHANGED <<status, board, statusFilter, inFlight, newest, load,
                   signedIn, history>>

\* applyOrderUpdate: the card goes to the lane of the status that came back.
ApplyOrderUpdate(o, s) ==
    /\ active' = [active EXCEPT ![o] = IF s = "delivered" THEN None ELSE s]
    /\ completed' = [completed EXCEPT ![o] = IF s = "delivered" THEN s ELSE None]
    /\ error' = FALSE

\* Mutant: an exception leaves the button locked.
UnlockAfterSuccess(m) ==
    pending' = IF move[m].answer \in Shown THEN pending \ {move[m].order}
               ELSE pending

\* finally: the button is free again.
Unlock(m) == pending' = pending \ {move[m].order}

MoveLands(m) ==
    /\ move[m] # None /\ move[m].answer \in Shown
    /\ ApplyOrderUpdate(move[m].order, move[m].answer)
    /\ Unlock(m)
    /\ move' = [move EXCEPT ![m] = None]
    /\ UNCHANGED <<status, statusFilter, inFlight, newest, load, signedIn, history>>

\* 409 or 404: re-read, unless a load is in flight already.
MoveRefused(m) ==
    /\ move[m] # None /\ move[m].answer = "refused"
    /\ error' = TRUE
    /\ Unlock(m)
    /\ move' = [move EXCEPT ![m] = None]
    /\ IF inFlight THEN UNCHANGED <<load, newest, inFlight>>
       ELSE \E l \in Loads : StartLoad(l, statusFilter)
    /\ UNCHANGED <<status, active, completed, statusFilter, signedIn, history>>

\* The answer is lost, whether or not the server moved the order, or is 401.
MoveFails(m) ==
    /\ move[m] # None
    /\ Trouble
    /\ \/ error' = TRUE /\ UNCHANGED signedIn
       \/ signedIn' = FALSE /\ UNCHANGED error
    /\ Unlock(m)
    /\ move' = [move EXCEPT ![m] = None]
    /\ UNCHANGED <<status, active, completed, statusFilter, inFlight, newest,
                   load, lastSync, wasReset>>

-----------------------------------------------------------------------------
\* The session.

\* handleSignOut: reset the board, then sign out.
SignOut ==
    /\ signedIn
    /\ Trouble
    /\ newest' = None /\ inFlight' = FALSE
    /\ active' = Empty /\ completed' = Empty
    /\ statusFilter' = "all"
    /\ error' = FALSE
    /\ pending' = {}
    /\ signedIn' = FALSE
    /\ wasReset' = TRUE
    /\ UNCHANGED <<status, calls, lastSync>>

SignIn ==
    /\ ~signedIn
    /\ signedIn' = TRUE
    /\ UNCHANGED <<status, board, statusFilter, pending, inFlight, newest,
                   calls, history>>

-----------------------------------------------------------------------------
Next ==
    \/ \E o \in Orders : OthersMove(o) \/ \E m \in Moves : Press(m, o)
    \/ \E l \in Loads :
          \/ Poll(l) \/ ReadActive(l) \/ ReadCompleted(l)
          \/ LoadLands(l) \/ LoadFails(l)
          \/ \E filter \in Filters : SetStatusFilter(l, filter)
    \/ \E m \in Moves :
          ServeMove(m) \/ ReadBack(m) \/ MoveLands(m) \/ MoveRefused(m) \/ MoveFails(m)
    \/ SignOut \/ SignIn

Spec == Init /\ [][Next]_vars

\* The interval keeps firing, requests end (the client gives up after 15 s),
\* and promise callbacks run.
PollingSpec ==
    /\ Spec
    /\ WF_vars(\E l \in Loads : Poll(l))
    /\ \A l \in Loads :
          /\ WF_vars(ReadActive(l)) /\ WF_vars(ReadCompleted(l))
          /\ WF_vars(LoadLands(l))
    /\ \A m \in Moves :
          /\ WF_vars(ServeMove(m)) /\ WF_vars(ReadBack(m))
          /\ WF_vars(MoveLands(m)) /\ WF_vars(MoveRefused(m))

-----------------------------------------------------------------------------
\* Properties.

(***************************************************************************)
(* The load whose answer may still reach the board asks for what the user  *)
(* has on screen: a change of query can neither be swallowed by a poll in  *)
(* flight nor overtaken by its answer.  (The reason load takes `force`.)   *)
(***************************************************************************)
NewestLoadAsksTheCurrentQuery ==
    \A l \in Loads :
        (newest = l /\ load[l] # None) => load[l].filter = statusFilter

(***************************************************************************)
(* Rule 1 between loads: a load that lands never shows an order further    *)
(* back in the workflow than one that landed while it was outstanding.     *)
(***************************************************************************)
LoadsNeverGoBack ==
    [][ \A l \in Loads :
          (Answered(l) /\ HoldsToken(l) /\ load'[l] = None) =>
              \A o \in Orders : Furthest(load[l], o) >= lastSync[o] ]_load

(***************************************************************************)
(* A locked button belongs to a transition still under way, so that no     *)
(* failure, refusal or sign-out leaves an order nobody can advance.        *)
(***************************************************************************)
LockedMeansUnderWay ==
    \A o \in pending : \E m \in Moves : move[m] # None /\ move[m].order = o

(***************************************************************************)
(* The double-submit guard: until somebody signs out in the middle of one, *)
(* an order never has two transitions under way from this screen.          *)
(***************************************************************************)
OneTransitionPerOrder ==
    ~wasReset => \A m, n \in Moves :
        (move[m] # None /\ move[n] # None /\ move[m].order = move[n].order)
            => m = n

\* The board shows what the server holds.
InSync == active = ActiveLane(statusFilter) /\ completed = CompletedLane

(***************************************************************************)
(* Fail-soft polling converges: once the screen stays signed in and        *)
(* the server's rows come to rest, the board ends up showing them, through *)
(* failed polls, refused transitions, skipped re-reads and late answers.   *)
(***************************************************************************)
BoardConverges == <>[]signedIn => <>[]InSync

=============================================================================
