-------------------------- MODULE KitchenBoardProofs --------------------------
(***************************************************************************)
(* The kitchen board for any number of orders, loads and transitions       *)
(* outstanding, any filters and any number of disturbances.                *)
(***************************************************************************)
EXTENDS KitchenBoard, TLAPS

\* What the four groups of variables keep, so that a step is checked per group.
ServerTyped == status \in [Orders -> Statuses]

BoardTyped ==
    /\ active \in Lanes /\ completed \in Lanes
    /\ statusFilter \in Filters /\ error \in BOOLEAN

CallsTyped ==
    /\ pending \in SUBSET Orders
    /\ inFlight \in BOOLEAN /\ newest \in Loads \cup {None}
    /\ load \in [Loads -> LoadCalls \cup {None}]
    /\ move \in [Moves -> MoveCalls \cup {None}]

SessionTyped ==
    /\ signedIn \in BOOLEAN
    /\ lastSync \in [Orders -> 0..4]
    /\ trouble \in 0..MaxTrouble
    /\ wasReset \in BOOLEAN

Typed == ServerTyped /\ BoardTyped /\ CallsTyped /\ SessionTyped

\* Type correctness as the proof takes it apart.
LEMMA TypeParts == TypeOK <=> Typed
BY DEF TypeOK, Typed, ServerTyped, BoardTyped, CallsTyped, SessionTyped

\* nextAction stays among the statuses the board shows.
LEMMA NextActionShown == NextAction \in [Active -> Shown]
BY DEF NextAction, Active, Shown

\* The rank of a card is one of four.
LEMMA RankBounded == Rank \in [Shown -> 1..4]
BY DEF Rank, Shown, Active

\* What the server answers a lane with is a lane.
LEMMA LanesAreLanes ==
    ASSUME ServerTyped, NEW filter \in Filters
    PROVE  ActiveLane(filter) \in Lanes /\ CompletedLane \in Lanes
BY FiltersAreStatuses DEF ServerTyped, ActiveLane, CompletedLane, Lanes, Shown, Active, Statuses

-----------------------------------------------------------------------------
\* Type correctness, group by group.

\* A transaction moves an order to a status it asked for.
LEMMA ServeMoveTyped ==
    ASSUME ServerTyped, CallsTyped, NEW m \in Moves, ServeMove(m)
    PROVE  ServerTyped'
<1>1. move[m] \in MoveCalls
  BY DEF CallsTyped, ServeMove, ReadOrder, CompareAndSet
<1>2. move[m].order \in Orders /\ move[m].target \in Statuses
  BY <1>1 DEF MoveCalls, Statuses
<1> QED
  BY <1>2 DEF ServeMove, ReadOrder, CompareAndSet, ServerTyped

\* A load that starts is typed and takes the token.
LEMMA StartLoadTyped ==
    ASSUME CallsTyped, NEW l \in Loads, NEW filter \in Filters, StartLoad(l, filter)
    PROVE  /\ inFlight' \in BOOLEAN /\ newest' \in Loads \cup {None}
           /\ load' \in [Loads -> LoadCalls \cup {None}]
BY DEF StartLoad, CallsTyped, LoadCalls

\* A load that ends leaves its slot free, the flags and the history typed.
LEMMA EndLoadTyped ==
    ASSUME CallsTyped, SessionTyped, NEW l \in Loads, NEW ok \in BOOLEAN,
           ok => Answered(l), EndLoad(l, ok)
    PROVE  /\ inFlight' \in BOOLEAN /\ newest' \in Loads \cup {None}
           /\ load' \in [Loads -> LoadCalls \cup {None}]
           /\ lastSync' \in [Orders -> 0..4]
<1>1. inFlight' \in BOOLEAN /\ newest' \in Loads \cup {None}
  BY DEF EndLoad, Reopen, HoldsToken, CallsTyped
<1>2. load' \in [Loads -> LoadCalls \cup {None}]
  BY DEF EndLoad, CallsTyped
<1>3. ASSUME NEW o \in Orders, ok
      PROVE  Furthest(load[l], o) \in 0..4
  <2>1. load[l] \in LoadCalls /\ load[l].active # None /\ load[l].completed # None
    BY <1>3 DEF Answered, CallsTyped
  <2>2. load[l].active \in Lanes /\ load[l].completed \in Lanes
    BY <2>1 DEF LoadCalls
  <2>3. /\ load[l].active[o] # None => Rank[load[l].active[o]] \in 1..4
        /\ load[l].completed[o] # None => Rank[load[l].completed[o]] \in 1..4
    BY <2>2, RankBounded DEF Lanes
  <2>4. lastSync[o] \in 0..4
    BY DEF SessionTyped
  <2> QED
    BY <2>3, <2>4 DEF Furthest
<1>4. lastSync' \in [Orders -> 0..4]
  BY <1>3 DEF EndLoad, SessionTyped
<1> QED
  BY <1>1, <1>2, <1>4

\* The answers of the server to transitions are typed.
LEMMA AnswersKeepCalls ==
    ASSUME ServerTyped, CallsTyped, NEW m \in Moves, ServeMove(m) \/ ReadBack(m)
    PROVE  CallsTyped'
<1>1. move[m] \in MoveCalls
  BY DEF CallsTyped, ServeMove, ReadOrder, CompareAndSet, ReadBack
<1>2. ASSUME NEW a \in Answers
      PROVE  [move[m] EXCEPT !.answer = a] \in MoveCalls
  BY <1>1 DEF MoveCalls
<1>3. GetKitchenOrder(move[m].order) \in Answers
  BY DEF GetKitchenOrder, Answers
<1>4. \E a \in Answers : move' = [move EXCEPT ![m].answer = a]
  BY <1>3 DEF ServeMove, ReadOrder, CompareAndSet, ReadBack, Answers
<1>5. move' \in [Moves -> MoveCalls \cup {None}]
  BY <1>2, <1>4 DEF CallsTyped
<1> QED
  BY <1>5 DEF CallsTyped, ServeMove, ReadOrder, CompareAndSet, ReadBack

\* Disturbances are counted up to the bound.
LEMMA TroubleBounded ==
    ASSUME SessionTyped, Trouble
    PROVE  trouble' \in 0..MaxTrouble
BY BoundsAreNaturals DEF SessionTyped, Trouble

\* A load that ends, well or badly.
LEMMA LoadEndsTyped ==
    ASSUME BoardTyped, CallsTyped, SessionTyped, NEW l \in Loads,
           LoadLands(l) \/ LoadFails(l)
    PROVE  BoardTyped' /\ CallsTyped' /\ SessionTyped'
<1>1. CASE LoadLands(l)
  <2>1. EndLoad(l, TRUE) /\ Answered(l)
    BY <1>1 DEF LoadLands
  <2>2. load[l].active \in Lanes /\ load[l].completed \in Lanes
    BY <2>1 DEF Answered, CallsTyped, LoadCalls
  <2>3. BoardTyped'
    BY <1>1, <2>2 DEF LoadLands, BoardTyped, board
  <2> QED
    BY <1>1, <2>1, <2>3, EndLoadTyped DEF LoadLands, CallsTyped, SessionTyped
<1>2. CASE LoadFails(l)
  <2>1. EndLoad(l, FALSE)
    BY <1>2 DEF LoadFails
  <2>2. /\ inFlight' \in BOOLEAN /\ newest' \in Loads \cup {None}
        /\ load' \in [Loads -> LoadCalls \cup {None}]
        /\ lastSync' \in [Orders -> 0..4]
    BY <2>1, EndLoadTyped
  <2>3. error' \in BOOLEAN /\ signedIn' \in BOOLEAN
    BY <1>2 DEF LoadFails, BoardTyped, SessionTyped
  <2>4. trouble' \in 0..MaxTrouble
    BY <1>2, TroubleBounded DEF LoadFails
  <2> QED
    BY <1>2, <2>2, <2>3, <2>4 DEF LoadFails, BoardTyped, CallsTyped, SessionTyped
<1> QED
  BY <1>1, <1>2

\* A transition that starts.
LEMMA PressTyped ==
    ASSUME BoardTyped, CallsTyped, SessionTyped, NEW m \in Moves, NEW o \in Orders,
           Press(m, o)
    PROVE  BoardTyped' /\ CallsTyped' /\ SessionTyped'
<1>1. NextAction[active[o]] \in Shown
  BY NextActionShown DEF Press
<1>2. move' \in [Moves -> MoveCalls \cup {None}]
  BY <1>1 DEF Press, CallsTyped, MoveCalls
<1> QED
  BY <1>2 DEF Press, BoardTyped, CallsTyped, SessionTyped, board, history

\* A transition that ends.
LEMMA MoveEndsTyped ==
    ASSUME BoardTyped, CallsTyped, SessionTyped, NEW m \in Moves,
           MoveLands(m) \/ MoveRefused(m) \/ MoveFails(m)
    PROVE  BoardTyped' /\ CallsTyped' /\ SessionTyped'
<1>1. CASE MoveLands(m)
  <2>1. move[m].order \in Orders /\ move[m].answer \in Shown
    BY <1>1 DEF MoveLands, CallsTyped, MoveCalls
  <2>2. BoardTyped'
    BY <1>1, <2>1 DEF MoveLands, ApplyOrderUpdate, BoardTyped, Lanes
  <2> QED
    BY <1>1, <2>2 DEF MoveLands, Unlock, CallsTyped, SessionTyped, history
<1>2. CASE MoveRefused(m)
  <2>1. /\ inFlight' \in BOOLEAN /\ newest' \in Loads \cup {None}
        /\ load' \in [Loads -> LoadCalls \cup {None}]
    <3>1. CASE inFlight
      BY <1>2, <3>1 DEF MoveRefused, CallsTyped
    <3>2. CASE ~inFlight
      <4>1. PICK l \in Loads : StartLoad(l, statusFilter)
        BY <1>2, <3>2 DEF MoveRefused
      <4> QED
        BY <4>1, StartLoadTyped DEF BoardTyped
    <3> QED
      BY <3>1, <3>2
  <2> QED
    BY <1>2, <2>1 DEF MoveRefused, Unlock, BoardTyped, CallsTyped, SessionTyped, history
<1>3. CASE MoveFails(m)
  BY <1>3, TroubleBounded DEF MoveFails, Unlock, BoardTyped, CallsTyped, SessionTyped
<1> QED
  BY <1>1, <1>2, <1>3

\* A poll.
LEMMA PollTyped ==
    ASSUME BoardTyped, CallsTyped, SessionTyped, NEW l \in Loads, Poll(l)
    PROVE  BoardTyped' /\ CallsTyped' /\ SessionTyped'
<1>1. StartLoad(l, statusFilter) /\ statusFilter \in Filters
  BY DEF Poll, BoardTyped
<1> QED
  BY <1>1, StartLoadTyped DEF Poll, BoardTyped, CallsTyped, SessionTyped, board, history

\* A change of query.
LEMMA SetStatusFilterTyped ==
    ASSUME BoardTyped, CallsTyped, SessionTyped, NEW l \in Loads, NEW filter \in Filters,
           SetStatusFilter(l, filter)
    PROVE  BoardTyped' /\ CallsTyped' /\ SessionTyped'
<1>1. StartLoad(l, filter) /\ Trouble
  BY DEF SetStatusFilter, ForceLoad
<1> QED
  BY <1>1, StartLoadTyped, TroubleBounded
  DEF SetStatusFilter, BoardTyped, CallsTyped, SessionTyped, board

\* The session.
LEMMA SessionStepsTyped ==
    ASSUME BoardTyped, CallsTyped, SessionTyped, SignOut \/ SignIn
    PROVE  BoardTyped' /\ CallsTyped' /\ SessionTyped'
<1>1. CASE SignOut
  <2>1. Empty \in Lanes
    BY DEF Empty, Lanes
  <2> QED
    BY <1>1, <2>1, TroubleBounded, FiltersAreStatuses
    DEF SignOut, BoardTyped, CallsTyped, SessionTyped, calls
<1>2. CASE SignIn
  BY <1>2 DEF SignIn, BoardTyped, CallsTyped, SessionTyped, board, calls, history
<1> QED
  BY <1>1, <1>2

\* Every step keeps the types of all groups.
LEMMA NextKeepsTypes ==
    ASSUME Typed, [Next]_vars
    PROVE  Typed'
<1> USE DEF Typed
<1>1. CASE UNCHANGED vars
  BY <1>1 DEF vars, ServerTyped, BoardTyped, CallsTyped, SessionTyped
<1>2. ASSUME NEW o \in Orders, OthersMove(o)
      PROVE  Typed'
  <2>1. BoardTyped' /\ CallsTyped' /\ SessionTyped'
    BY <1>2 DEF OthersMove, BoardTyped, CallsTyped, SessionTyped, board, calls, history
  <2>2. ServerTyped'
    BY <1>2 DEF OthersMove, ServerTyped
  <2> QED
    BY <2>1, <2>2
<1>3. ASSUME NEW o \in Orders, NEW m \in Moves, Press(m, o)
      PROVE  Typed'
  <2>1. ServerTyped'
    BY <1>3 DEF Press, ServerTyped
  <2> QED
    BY <1>3, <2>1, PressTyped
<1>4. ASSUME NEW m \in Moves, MoveLands(m) \/ MoveRefused(m) \/ MoveFails(m)
      PROVE  Typed'
  <2>1. ServerTyped'
    BY <1>4 DEF MoveLands, MoveRefused, MoveFails, ServerTyped
  <2> QED
    BY <1>4, <2>1, MoveEndsTyped
<1>5. ASSUME NEW l \in Loads, LoadLands(l) \/ LoadFails(l)
      PROVE  Typed'
  <2>1. ServerTyped'
    BY <1>5 DEF LoadLands, LoadFails, ServerTyped
  <2> QED
    BY <1>5, <2>1, LoadEndsTyped
<1>6. ASSUME NEW l \in Loads, ReadActive(l) \/ ReadCompleted(l)
      PROVE  Typed'
  <2>1. load[l] \in LoadCalls
    BY <1>6 DEF CallsTyped, ReadActive, ReadCompleted
  <2>2. load' \in [Loads -> LoadCalls \cup {None}]
    BY <1>6, <2>1, LanesAreLanes DEF CallsTyped, ReadActive, ReadCompleted, LoadCalls
  <2> QED
    BY <1>6, <2>2 DEF ReadActive, ReadCompleted, ServerTyped, BoardTyped, CallsTyped,
                      SessionTyped, board, history
<1>7. ASSUME NEW m \in Moves, ServeMove(m) \/ ReadBack(m)
      PROVE  Typed'
  <2>1. CallsTyped'
    BY <1>7, AnswersKeepCalls
  <2>2. ServerTyped'
    BY <1>7, ServeMoveTyped DEF ReadBack, ServerTyped
  <2> QED
    BY <1>7, <2>1, <2>2 DEF ServeMove, ReadOrder, CompareAndSet, ReadBack, BoardTyped, SessionTyped, board, history
<1>8. ASSUME NEW l \in Loads, Poll(l)
      PROVE  Typed'
  <2>1. ServerTyped'
    BY <1>8 DEF Poll, ServerTyped
  <2> QED
    BY <1>8, <2>1, PollTyped
<1>9. ASSUME NEW l \in Loads, NEW filter \in Filters, SetStatusFilter(l, filter)
      PROVE  Typed'
  <2>1. ServerTyped'
    BY <1>9 DEF SetStatusFilter, ServerTyped
  <2> QED
    BY <1>9, <2>1, SetStatusFilterTyped
<1>10. CASE SignOut \/ SignIn
  <2>1. ServerTyped'
    BY <1>10 DEF SignOut, SignIn, ServerTyped
  <2> QED
    BY <1>10, <2>1, SessionStepsTyped
<1> QED
  BY <1>1, <1>2, <1>3, <1>4, <1>5, <1>6, <1>7, <1>8, <1>9, <1>10 DEF Next

-----------------------------------------------------------------------------
\* The query and the lock.

\* The converse of LockedMeansUnderWay, which a reset in the middle breaks.
UnderWayMeansLocked ==
    ~wasReset => \A m \in Moves : move[m] # None => move[m].order \in pending

IInv ==
    /\ Typed
    /\ NewestLoadAsksTheCurrentQuery
    /\ LockedMeansUnderWay
    /\ UnderWayMeansLocked /\ OneTransitionPerOrder

\* A load that starts with the query on screen keeps the first half.
LEMMA StartKeepsQuery ==
    ASSUME CallsTyped, NEW l \in Loads, NEW filter, StartLoad(l, filter),
           statusFilter' = filter
    PROVE  NewestLoadAsksTheCurrentQuery'
BY DEF StartLoad, CallsTyped, NewestLoadAsksTheCurrentQuery

\* Only the start of a load, the query and the session can disturb it.
LEMMA NextKeepsQuery ==
    ASSUME IInv, [Next]_vars
    PROVE  NewestLoadAsksTheCurrentQuery'
<1> USE DEF IInv, Typed
<1>1. CASE UNCHANGED <<load, newest, statusFilter>>
  BY <1>1 DEF NewestLoadAsksTheCurrentQuery
<1>2. ASSUME NEW l \in Loads, Poll(l)
      PROVE  NewestLoadAsksTheCurrentQuery'
  BY <1>2, StartKeepsQuery DEF Poll
<1>3. ASSUME NEW l \in Loads, NEW filter \in Filters, SetStatusFilter(l, filter)
      PROVE  NewestLoadAsksTheCurrentQuery'
  BY <1>3, StartKeepsQuery DEF SetStatusFilter, ForceLoad
<1>4. ASSUME NEW m \in Moves, MoveRefused(m)
      PROVE  NewestLoadAsksTheCurrentQuery'
  <2>1. CASE inFlight
    BY <1>1, <1>4, <2>1 DEF MoveRefused
  <2>2. CASE ~inFlight
    <3>1. PICK l \in Loads : StartLoad(l, statusFilter)
      BY <1>4, <2>2 DEF MoveRefused
    <3>2. statusFilter' = statusFilter
      BY <1>4 DEF MoveRefused
    <3> QED
      BY <3>1, <3>2, StartKeepsQuery
  <2> QED
    BY <2>1, <2>2
<1>5. ASSUME NEW l \in Loads, ReadActive(l) \/ ReadCompleted(l)
      PROVE  NewestLoadAsksTheCurrentQuery'
  <2>1. load[l] \in LoadCalls
    BY <1>5 DEF CallsTyped, ReadActive, ReadCompleted
  <2>2. load'[l] # None => load'[l].filter = load[l].filter
    BY <1>5, <2>1 DEF CallsTyped, ReadActive, ReadCompleted, LoadCalls
  <2>3. /\ \A k \in Loads \ {l} : load'[k] = load[k]
        /\ newest' = newest /\ statusFilter' = statusFilter /\ load[l] # None
    BY <1>5 DEF CallsTyped, ReadActive, ReadCompleted
  <2> QED
    BY <2>2, <2>3 DEF NewestLoadAsksTheCurrentQuery
<1>6. ASSUME NEW l \in Loads, LoadLands(l) \/ LoadFails(l)
      PROVE  NewestLoadAsksTheCurrentQuery'
  <2>1. statusFilter' = statusFilter /\ load' = [load EXCEPT ![l] = None]
    BY <1>6 DEF LoadLands, LoadFails, EndLoad
  <2>2. newest' \in {newest, None}
    BY <1>6 DEF LoadLands, LoadFails, EndLoad, Reopen
  <2> QED
    BY <2>1, <2>2, NoneIsNoCall DEF CallsTyped, NewestLoadAsksTheCurrentQuery
<1>7. CASE SignOut
  BY <1>7, NoneIsNoCall DEF SignOut, NewestLoadAsksTheCurrentQuery
<1>8. CASE \/ \E o \in Orders : OthersMove(o) \/ \E m \in Moves : Press(m, o)
           \/ \E m \in Moves : ServeMove(m) \/ ReadBack(m) \/ MoveLands(m) \/ MoveFails(m)
           \/ SignIn
  BY <1>1, <1>8 DEF OthersMove, Press, ServeMove, ReadOrder, CompareAndSet, ReadBack, MoveLands, MoveFails,
                    SignIn, calls
<1> QED
  BY <1>1, <1>2, <1>3, <1>4, <1>5, <1>6, <1>7, <1>8 DEF Next, vars

\* A transition that ends unlocks its order; one that starts locks its own.
LEMMA NextKeepsLock ==
    ASSUME IInv, [Next]_vars
    PROVE  LockedMeansUnderWay'
<1> USE DEF IInv, Typed
<1>1. CASE UNCHANGED <<pending, move>>
  BY <1>1 DEF LockedMeansUnderWay
<1>2. ASSUME NEW o \in Orders, NEW m \in Moves, Press(m, o)
      PROVE  LockedMeansUnderWay'
  <2>1. NextAction[active[o]] \in Shown
    BY <1>2, NextActionShown DEF Press
  <2>2. /\ \A n \in Moves \ {m} : move'[n] = move[n]
        /\ move'[m] # None /\ move'[m].order = o
    BY <1>2, <2>1, NoneIsNoRecord DEF Press, CallsTyped, MoveCalls
  <2>3. move[m] = None
    BY <1>2 DEF Press, IsFree
  <2>4. pending' = pending \cup {o}
    BY <1>2 DEF Press
  <2> QED
    BY <2>2, <2>3, <2>4 DEF LockedMeansUnderWay
<1>3. ASSUME NEW m \in Moves, MoveLands(m) \/ MoveRefused(m) \/ MoveFails(m)
      PROVE  LockedMeansUnderWay'
  <2>1. pending' = pending \ {move[m].order} /\ move' = [move EXCEPT ![m] = None]
    BY <1>3 DEF MoveLands, MoveRefused, MoveFails, Unlock
  <2> QED
    BY <2>1 DEF CallsTyped, LockedMeansUnderWay
<1>4. ASSUME NEW m \in Moves, ServeMove(m) \/ ReadBack(m)
      PROVE  LockedMeansUnderWay'
  <2>1. move[m] \in MoveCalls
    BY <1>4 DEF CallsTyped, ServeMove, ReadOrder, CompareAndSet, ReadBack
  <2>2. move'[m] \in MoveCalls
    BY <1>4, <2>1 DEF CallsTyped, MoveCalls, ServeMove, ReadOrder, CompareAndSet, ReadBack, GetKitchenOrder, Answers
  <2>3. /\ \A n \in Moves \ {m} : move'[n] = move[n]
        /\ pending' = pending
        /\ move[m] # None /\ move'[m] # None /\ move'[m].order = move[m].order
    BY <1>4, <2>1, <2>2, NoneIsNoRecord DEF CallsTyped, MoveCalls, ServeMove, ReadOrder, CompareAndSet, ReadBack
  <2> QED
    BY <2>1, <2>3 DEF LockedMeansUnderWay
<1>5. CASE SignOut
  BY <1>5 DEF SignOut, LockedMeansUnderWay
<1>6. CASE \/ \E o \in Orders : OthersMove(o)
           \/ \E l \in Loads :
                 \/ Poll(l) \/ ReadActive(l) \/ ReadCompleted(l)
                 \/ LoadLands(l) \/ LoadFails(l)
                 \/ \E filter \in Filters : SetStatusFilter(l, filter)
           \/ SignIn
  BY <1>1, <1>6 DEF OthersMove, Poll, ReadActive, ReadCompleted, LoadLands, LoadFails,
                    SetStatusFilter, SignIn, calls
<1> QED
  BY <1>1, <1>2, <1>3, <1>4, <1>5, <1>6 DEF Next, vars

\* Until a reset a press finds its order unlocked, hence without a transition.
LEMMA NextKeepsOne ==
    ASSUME IInv, [Next]_vars
    PROVE  UnderWayMeansLocked' /\ OneTransitionPerOrder'
<1> USE DEF IInv, Typed
<1>1. CASE UNCHANGED <<pending, move, wasReset>>
  BY <1>1 DEF UnderWayMeansLocked, OneTransitionPerOrder
<1>2. ASSUME NEW o \in Orders, NEW m \in Moves, Press(m, o)
      PROVE  UnderWayMeansLocked' /\ OneTransitionPerOrder'
  <2>1. NextAction[active[o]] \in Shown
    BY <1>2, NextActionShown DEF Press
  <2>2. /\ \A n \in Moves \ {m} : move'[n] = move[n]
        /\ move'[m].order = o
    BY <1>2, <2>1 DEF Press, CallsTyped
  <2>3. o \notin pending /\ pending' = pending \cup {o} /\ wasReset' = wasReset
    BY <1>2 DEF Press, Locked, history
  <2> QED
    BY <2>2, <2>3 DEF UnderWayMeansLocked, OneTransitionPerOrder
<1>3. ASSUME NEW m \in Moves, MoveLands(m) \/ MoveRefused(m) \/ MoveFails(m)
      PROVE  UnderWayMeansLocked' /\ OneTransitionPerOrder'
  <2>1. /\ pending' = pending \ {move[m].order} /\ wasReset' = wasReset
        /\ move' = [move EXCEPT ![m] = None] /\ move[m] # None
    BY <1>3 DEF MoveLands, MoveRefused, MoveFails, Unlock, history
  <2>2. move'[m] = None /\ \A n \in Moves \ {m} : move'[n] = move[n]
    BY <2>1 DEF CallsTyped
  <2> QED
    BY <2>1, <2>2 DEF UnderWayMeansLocked, OneTransitionPerOrder
<1>4. ASSUME NEW m \in Moves, ServeMove(m) \/ ReadBack(m)
      PROVE  UnderWayMeansLocked' /\ OneTransitionPerOrder'
  <2>1. move[m] \in MoveCalls
    BY <1>4 DEF CallsTyped, ServeMove, ReadOrder, CompareAndSet, ReadBack
  <2>2. /\ \A n \in Moves \ {m} : move'[n] = move[n]
        /\ pending' = pending /\ wasReset' = wasReset
        /\ move[m] # None /\ move'[m].order = move[m].order
    BY <1>4, <2>1 DEF CallsTyped, MoveCalls, ServeMove, ReadOrder, CompareAndSet, ReadBack, history
  <2> QED
    BY <2>2 DEF UnderWayMeansLocked, OneTransitionPerOrder
<1>5. CASE SignOut
  BY <1>5 DEF SignOut, UnderWayMeansLocked, OneTransitionPerOrder
<1>6. CASE \/ \E o \in Orders : OthersMove(o)
           \/ \E l \in Loads :
                 \/ Poll(l) \/ ReadActive(l) \/ ReadCompleted(l)
                 \/ LoadLands(l) \/ LoadFails(l)
                 \/ \E filter \in Filters : SetStatusFilter(l, filter)
           \/ SignIn
  BY <1>1, <1>6 DEF OthersMove, Poll, ReadActive, ReadCompleted, LoadLands, LoadFails,
                    SetStatusFilter, SignIn, calls, history
<1> QED
  BY <1>1, <1>2, <1>3, <1>4, <1>5, <1>6 DEF Next, vars

\* The parts hold before the first load and in every step.
LEMMA IInvHolds == Spec => []IInv
<1>1. Init => IInv
  <2>1. ASSUME Init PROVE Typed
    <3>1. ServerTyped /\ SessionTyped
      <4>1. trouble \in 0..MaxTrouble /\ lastSync \in [Orders -> 0..4]
        BY <2>1, BoundsAreNaturals DEF Init
      <4>2. signedIn \in BOOLEAN /\ wasReset \in BOOLEAN
        BY <2>1 DEF Init
      <4>3. ServerTyped
        BY <2>1 DEF Init, ServerTyped, Statuses
      <4> QED
        BY <4>1, <4>2, <4>3 DEF SessionTyped
    <3>2. BoardTyped /\ CallsTyped
      BY <2>1, FiltersAreStatuses DEF Init, BoardTyped, CallsTyped, Empty, Lanes
    <3> QED
      BY <3>1, <3>2 DEF Typed
  <2>2. ASSUME Init PROVE NewestLoadAsksTheCurrentQuery /\ LockedMeansUnderWay
    BY <2>2 DEF Init, NewestLoadAsksTheCurrentQuery, LockedMeansUnderWay
  <2>3. ASSUME Init PROVE UnderWayMeansLocked /\ OneTransitionPerOrder
    BY <2>3 DEF Init, UnderWayMeansLocked, OneTransitionPerOrder
  <2> QED
    BY <2>1, <2>2, <2>3 DEF IInv
<1>2. IInv /\ [Next]_vars => IInv'
  BY NextKeepsTypes, NextKeepsQuery, NextKeepsLock, NextKeepsOne DEF IInv
<1> QED
  BY <1>1, <1>2, PTL DEF Spec

-----------------------------------------------------------------------------
\* Loads in the order of the workflow.

\* An order at s has come as far as rank r, or left the board.
Past(s, r) == s = "gone" \/ (s \in Shown /\ Rank[s] >= r)

\* What landed was true: no order is behind it.
SyncedIsPast == \A o \in Orders : lastSync[o] = 0 \/ Past(status[o], lastSync[o])

LaneIsPast(lane, rows) ==
    lane # None => \A o \in Orders : lane[o] # None => Past(rows[o], Rank[lane[o]])

\* What was read was true.
AnswersArePast ==
    \A l \in Loads : load[l] # None =>
        LaneIsPast(load[l].active, status) /\ LaneIsPast(load[l].completed, status)

LaneIsAhead(lane, sync) ==
    lane # None => \A o \in Orders : lane[o] # None => Rank[lane[o]] >= sync[o]

\* The load that holds the token has read nothing from before the last one landed.
NewestIsAhead ==
    \A l \in Loads : newest = l /\ load[l] # None =>
        LaneIsAhead(load[l].active, lastSync) /\ LaneIsAhead(load[l].completed, lastSync)

Forward == SyncedIsPast /\ AnswersArePast /\ NewestIsAhead

\* The server's rows move along the workflow, or off the board.
LEMMA RowsMoveOn ==
    ASSUME Typed, [Next]_vars, NEW o \in Orders, NEW r \in Nat, Past(status[o], r)
    PROVE  Past(status'[o], r)
<1>1. \/ status'[o] = status[o]
      \/ status'[o] = "gone"
      \/ status[o] = "hidden"
      \/ status[o] \in Active /\ status'[o] = NextAction[status[o]]
  <2>1. ASSUME NEW p \in Orders, OthersMove(p)
        PROVE  \/ status'[o] = status[o] \/ status'[o] = "gone" \/ status[o] = "hidden"
               \/ status[o] \in Active /\ status'[o] = NextAction[status[o]]
    <3>1. CASE p = o
      BY <2>1, <3>1 DEF OthersMove, Typed, ServerTyped
    <3>2. CASE p # o
      BY <2>1, <3>2 DEF OthersMove, Typed, ServerTyped
    <3> QED
      BY <3>1, <3>2
  <2>2. ASSUME NEW m \in Moves, ServeMove(m)
        PROVE  \/ status'[o] = status[o]
               \/ status[o] \in Active /\ status'[o] = NextAction[status[o]]
    <3>1. move[m] \in MoveCalls
      BY <2>2 DEF ServeMove, ReadOrder, CompareAndSet, Typed, CallsTyped
    <3>2. move[m].order \in Orders
      BY <3>1 DEF MoveCalls
    <3>3. CASE move[m].order = o
      BY <2>2, <3>3 DEF ServeMove, ReadOrder, CompareAndSet, Typed, ServerTyped
    <3>4. CASE move[m].order # o
      BY <2>2, <3>4, <3>2 DEF ServeMove, ReadOrder, CompareAndSet, Typed, ServerTyped
    <3> QED
      BY <3>3, <3>4
  <2>3. CASE \/ \E p \in Orders : OthersMove(p)
             \/ \E m \in Moves : ServeMove(m)
    BY <2>1, <2>2, <2>3
  <2>4. CASE ~ (\/ \E p \in Orders : OthersMove(p)
                \/ \E m \in Moves : ServeMove(m))
    <3>1. status' = status
      BY <2>4 DEF Next, vars, Press, Poll, SetStatusFilter, ReadActive, ReadCompleted,
                  LoadLands, LoadFails, ReadBack, MoveLands, MoveRefused, MoveFails,
                  SignOut, SignIn
    <3> QED
      BY <3>1
  <2> QED
    BY <2>3, <2>4
<1>2. \A s \in Active : NextAction[s] \in Shown /\ Rank[NextAction[s]] = Rank[s] + 1
  BY DEF NextAction, Rank, Shown, Active
<1>3. CASE status[o] \in Active /\ status'[o] = NextAction[status[o]]
  <2>1. Rank[status[o]] \in Nat /\ Rank[status[o]] >= r
    BY <1>3, RankBounded DEF Past, Active, Shown
  <2> QED
    BY <1>2, <1>3, <2>1 DEF Past
<1>4. status[o] # "hidden"
  BY DEF Past, Shown, Active
<1> QED
  BY <1>1, <1>3, <1>4 DEF Past

\* A lane that was true stays so.
LEMMA LanesStayPast ==
    ASSUME Typed, [Next]_vars, NEW lane \in Lanes \cup {None},
           LaneIsPast(lane, status)
    PROVE  LaneIsPast(lane, status')
<1> SUFFICES ASSUME lane # None, NEW o \in Orders, lane[o] # None
             PROVE  Past(status'[o], Rank[lane[o]])
  BY DEF LaneIsPast
<1>1. lane[o] \in Shown
  BY DEF Lanes
<1>2. Rank[lane[o]] \in Nat
  BY <1>1, RankBounded
<1>3. Past(status[o], Rank[lane[o]])
  BY DEF LaneIsPast
<1> QED
  BY <1>2, <1>3, RowsMoveOn

\* A lane read now is true, and no further back than what landed.
LEMMA FreshLanes ==
    ASSUME Typed, SyncedIsPast, NEW lane, NEW filter \in Filters,
           lane = ActiveLane(filter) \/ lane = CompletedLane
    PROVE  LaneIsPast(lane, status) /\ LaneIsAhead(lane, lastSync)
<1> SUFFICES ASSUME NEW o \in Orders, lane[o] # None
             PROVE  Past(status[o], Rank[lane[o]]) /\ Rank[lane[o]] >= lastSync[o]
  BY DEF LaneIsPast, LaneIsAhead
<1>1. lane[o] = status[o] /\ status[o] \in Shown
  BY FiltersAreStatuses DEF ActiveLane, CompletedLane, Shown, Active
<1>2. Rank[status[o]] \in 1..4 /\ lastSync[o] \in 0..4
  BY <1>1, RankBounded DEF Typed, SessionTyped
<1>3. lastSync[o] = 0 \/ Rank[status[o]] >= lastSync[o]
  BY <1>1 DEF SyncedIsPast, Past, Shown, Active
<1> QED
  BY <1>1, <1>2, <1>3 DEF Past

\* The answers of a load that nobody has touched stay true.
LEMMA AnswersStayPast ==
    ASSUME Typed, [Next]_vars, AnswersArePast, NEW l \in Loads, load[l] # None
    PROVE  LaneIsPast(load[l].active, status') /\ LaneIsPast(load[l].completed, status')
<1>1. load[l] \in LoadCalls
  BY DEF Typed, CallsTyped
<1>2. load[l].active \in Lanes \cup {None} /\ load[l].completed \in Lanes \cup {None}
  BY <1>1 DEF LoadCalls
<1> QED
  BY <1>2, LanesStayPast DEF AnswersArePast

\* What landed stays true.
LEMMA SyncStaysPast ==
    ASSUME Typed, [Next]_vars, SyncedIsPast, NEW o \in Orders, lastSync'[o] = lastSync[o]
    PROVE  lastSync'[o] = 0 \/ Past(status'[o], lastSync'[o])
<1>1. lastSync[o] \in Nat
  BY DEF Typed, SessionTyped
<1> QED
  BY <1>1, RowsMoveOn DEF SyncedIsPast

\* Steps that read nothing and end no load.
LEMMA NoLoadKeepsForward ==
    ASSUME Typed, [Next]_vars, Forward,
           lastSync' = lastSync, load' = load, newest' \in {newest, None}
    PROVE  Forward'
<1>1. SyncedIsPast'
  BY SyncStaysPast DEF Forward, SyncedIsPast
<1>2. AnswersArePast'
  BY AnswersStayPast DEF Forward, AnswersArePast
<1>3. NewestIsAhead'
  BY NoneIsNoCall DEF Forward, NewestIsAhead
<1> QED
  BY <1>1, <1>2, <1>3 DEF Forward

\* A load that starts has read nothing.
LEMMA StartKeepsForward ==
    ASSUME Typed, [Next]_vars, Forward, NEW k \in Loads, NEW filter,
           StartLoad(k, filter), lastSync' = lastSync
    PROVE  Forward'
<1>1. SyncedIsPast'
  BY SyncStaysPast DEF Forward, SyncedIsPast
<1>2. /\ load'[k].active = None /\ load'[k].completed = None /\ newest' = k
      /\ \A l \in Loads \ {k} : load'[l] = load[l]
  BY DEF StartLoad, Typed, CallsTyped
<1>3. AnswersArePast'
  BY <1>2, AnswersStayPast DEF Forward, AnswersArePast, LaneIsPast
<1>4. NewestIsAhead'
  BY <1>2 DEF NewestIsAhead, LaneIsAhead
<1> QED
  BY <1>1, <1>3, <1>4 DEF Forward

\* A load reads a lane.
LEMMA ReadKeepsForward ==
    ASSUME Typed, [Next]_vars, Forward, NEW k \in Loads,
           ReadActive(k) \/ ReadCompleted(k)
    PROVE  Forward'
<1>1. /\ lastSync' = lastSync /\ status' = status /\ newest' = newest
      /\ \A l \in Loads \ {k} : load'[l] = load[l]
  BY DEF ReadActive, ReadCompleted, history, Typed, CallsTyped
<1>2. load[k] \in LoadCalls
  BY DEF ReadActive, ReadCompleted, Typed, CallsTyped
<1>3. \/ /\ load'[k].active = ActiveLane(load[k].filter)
         /\ load'[k].completed = load[k].completed
      \/ /\ load'[k].completed = CompletedLane
         /\ load'[k].active = load[k].active
  BY <1>2 DEF ReadActive, ReadCompleted, Typed, CallsTyped, LoadCalls
<1>4. load[k] # None /\ load[k].filter \in Filters
  BY <1>2 DEF ReadActive, ReadCompleted, LoadCalls
<1>5. /\ LaneIsPast(load'[k].active, status) /\ LaneIsPast(load'[k].completed, status)
  BY <1>3, <1>4, FreshLanes DEF Forward, AnswersArePast
<1>6. newest = k =>
        /\ LaneIsAhead(load'[k].active, lastSync)
        /\ LaneIsAhead(load'[k].completed, lastSync)
  BY <1>3, <1>4, FreshLanes DEF Forward, NewestIsAhead
<1>7. SyncedIsPast'
  BY <1>1 DEF Forward, SyncedIsPast
<1>8. AnswersArePast'
  BY <1>1, <1>5 DEF Forward, AnswersArePast
<1>9. NewestIsAhead'
  BY <1>1, <1>6 DEF Forward, NewestIsAhead
<1> QED
  BY <1>7, <1>8, <1>9 DEF Forward

\* A load ends, and the one that holds the token says how far the orders are.
LEMMA EndKeepsForward ==
    ASSUME Typed, [Next]_vars, Forward, NEW k \in Loads, NEW ok \in BOOLEAN,
           load[k] # None, ok => Answered(k), EndLoad(k, ok), status' = status
    PROVE  Forward'
<1>1. load'[k] = None /\ \A l \in Loads \ {k} : load'[l] = load[l]
  BY DEF EndLoad, Typed, CallsTyped
<1>2. ASSUME NEW o \in Orders
      PROVE  lastSync'[o] = 0 \/ Past(status[o], lastSync'[o])
  <2>1. lastSync[o] = 0 \/ Past(status[o], lastSync[o])
    BY DEF Forward, SyncedIsPast
  <2>2. ASSUME ok
        PROVE  Furthest(load[k], o) = 0 \/ Past(status[o], Furthest(load[k], o))
    BY <2>1, <2>2 DEF Furthest, Answered, Forward, AnswersArePast, LaneIsPast
  <2>3. \/ lastSync'[o] \in {0, lastSync[o]}
        \/ ok /\ lastSync'[o] = Furthest(load[k], o)
    BY DEF EndLoad
  <2> QED
    BY <2>1, <2>2, <2>3
<1>3. SyncedIsPast'
  BY <1>2 DEF SyncedIsPast
<1>4. AnswersArePast'
  BY <1>1, AnswersStayPast DEF Forward, AnswersArePast
<1>5. NewestIsAhead'
  <2> SUFFICES ASSUME NEW l \in Loads, newest' = l, load'[l] # None
               PROVE  /\ LaneIsAhead(load'[l].active, lastSync')
                      /\ LaneIsAhead(load'[l].completed, lastSync')
    BY DEF NewestIsAhead
  <2>1. ~HoldsToken(k) /\ newest' = newest /\ load'[l] = load[l] /\ l # k
    BY <1>1, NoneIsNoCall DEF EndLoad, Reopen
  <2>2. lastSync' = [o \in Orders |-> lastSync[o]]
    BY <1>1, <2>1 DEF EndLoad
  <2>3. LaneIsAhead(load[l].active, lastSync) /\ LaneIsAhead(load[l].completed, lastSync)
    BY <2>1 DEF Forward, NewestIsAhead
  <2> QED
    BY <2>1, <2>2, <2>3 DEF LaneIsAhead
<1> QED
  BY <1>3, <1>4, <1>5 DEF Forward

LEMMA NextKeepsForward ==
    ASSUME Typed, Forward, [Next]_vars
    PROVE  Forward'
<1>1. ASSUME NEW l \in Loads, LoadLands(l) \/ LoadFails(l)
      PROVE  Forward'
  <2>1. CASE LoadLands(l)
    BY <2>1, EndKeepsForward DEF LoadLands, Answered
  <2>2. CASE LoadFails(l)
    BY <2>2, EndKeepsForward DEF LoadFails
  <2> QED
    BY <1>1, <2>1, <2>2
<1>2. ASSUME NEW l \in Loads, ReadActive(l) \/ ReadCompleted(l)
      PROVE  Forward'
  BY <1>2, ReadKeepsForward
<1>3. ASSUME NEW l \in Loads, Poll(l) \/ \E filter \in Filters : SetStatusFilter(l, filter)
      PROVE  Forward'
  BY <1>3, StartKeepsForward DEF Poll, SetStatusFilter, ForceLoad, history
<1>4. ASSUME NEW m \in Moves, MoveRefused(m)
      PROVE  Forward'
  <2>1. CASE inFlight
    BY <1>4, <2>1, NoLoadKeepsForward DEF MoveRefused, history
  <2>2. CASE ~inFlight
    <3>1. PICK l \in Loads : StartLoad(l, statusFilter)
      BY <1>4, <2>2 DEF MoveRefused
    <3> QED
      BY <1>4, <3>1, StartKeepsForward DEF MoveRefused, history
  <2> QED
    BY <2>1, <2>2
<1>5. CASE \/ \E o \in Orders : OthersMove(o) \/ \E m \in Moves : Press(m, o)
           \/ \E m \in Moves : ServeMove(m) \/ ReadBack(m) \/ MoveLands(m) \/ MoveFails(m)
           \/ SignOut \/ SignIn
           \/ UNCHANGED vars
  <2>1. lastSync' = lastSync /\ load' = load /\ newest' \in {newest, None}
    BY <1>5 DEF OthersMove, Press, ServeMove, ReadOrder, CompareAndSet, ReadBack, MoveLands, MoveFails, SignOut,
                SignIn, history, calls, vars
  <2> QED
    BY <2>1, NoLoadKeepsForward
<1> QED
  BY <1>1, <1>2, <1>3, <1>4, <1>5 DEF Next

LEMMA ForwardHolds == Spec => []Forward
<1>1. Init => Forward
  BY DEF Init, Forward, SyncedIsPast, AnswersArePast, NewestIsAhead
<1>2. IInv /\ Forward /\ [Next]_vars => Forward'
  BY NextKeepsForward DEF IInv
<1> QED
  BY <1>1, <1>2, IInvHolds, PTL DEF Spec

-----------------------------------------------------------------------------
\* Theorems.

(***************************************************************************)
(* Every variable of the board keeps its type.                             *)
(***************************************************************************)
THEOREM BoardIsTyped == Spec => []TypeOK
<1>1. IInv => TypeOK
  BY TypeParts DEF IInv
<1> QED
  BY <1>1, IInvHolds, PTL

(***************************************************************************)
(* No change of query is swallowed by a poll or overtaken by its answer,   *)
(* however many loads are outstanding.                                     *)
(***************************************************************************)
THEOREM QueryIsCurrent == Spec => []NewestLoadAsksTheCurrentQuery
<1>1. IInv => NewestLoadAsksTheCurrentQuery
  BY DEF IInv
<1> QED
  BY <1>1, IInvHolds, PTL

(***************************************************************************)
(* No failure, refusal or sign-out leaves an order locked behind it,       *)
(* however many orders and transitions there are.                          *)
(***************************************************************************)
THEOREM LocksAreReleased == Spec => []LockedMeansUnderWay
<1>1. IInv => LockedMeansUnderWay
  BY DEF IInv
<1> QED
  BY <1>1, IInvHolds, PTL

(***************************************************************************)
(* The double-submit guard holds for any number of orders and presses,     *)
(* until the first sign-out.                                               *)
(***************************************************************************)
THEOREM NoDoubleTransition == Spec => []OneTransitionPerOrder
<1>1. IInv => OneTransitionPerOrder
  BY DEF IInv
<1> QED
  BY <1>1, IInvHolds, PTL

(***************************************************************************)
(* Rule 1 between loads, for any number of loads and whatever fails: none  *)
(* that lands shows an order further back than one that landed before it.  *)
(***************************************************************************)
THEOREM NoLoadGoesBack == Spec => LoadsNeverGoBack
<1>1. ASSUME Typed, Forward, NEW l \in Loads, Answered(l), HoldsToken(l), NEW o \in Orders
      PROVE  Furthest(load[l], o) >= lastSync[o]
  <2>1. lastSync[o] \in Nat
    BY <1>1 DEF Typed, SessionTyped
  <2> QED
    BY <1>1, <2>1 DEF Forward, NewestIsAhead, HoldsToken, Answered, Furthest, LaneIsAhead
<1>2. IInv /\ Forward =>
        [ \A l \in Loads :
            (Answered(l) /\ HoldsToken(l) /\ load'[l] = None) =>
                \A o \in Orders : Furthest(load[l], o) >= lastSync[o] ]_load
  BY <1>1 DEF IInv
<1> QED
  BY <1>2, IInvHolds, ForwardHolds, PTL DEF LoadsNeverGoBack

=============================================================================
