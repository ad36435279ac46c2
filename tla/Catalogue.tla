------------------------------ MODULE Catalogue ------------------------------
(***************************************************************************)
(* The public menu: staff save the order of a cinema's categories, in one  *)
(* transaction, or change one row of the catalogue; customers read it      *)
(* through a Redis that may fail at every command.  A read stands for the  *)
(* version of the catalogue it loaded, the number of writes committed.     *)
(***************************************************************************)
EXTENDS Naturals, Sequences, FiniteSets

CONSTANTS
    Categories,   \* numbers, in the alphabetical order of their names
    Lists,        \* orders staff may submit
    InitialLinks, \* what cinema_categories may hold at the start
    Saves,        \* bound: writes of staff, each made once
    Readers,      \* requests of customers, made again and again
    Faults,       \* what may fail: "get", "set", "generation", "bump", "readback"
    None

ASSUME CategoriesAreNumbers == Categories \subseteq Nat /\ IsFiniteSet(Categories)

ASSUME SavesAreFinite == IsFiniteSet(Saves)

\* CategoryOrder's schema and the check for duplicates leave nothing else.
ASSUME ListsNameEachOnce ==
    \A l \in Lists : /\ l \in Seq(Categories)
                     /\ \A i, j \in DOMAIN l : l[i] = l[j] => i = j

LinkRows == [sequence : Nat, isActive : BOOLEAN]

Links == [Categories -> LinkRows \cup {None}]

ASSUME LinksAreLinks == InitialLinks \subseteq Links

ASSUME NoneIsNothing == None \notin Nat \cup LinkRows \cup Lists

VARIABLES
    links,       \* cinema_categories of the cinema, as committed
    version,     \* how many writes of the catalogue are committed
    save,        \* each request of staff, its list, its transaction's rows
    generation,  \* the counter in Redis
    entries,     \* the responses in Redis, under the generation in their key
    reader,      \* each request of a customer
    last,        \* history: the list saved last
    overlooked,  \* history: what others linked between its reset and its commit
    seen         \* history: the newest write answered whose bump was delivered

vars == <<links, version, save, generation, entries, reader, last, overlooked, seen>>

NoRows == [c \in Categories |-> None]

SaveSteps == {"idle", "reset", "placing", "readback", "bump", "answered", "failed"}

\* `unlinked` is history: the categories of which the reset found no link.
SaveRecords == [at : SaveSteps, list : Lists \cup {None}, placed : Nat,
                rows : Links, unlinked : SUBSET Categories, version : Nat]

Entries == [generation : Nat, value : Nat]

ReaderSteps == {"idle", "get", "load", "store"}

ReaderRecords == [at : ReaderSteps, generation : Nat, value : Nat \cup {None},
                  floor : Nat]

TypeOK ==
    /\ links \in Links
    /\ version \in Nat /\ generation \in Nat /\ seen \in Nat
    /\ save \in [Saves -> SaveRecords]
    /\ entries \subseteq Entries
    /\ reader \in [Readers -> ReaderRecords]
    /\ last \in Lists \cup {None}
    /\ overlooked \subseteq Categories

Init ==
    /\ links \in InitialLinks
    /\ version = 0 /\ generation = 0 /\ seen = 0
    /\ save = [s \in Saves |-> [at |-> "idle", list |-> None, placed |-> 0,
                                rows |-> NoRows, unlinked |-> {}, version |-> 0]]
    /\ entries = {}
    /\ reader = [r \in Readers |-> [at |-> "idle", generation |-> 0,
                                    value |-> None, floor |-> 0]]
    /\ last = None /\ overlooked = {}

-----------------------------------------------------------------------------
\* The order a menu is shown in

\* A link of which is_active is 0 is not read, and unplaced is 0 too.
Sequence(c) == IF links[c] # None /\ links[c].isActive THEN links[c].sequence ELSE 0

\* orderComparator, and CATEGORY_ORDER_SQL of the Consumer.
Before(a, b) ==
    IF (Sequence(a) > 0) # (Sequence(b) > 0) THEN Sequence(a) > 0
    ELSE IF Sequence(a) # Sequence(b) THEN Sequence(a) < Sequence(b)
    ELSE a < b

InOrder ==
    [i \in 1..Cardinality(Categories) |->
        CHOOSE c \in Categories :
            Cardinality({d \in Categories : Before(d, c)}) = i - 1]

ALL_TIME_FAVOURITE == "all time favourite"

UpTo(list, from, to) == SubSeq(list, from, IF to < Len(list) THEN to ELSE Len(list))

\* Mutant: the fixed section is shown and displaces nothing on later pages.
PageThatDisplacesNothing(list, hasFavourites, limit, page) ==
    LET offset == (page - 1) * limit
        fixed == hasFavourites /\ offset = 0
        realLimit == IF fixed THEN limit - 1 ELSE limit
        rows == UpTo(list, offset + 1, offset + realLimit)
    IN  IF fixed THEN <<ALL_TIME_FAVOURITE>> \o rows ELSE rows

\* getCategories.  Every category is taken to have a product on sale here.
Page(list, hasFavourites, limit, page) ==
    LET offset == (page - 1) * limit
        fixed == hasFavourites /\ offset = 0
        realOffset == IF hasFavourites /\ offset > 0 THEN offset - 1 ELSE offset
        realLimit == IF fixed THEN limit - 1 ELSE limit
        rows == UpTo(list, realOffset + 1, realOffset + realLimit)
    IN  IF fixed THEN <<ALL_TIME_FAVOURITE>> \o rows ELSE rows

-----------------------------------------------------------------------------
\* Staff

\* The rows a transaction has written are locked to every other.
Holds(s) == {c \in Categories : save[s].rows[c] # None}

LockedToOthers(s) == UNION {Holds(t) : t \in Saves \ {s}}

\* The cinema is the actor's, and every category is of its chain.
Submit(s, list) ==
    /\ save[s].at = "idle"
    /\ save' = [save EXCEPT ![s].at = "reset", ![s].list = list]
    /\ UNCHANGED <<links, version, generation, entries, reader, last, overlooked, seen>>

Unlinked == {c \in Categories : links[c] = None}

\* UPDATE of every link row the cinema has.  There may be none yet: what is
\* not there is neither reset nor locked.
Unplaced == [c \in Categories |->
    IF links[c] = None THEN None ELSE [links[c] EXCEPT !.sequence = 0]]

\* Mutant: a category dropped from the list keeps its position.
ResetNothing(s) ==
    /\ save[s].at = "reset"
    /\ LockedToOthers(s) = {}
    /\ save' = [save EXCEPT ![s].at = "placing", ![s].unlinked = Unlinked]
    /\ UNCHANGED <<links, version, generation, entries, reader, last, overlooked, seen>>

Reset(s) ==
    /\ save[s].at = "reset"
    /\ LockedToOthers(s) = {}
    /\ save' = [save EXCEPT ![s].at = "placing", ![s].rows = Unplaced,
                            ![s].unlinked = Unlinked]
    /\ UNCHANGED <<links, version, generation, entries, reader, last, overlooked, seen>>

\* findOrCreate of the next link, and its update when it was there: before
\* the transaction, or committed by another since the reset.
Place(s) ==
    LET k == save[s].placed + 1
        c == save[s].list[k]
    IN  /\ save[s].at = "placing" /\ k <= Len(save[s].list)
        /\ c \notin LockedToOthers(s)
        /\ save' = [save EXCEPT ![s].placed = k,
                                ![s].rows[c] = [sequence |-> k, isActive |-> TRUE]]
        /\ UNCHANGED <<links, version, generation, entries, reader, last, overlooked, seen>>

\* The reset did not find them, another save has linked them since, and this
\* one does not place them.
Overlooked(s) == {c \in save[s].unlinked : links[c] # None /\ save[s].rows[c] = None}

Committed(s) == [c \in Categories |->
    IF save[s].rows[c] = None THEN links[c] ELSE save[s].rows[c]]

\* The transaction is over, and so are its locks.
Closed(s, at) ==
    [save[s] EXCEPT !.at = at, !.list = None, !.placed = 0, !.rows = NoRows,
                    !.unlinked = {}]

CommitOrder(s) ==
    /\ save[s].at = "placing" /\ save[s].placed = Len(save[s].list)
    /\ links' = Committed(s)
    /\ version' = version + 1
    /\ last' = save[s].list /\ overlooked' = Overlooked(s)
    /\ save' = [save EXCEPT ![s] = [Closed(s, "readback") EXCEPT !.version = version + 1]]
    /\ UNCHANGED <<generation, entries, reader, seen>>

\* A deadlock's victim, or a statement that failed.
RollBack(s) ==
    /\ save[s].at \in {"reset", "placing"}
    /\ save' = [save EXCEPT ![s] = Closed(s, "failed")]
    /\ UNCHANGED <<links, version, generation, entries, reader, last, overlooked, seen>>

\* The answer is a fresh list; when it cannot be read nothing is bumped.
ReadBack(s) ==
    /\ save[s].at = "readback"
    /\ \/ save' = [save EXCEPT ![s].at = "bump"]
       \/ "readback" \in Faults /\ save' = [save EXCEPT ![s].at = "failed"]
    /\ UNCHANGED <<links, version, generation, entries, reader, last, overlooked, seen>>

\* Every other write of the catalogue: one row, then the bump.
WriteRow(s) ==
    /\ save[s].at = "idle"
    /\ version' = version + 1
    /\ save' = [save EXCEPT ![s].at = "bump", ![s].version = version + 1]
    /\ UNCHANGED <<links, generation, entries, reader, last, overlooked, seen>>

-----------------------------------------------------------------------------
\* The cache

Newer(a, b) == IF a > b THEN a ELSE b

Bump(s) ==
    /\ save[s].at = "bump"
    /\ save' = [save EXCEPT ![s].at = "answered"]
    /\ generation' = generation + 1
    /\ seen' = Newer(seen, save[s].version)
    /\ UNCHANGED <<links, version, entries, reader, last, overlooked>>

\* Redis is away: the INCR is lost and staff are answered all the same.
LoseBump(s) ==
    /\ save[s].at = "bump" /\ "bump" \in Faults
    /\ save' = [save EXCEPT ![s].at = "answered"]
    /\ UNCHANGED <<links, version, generation, entries, reader, last, overlooked, seen>>

\* Mutant: an unset counter is not taken for 0.
ReadGenerationUnparsed(r) ==
    /\ reader[r].at = "idle"
    /\ reader' = [reader EXCEPT ![r] =
           [at |-> "get", generation |-> IF generation = 0 THEN None ELSE generation,
            value |-> None, floor |-> seen]]
    /\ UNCHANGED <<links, version, save, generation, entries, last, overlooked, seen>>

\* currentGeneration: 0 when the counter is unset, or Redis does not answer.
ReadGeneration(r) ==
    /\ reader[r].at = "idle"
    /\ \E g \in {0, generation} :
        /\ g = generation \/ "generation" \in Faults
        /\ reader' = [reader EXCEPT ![r] = [at |-> "get", generation |-> g,
                                            value |-> None, floor |-> seen]]
    /\ UNCHANGED <<links, version, save, generation, entries, last, overlooked, seen>>

Under(g) == {e \in entries : e.generation = g}

Get(r) ==
    /\ reader[r].at = "get"
    /\ \/ \E e \in Under(reader[r].generation) :
            reader' = [reader EXCEPT ![r].at = "idle", ![r].value = e.value]
       \/ /\ Under(reader[r].generation) = {} \/ "get" \in Faults
          /\ reader' = [reader EXCEPT ![r].at = "load"]
    /\ UNCHANGED <<links, version, save, generation, entries, last, overlooked, seen>>

\* produce()
Load(r) ==
    /\ reader[r].at = "load"
    /\ reader' = [reader EXCEPT ![r].at = "store", ![r].value = version]
    /\ UNCHANGED <<links, version, save, generation, entries, last, overlooked, seen>>

\* Mutant: the key is built anew when the response is stored.
StoreUnderTheGenerationOfNow(r) ==
    /\ reader[r].at = "store"
    /\ reader' = [reader EXCEPT ![r].at = "idle"]
    /\ entries' = (entries \ Under(generation))
           \cup {[generation |-> generation, value |-> reader[r].value]}
    /\ UNCHANGED <<links, version, save, generation, last, overlooked, seen>>

\* set: the response replaces the one under its key.
Store(r) ==
    LET g == reader[r].generation
    IN  /\ reader[r].at = "store"
        /\ reader' = [reader EXCEPT ![r].at = "idle"]
        /\ \/ entries' = (entries \ Under(g))
                  \cup {[generation |-> g, value |-> reader[r].value]}
           \/ "set" \in Faults /\ UNCHANGED entries
        /\ UNCHANGED <<links, version, save, generation, last, overlooked, seen>>

\* Mutant: stored without EX.
NeverExpire(g) == Under(g) # {} /\ UNCHANGED vars

\* A TTL passes.
Expire(g) ==
    /\ Under(g) # {}
    /\ entries' = entries \ Under(g)
    /\ UNCHANGED <<links, version, save, generation, reader, last, overlooked, seen>>

\* bound: the counter cannot pass the number of writes
Generations == 0..Cardinality(Saves)

StaffStep(s) ==
    \/ \E list \in Lists : Submit(s, list)
    \/ Reset(s) \/ Place(s) \/ CommitOrder(s) \/ RollBack(s) \/ ReadBack(s)
    \/ WriteRow(s) \/ Bump(s) \/ LoseBump(s)

CustomerStep(r) == ReadGeneration(r) \/ Get(r) \/ Load(r) \/ Store(r)

Next ==
    \/ \E s \in Saves : StaffStep(s)
    \/ \E r \in Readers : CustomerStep(r)
    \/ \E g \in Generations : Expire(g)

Spec == Init /\ [][Next]_vars

\* SET .. EX: Redis expires what it stores.
ExpiringSpec == Spec /\ \A g \in Generations : WF_vars(Expire(g))

-----------------------------------------------------------------------------
\* Properties

(***************************************************************************)
(* cache.service: a write is answered after its bump "so a dashboard that  *)
(* saves and immediately refetches" is not "answered from the generation   *)
(* it just invalidated".  A read that began after such an answer returns   *)
(* that write or a newer one, whatever loads were in flight.               *)
(***************************************************************************)
AnsweredSavesAreSeen ==
    \A r \in Readers :
        reader[r].at = "idle" /\ reader[r].value # None
            => reader[r].value >= reader[r].floor

(***************************************************************************)
(* "A category absent from the list is RESET": the order shown is the list *)
(* saved last, the rest after it by name, though saves interleave, roll    *)
(* back and find the cinema linked or not.  The code does not reach what   *)
(* another save links for the first time between this save's reset and its *)
(* commit; it reaches everything else, and a save no other commits beside  *)
(* is shown whole.                                                         *)
(***************************************************************************)
PlaceIn(list, c) ==
    IF \E i \in DOMAIN list : list[i] = c
    THEN CHOOSE i \in DOMAIN list : list[i] = c
    ELSE Len(list) + 1 + c

ShownAsSavedUnlessOverlooked ==
    last # None =>
        \A a, b \in Categories \ overlooked :
            Before(a, b) <=> PlaceIn(last, a) < PlaceIn(last, b)

(***************************************************************************)
(* getCategories: "Paged over the COMBINED list - the fixed section plus   *)
(* the real categories".  Its pages laid end to end are that list, no      *)
(* entry displaced, repeated or lost, and none is longer than its limit.   *)
(***************************************************************************)
PagesTile ==
    LET menu == InOrder
    IN  \A hasFavourites \in BOOLEAN, limit \in 1..(Len(menu) + 1) :
        LET combined == IF hasFavourites THEN <<ALL_TIME_FAVOURITE>> \o menu ELSE menu
        IN  \A page \in 1..(Len(menu) + 1) :
                Page(menu, hasFavourites, limit, page) =
                    UpTo(combined, (page - 1) * limit + 1, page * limit)

(***************************************************************************)
(* "A response is at most CACHE_TTL_SECONDS old", lost bumps included:     *)
(* once staff stop writing, nothing stale stays in Redis.                  *)
(***************************************************************************)
FreshInTheEnd == <>[](\A e \in entries : e.value = version)

=============================================================================
