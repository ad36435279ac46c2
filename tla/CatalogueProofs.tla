--------------------------- MODULE CatalogueProofs ---------------------------
(***************************************************************************)
(* The menu customers are shown.                                           *)
(*                                                                         *)
(* An answered save is seen, for any staff and customers, whatever of      *)
(* Redis fails but the read of the counter.  `seen` changes only with the  *)
(* counter, so the reads that began under one generation have one floor    *)
(* (SameGenerationSameFloor), what they load is no older than it           *)
(* (LoadedIsNew), and so is all that is stored under that generation       *)
(* (StoredIsNew).  A read that takes a generation for a later one would    *)
(* break the first of these, hence the hypothesis of the theorem.          *)
(*                                                                         *)
(* The menu is shown in the order saved last, but for what another save    *)
(* linked beside it: a transaction that places has a row for every         *)
(* category its reset found and for each it placed (HoldsItsRows), so a    *)
(* commit leaves to others only what was not linked when it began.  And    *)
(* the pages of a menu, whatever it holds, are the parts of the combined   *)
(* list.                                                                   *)
(***************************************************************************)
EXTENDS Catalogue, TLAPS, FiniteSetTheorems

Reading(r) == reader[r].at # "idle"

\* What has been bumped was committed.
BumpsFollowCommits ==
    /\ seen <= version
    /\ \A s \in Saves : save[s].version <= version

\* No read and no entry has a generation that is still to come.
GenerationsHavePassed ==
    /\ \A r \in Readers : Reading(r) => reader[r].generation <= generation
    /\ \A e \in entries : e.generation <= generation

\* The newest generation's floor is the newest write seen.
FloorsOfNow ==
    /\ \A r \in Readers : Reading(r) /\ reader[r].generation = generation =>
           reader[r].floor = seen
    /\ \A e \in entries : e.generation = generation => e.value >= seen

SameGenerationSameFloor ==
    \A r, q \in Readers :
        Reading(r) /\ Reading(q) /\ reader[r].generation = reader[q].generation =>
            reader[r].floor = reader[q].floor

LoadedIsNew ==
    \A r \in Readers :
        /\ Reading(r) => reader[r].floor <= seen
        /\ reader[r].at = "store" =>
               reader[r].value \in Nat /\ reader[r].value >= reader[r].floor

StoredIsNew ==
    \A r \in Readers, e \in entries :
        Reading(r) /\ e.generation = reader[r].generation =>
            e.value >= reader[r].floor

IInv ==
    /\ TypeOK
    /\ BumpsFollowCommits
    /\ GenerationsHavePassed
    /\ FloorsOfNow
    /\ SameGenerationSameFloor
    /\ LoadedIsNew
    /\ StoredIsNew
    /\ AnsweredSavesAreSeen

\* The part of it that speaks of what readers and Redis hold.
CacheInv ==
    /\ GenerationsHavePassed
    /\ FloorsOfNow
    /\ SameGenerationSameFloor
    /\ LoadedIsNew
    /\ StoredIsNew
    /\ AnsweredSavesAreSeen

-----------------------------------------------------------------------------
\* Staff

\* A save's record with other steps, rows and versions is one.
LEMMA SaveTyped ==
    ASSUME TypeOK, NEW s \in Saves, NEW at \in SaveSteps
    PROVE  [save EXCEPT ![s].at = at] \in [Saves -> SaveRecords]
<1>1. save[s] \in SaveRecords
    BY DEF TypeOK
<1>2. [save[s] EXCEPT !.at = at] \in SaveRecords
    BY <1>1 DEF SaveRecords
<1> QED BY <1>2 DEF TypeOK

LEMMA NoRowsAreRows == NoRows \in Links
BY DEF NoRows, Links

\* A request whose transaction is over is one, and has no list.
LEMMA ClosedTyped ==
    ASSUME TypeOK, NEW s \in Saves, NEW at \in SaveSteps
    PROVE  /\ Closed(s, at) \in SaveRecords
           /\ Closed(s, at).at = at /\ Closed(s, at).version = save[s].version
<1>1. save[s] \in SaveRecords
    BY DEF TypeOK
<1> QED BY <1>1, NoRowsAreRows DEF Closed, SaveRecords

LEMMA UnplacedAreRows == TypeOK => Unplaced \in Links
<1> SUFFICES ASSUME TypeOK, NEW c \in Categories
             PROVE  Unplaced[c] \in LinkRows \cup {None}
    BY DEF Unplaced, Links
<1>1. links[c] \in LinkRows \cup {None}
    BY DEF TypeOK, Links
<1>2. links[c] # None => [links[c] EXCEPT !.sequence = 0] \in LinkRows
    BY <1>1 DEF LinkRows
<1> QED BY <1>1, <1>2 DEF Unplaced

\* While a save is under way its record stays one, and commits nothing.
LEMMA SavingTyped ==
    ASSUME TypeOK, BumpsFollowCommits, NEW s \in Saves,
           \/ \E list \in Lists : Submit(s, list)
           \/ Reset(s) \/ Place(s) \/ RollBack(s) \/ ReadBack(s)
    PROVE  TypeOK' /\ BumpsFollowCommits'
<1> USE DEF SaveSteps
<1>1. save[s] \in SaveRecords /\ save \in [Saves -> SaveRecords]
    BY DEF TypeOK
<1>2. ASSUME NEW list \in Lists, Submit(s, list)
      PROVE  /\ save' \in [Saves -> SaveRecords]
             /\ \A t \in Saves : save'[t].version = save[t].version
    BY <1>1, <1>2 DEF Submit, SaveRecords
<1>3. CASE Reset(s)
    <2>1. /\ save' \in [Saves -> SaveRecords]
          /\ \A t \in Saves : save'[t].version = save[t].version
        <3>1. Unlinked \subseteq Categories
            BY DEF Unlinked
        <3> DEFINE to == [save[s] EXCEPT !.at = "placing", !.rows = Unplaced,
                                         !.unlinked = Unlinked]
        <3>2. to \in SaveRecords /\ to.version = save[s].version
            BY <1>1, <3>1, UnplacedAreRows DEF SaveRecords
        <3>3. save' = [save EXCEPT ![s] = to]
            BY <1>1, <1>3 DEF Reset, SaveRecords
        <3> HIDE DEF to
        <3> QED BY <1>1, <3>2, <3>3
    <2> QED BY <1>3, <2>1 DEF Reset, TypeOK, BumpsFollowCommits
<1>4. CASE Place(s)
    <2> DEFINE k == save[s].placed + 1
               c == save[s].list[k]
               row == [sequence |-> k, isActive |-> TRUE]
    <2>1. k \in Nat /\ row \in LinkRows
        BY <1>1 DEF SaveRecords, LinkRows
    <2>2. [save[s].rows EXCEPT ![c] = row] \in Links
        BY <1>1, <2>1 DEF SaveRecords, Links
    <2>3. save' = [save EXCEPT ![s] =
              [save[s] EXCEPT !.placed = k, !.rows = [save[s].rows EXCEPT ![c] = row]]]
        BY <1>1, <1>4 DEF Place, SaveRecords
    <2>4. [save[s] EXCEPT !.placed = k, !.rows = [save[s].rows EXCEPT ![c] = row]]
              \in SaveRecords
        BY <1>1, <2>1, <2>2 DEF SaveRecords
    <2>5. /\ save' \in [Saves -> SaveRecords]
          /\ \A t \in Saves : save'[t].version = save[t].version
        BY <1>1, <2>3, <2>4
    <2> QED BY <1>4, <2>5 DEF Place, TypeOK, BumpsFollowCommits
<1>5. CASE RollBack(s)
    <2>1. /\ save' \in [Saves -> SaveRecords]
          /\ \A t \in Saves : save'[t].version = save[t].version
        BY <1>1, <1>5, ClosedTyped DEF RollBack
    <2> QED BY <1>5, <2>1 DEF RollBack, TypeOK, BumpsFollowCommits
<1>6. CASE ReadBack(s)
    <2>1. PICK at \in {"bump", "failed"} : save' = [save EXCEPT ![s].at = at]
        BY <1>6 DEF ReadBack
    <2>2. /\ save' \in [Saves -> SaveRecords]
          /\ \A t \in Saves : save'[t].version = save[t].version
        BY <1>1, <2>1 DEF SaveRecords
    <2> QED BY <1>6, <2>2 DEF ReadBack, TypeOK, BumpsFollowCommits
<1>7. CASE \E list \in Lists : Submit(s, list)
    BY <1>2, <1>7 DEF Submit, TypeOK, BumpsFollowCommits
<1> QED BY <1>3, <1>4, <1>5, <1>6, <1>7

\* A version that is committed is the newest.
LEMMA CommitsFollow ==
    ASSUME TypeOK, BumpsFollowCommits, version' = version + 1, seen' = seen,
           \A t \in Saves : save'[t].version = save[t].version \/ save'[t].version = version + 1
    PROVE  BumpsFollowCommits'
<1>1. seen \in Nat /\ version \in Nat /\ \A t \in Saves : save[t].version \in Nat
    BY DEF TypeOK, SaveRecords
<1> QED BY <1>1 DEF BumpsFollowCommits

LEMMA CommitsAreTyped ==
    ASSUME TypeOK, NEW s \in Saves,
           version' = version + 1, save' \in [Saves -> SaveRecords],
           \/ links' = links /\ last' = last /\ overlooked' = overlooked
           \/ /\ links' \in Links /\ last' = save[s].list
              /\ overlooked' \subseteq Categories,
           UNCHANGED <<generation, entries, reader, seen>>
    PROVE  TypeOK'
<1>1. save[s].list \in Lists \cup {None}
    BY DEF TypeOK, SaveRecords
<1> QED BY <1>1 DEF TypeOK

\* A committed save, or the write of one row, is the newest version.
LEMMA CommittingTyped ==
    ASSUME TypeOK, BumpsFollowCommits, NEW s \in Saves, CommitOrder(s) \/ WriteRow(s)
    PROVE  TypeOK' /\ BumpsFollowCommits'
<1>1. save[s] \in SaveRecords /\ save \in [Saves -> SaveRecords] /\ version \in Nat
    BY DEF TypeOK
<1>2. Committed(s) \in Links
    BY <1>1 DEF Committed, Links, SaveRecords, TypeOK
<1>5. version + 1 \in Nat
    BY <1>1
<1>3. CASE CommitOrder(s)
    <2> DEFINE to == [Closed(s, "readback") EXCEPT !.version = version + 1]
    <2>1. save' = [save EXCEPT ![s] = to]
        BY <1>3 DEF CommitOrder
    <2>2. to \in SaveRecords /\ to.version = version + 1
        <3>1. Closed(s, "readback") \in SaveRecords
            BY ClosedTyped DEF SaveSteps
        <3> QED BY <1>5, <3>1 DEF SaveRecords
    <2> HIDE DEF to
    <2>3. save' \in [Saves -> SaveRecords]
        BY <1>1, <2>1, <2>2
    <2>4. \A t \in Saves : save'[t].version = save[t].version \/ save'[t].version = version + 1
        BY <1>1, <2>1, <2>2
    <2>5. overlooked' \subseteq Categories
        BY <1>1, <1>3 DEF CommitOrder, Overlooked, SaveRecords
    <2> QED BY <1>1, <1>2, <1>3, <2>3, <2>4, <2>5, CommitsFollow, CommitsAreTyped
             DEF CommitOrder
<1>4. CASE WriteRow(s)
    <2>1. save' = [save EXCEPT ![s] =
              [save[s] EXCEPT !.at = "bump", !.version = version + 1]]
        BY <1>1, <1>4 DEF WriteRow
    <2>2. [save[s] EXCEPT !.at = "bump", !.version = version + 1] \in SaveRecords
        BY <1>1, <1>5 DEF SaveRecords, SaveSteps
    <2>3. save' \in [Saves -> SaveRecords]
        BY <1>1, <2>1, <2>2
    <2>4. \A t \in Saves : save'[t].version = save[t].version \/ save'[t].version = version + 1
        BY <1>1, <2>1 DEF SaveRecords
    <2> QED BY <1>1, <1>4, <2>3, <2>4, CommitsFollow, CommitsAreTyped DEF WriteRow
<1> QED BY <1>3, <1>4

LEMMA BumpingTyped ==
    ASSUME TypeOK, BumpsFollowCommits, NEW s \in Saves, Bump(s) \/ LoseBump(s)
    PROVE  TypeOK' /\ BumpsFollowCommits'
<1>1. save[s] \in SaveRecords /\ save \in [Saves -> SaveRecords]
    BY DEF TypeOK
<1>2. /\ save' \in [Saves -> SaveRecords]
      /\ \A t \in Saves : save'[t].version = save[t].version
    BY <1>1 DEF Bump, LoseBump, SaveRecords, SaveSteps
<1>3. save[s].version \in Nat /\ seen \in Nat /\ generation \in Nat
    BY <1>1 DEF SaveRecords, TypeOK
<1>4. seen' \in {seen, save[s].version} /\ generation' \in Nat
    BY <1>3 DEF Bump, LoseBump, Newer
<1>5. UNCHANGED <<links, version, entries, reader, last, overlooked>>
    BY DEF Bump, LoseBump
<1> QED BY <1>2, <1>3, <1>4, <1>5 DEF TypeOK, BumpsFollowCommits

\* What staff do but the bump touches nothing the cache's part speaks of.
LEMMA WritingKeepsCache ==
    ASSUME CacheInv, UNCHANGED <<generation, seen, entries, reader>>
    PROVE  CacheInv'
BY DEF CacheInv, GenerationsHavePassed, FloorsOfNow, SameGenerationSameFloor,
       LoadedIsNew, StoredIsNew, AnsweredSavesAreSeen, Reading

\* After a bump nothing is of the newest generation yet.
LEMMA BumpKeepsCache ==
    ASSUME TypeOK, CacheInv, NEW s \in Saves, Bump(s)
    PROVE  CacheInv'
<1>1. /\ generation' = generation + 1 /\ UNCHANGED <<entries, reader>>
      /\ seen' \in Nat /\ seen' >= seen
    <2>1. save[s].version \in Nat /\ seen \in Nat
        BY DEF TypeOK, SaveRecords
    <2> QED BY <2>1 DEF Bump, Newer
<1>2. /\ generation \in Nat /\ seen \in Nat
      /\ \A r \in Readers : reader[r].generation \in Nat /\ reader[r].floor \in Nat
      /\ \A e \in entries : e.generation \in Nat
    BY DEF TypeOK, ReaderRecords, Entries
<1>3. GenerationsHavePassed'
    BY <1>1, <1>2 DEF CacheInv, GenerationsHavePassed, Reading
<1>4. FloorsOfNow'
    BY <1>1, <1>2 DEF CacheInv, GenerationsHavePassed, FloorsOfNow, Reading
<1>5. LoadedIsNew'
    BY <1>1, <1>2 DEF CacheInv, LoadedIsNew, Reading
<1> QED BY <1>1, <1>3, <1>4, <1>5 DEF CacheInv, SameGenerationSameFloor, StoredIsNew,
                                AnsweredSavesAreSeen, Reading

-----------------------------------------------------------------------------
\* Customers

\* The types of all a reader touches.
LEMMA ReadersTyped ==
    ASSUME TypeOK
    PROVE  /\ reader \in [Readers -> ReaderRecords]
           /\ version \in Nat /\ generation \in Nat /\ seen \in Nat
           /\ \A e \in entries : e \in Entries /\ e.generation \in Nat /\ e.value \in Nat
           /\ \A r \in Readers :
                  /\ reader[r] \in ReaderRecords
                  /\ reader[r].generation \in Nat /\ reader[r].floor \in Nat
                  /\ reader[r].value \in Nat \cup {None}
BY DEF TypeOK, ReaderRecords, Entries

\* A read begins under the counter's generation, with its floor.
LEMMA ReadGenerationKeeps ==
    ASSUME "generation" \notin Faults, IInv, NEW r \in Readers, ReadGeneration(r)
    PROVE  TypeOK' /\ CacheInv'
<1> DEFINE begun == [at |-> "get", generation |-> generation, value |-> None, floor |-> seen]
<1>1. reader' = [reader EXCEPT ![r] = begun]
    BY DEF ReadGeneration
<1>2. UNCHANGED <<links, version, save, generation, entries, last, overlooked, seen>>
    BY DEF ReadGeneration
<1>3. begun \in ReaderRecords
    BY DEF IInv, TypeOK, ReaderRecords, ReaderSteps
<1>4. TypeOK'
    BY <1>1, <1>2, <1>3 DEF IInv, TypeOK
<1>5. \A q \in Readers : reader'[q] = IF q = r THEN begun ELSE reader[q]
    BY <1>1 DEF IInv, TypeOK
<1>6. generation \in Nat /\ seen \in Nat
    BY DEF IInv, TypeOK
<1>7. GenerationsHavePassed' /\ FloorsOfNow'
    BY <1>2, <1>5, <1>6 DEF IInv, GenerationsHavePassed, FloorsOfNow, Reading
<1>8. SameGenerationSameFloor'
    BY <1>2, <1>5, <1>6 DEF IInv, FloorsOfNow, SameGenerationSameFloor, Reading
<1>9. LoadedIsNew'
    BY <1>2, <1>5, <1>6 DEF IInv, LoadedIsNew, Reading
<1>10. StoredIsNew'
    BY <1>2, <1>5, <1>6 DEF IInv, FloorsOfNow, StoredIsNew, Reading
<1>11. AnsweredSavesAreSeen'
    BY <1>2, <1>5 DEF IInv, AnsweredSavesAreSeen
<1> QED BY <1>4, <1>7, <1>8, <1>9, <1>10, <1>11 DEF CacheInv

\* A step that changes no generation and no floor changes nobody's share.
LEMMA SameRecordsSameFloors ==
    ASSUME SameGenerationSameFloor,
           \A q \in Readers : /\ reader'[q].generation = reader[q].generation
                              /\ reader'[q].floor = reader[q].floor
                              /\ reader'[q].at # "idle" => reader[q].at # "idle"
    PROVE  SameGenerationSameFloor'
<1>1. ASSUME NEW r \in Readers, NEW q \in Readers,
             reader'[r].at # "idle", reader'[q].at # "idle",
             reader'[r].generation = reader'[q].generation
      PROVE  reader'[r].floor = reader'[q].floor
    <2>1. /\ reader[r].at # "idle" /\ reader[q].at # "idle"
          /\ reader[r].generation = reader[q].generation
        BY <1>1
    <2>2. reader[r].floor = reader[q].floor
        BY <2>1 DEF SameGenerationSameFloor, Reading
    <2> QED BY <2>2
<1> QED BY <1>1 DEF SameGenerationSameFloor, Reading

\* A reader that goes on under its generation, with a value no older than
\* its floor once it has one to store or to answer with.
LEMMA GoingOnKeeps ==
    ASSUME IInv, NEW r \in Readers, Reading(r),
           NEW at \in ReaderSteps, NEW value \in Nat \cup {None},
           reader' = [reader EXCEPT ![r].at = at, ![r].value = value],
           at \in {"store", "idle"} => value \in Nat /\ value >= reader[r].floor,
           UNCHANGED <<links, version, save, generation, entries, last, overlooked, seen>>
    PROVE  TypeOK' /\ CacheInv'
<1> DEFINE on == [reader[r] EXCEPT !.at = at, !.value = value]
<1>1. reader[r] \in ReaderRecords /\ reader \in [Readers -> ReaderRecords]
    BY DEF IInv, TypeOK
<1>2. on \in ReaderRecords /\ reader' = [reader EXCEPT ![r] = on]
    BY <1>1 DEF ReaderRecords
<1>3. TypeOK'
    BY <1>1, <1>2 DEF IInv, TypeOK
<1>4. /\ \A q \in Readers : q # r => reader'[q] = reader[q]
      /\ reader'[r].at = at /\ reader'[r].value = value
      /\ reader'[r].generation = reader[r].generation
      /\ reader'[r].floor = reader[r].floor
    BY <1>1 DEF ReaderRecords
<1>5. \A q \in Readers : /\ reader'[q].generation = reader[q].generation
                         /\ reader'[q].floor = reader[q].floor
                         /\ reader'[q].at # "idle" => reader[q].at # "idle"
    BY <1>4 DEF Reading
<1>6. GenerationsHavePassed' /\ FloorsOfNow'
    BY <1>5 DEF IInv, GenerationsHavePassed, FloorsOfNow, Reading
<1>9. SameGenerationSameFloor'
    BY <1>5, SameRecordsSameFloors DEF IInv
<1>10. StoredIsNew'
    <2>1. ASSUME NEW q \in Readers, NEW e \in entries, reader'[q].at # "idle",
                 e.generation = reader'[q].generation
          PROVE  e.value >= reader'[q].floor
        <3>1. Reading(q) /\ e.generation = reader[q].generation
            BY <1>5, <2>1 DEF Reading
        <3>2. e.value >= reader[q].floor
            BY <3>1 DEF IInv, StoredIsNew
        <3> QED BY <1>5, <3>2
    <2> QED BY <2>1 DEF StoredIsNew, Reading
<1>7. LoadedIsNew'
    BY <1>4, <1>5 DEF IInv, LoadedIsNew, Reading
<1>8. AnsweredSavesAreSeen'
    BY <1>4, <1>5 DEF IInv, AnsweredSavesAreSeen
<1> QED BY <1>3, <1>6, <1>7, <1>8, <1>9, <1>10 DEF CacheInv

LEMMA GetKeeps ==
    ASSUME IInv, NEW r \in Readers, Get(r)
    PROVE  TypeOK' /\ CacheInv'
<1>1. /\ Reading(r)
      /\ UNCHANGED <<links, version, save, generation, entries, last, overlooked, seen>>
      /\ reader[r].value \in Nat \cup {None}
    BY ReadersTyped DEF Get, Reading, IInv
<1>2. ASSUME NEW e \in Under(reader[r].generation),
             reader' = [reader EXCEPT ![r].at = "idle", ![r].value = e.value]
      PROVE  TypeOK' /\ CacheInv'
    <2>1. e \in entries /\ e.generation = reader[r].generation
        BY DEF Under
    <2>2. e.value \in Nat /\ e.value >= reader[r].floor
        BY <1>1, <2>1, ReadersTyped DEF IInv, StoredIsNew
    <2> QED BY <1>1, <1>2, <2>2, GoingOnKeeps DEF ReaderSteps
<1>3. CASE reader' = [reader EXCEPT ![r].at = "load"]
    <2>1. reader' = [reader EXCEPT ![r].at = "load", ![r].value = reader[r].value]
        BY <1>3, ReadersTyped DEF IInv, ReaderRecords
    <2> QED BY <1>1, <2>1, GoingOnKeeps DEF ReaderSteps
<1> QED BY <1>2, <1>3 DEF Get

\* What is loaded now is the newest write, so newer than any floor.
LEMMA LoadKeeps ==
    ASSUME IInv, NEW r \in Readers, Load(r)
    PROVE  TypeOK' /\ CacheInv'
<1>1. reader[r].floor <= seen /\ seen <= version
    BY DEF Load, Reading, IInv, LoadedIsNew, BumpsFollowCommits
<1>2. version \in Nat /\ version >= reader[r].floor
    BY <1>1, ReadersTyped DEF IInv
<1> QED BY <1>2, GoingOnKeeps DEF Load, Reading, ReaderSteps

\* An entry is stored under the generation its reader began with.
LEMMA StoreKeeps ==
    ASSUME IInv, NEW r \in Readers, Store(r)
    PROVE  TypeOK' /\ CacheInv'
<1> DEFINE new == [generation |-> reader[r].generation, value |-> reader[r].value]
<1>1. reader[r].value \in Nat /\ reader[r].value >= reader[r].floor /\ Reading(r)
    BY DEF Store, IInv, LoadedIsNew, Reading
<1>2. entries' \subseteq entries \cup {new}
    BY DEF Store
<1>3. /\ reader' = [reader EXCEPT ![r].at = "idle"]
      /\ UNCHANGED <<links, version, save, generation, last, overlooked, seen>>
    BY DEF Store
<1>4. /\ reader \in [Readers -> ReaderRecords] /\ reader[r] \in ReaderRecords
      /\ reader[r].generation \in Nat
    BY ReadersTyped DEF IInv
<1>5. new \in Entries
    BY <1>1, <1>4 DEF Entries
<1>6. [reader[r] EXCEPT !.at = "idle"] \in ReaderRecords
    BY <1>4 DEF ReaderRecords, ReaderSteps
<1>7. TypeOK'
    BY <1>2, <1>3, <1>4, <1>5, <1>6 DEF IInv, TypeOK
<1>8. \A q \in Readers : /\ reader'[q].generation = reader[q].generation
                         /\ reader'[q].floor = reader[q].floor
                         /\ reader'[q].value = reader[q].value
                         /\ reader'[q].at # "idle" => reader[q].at # "idle"
                         /\ q # r => reader'[q] = reader[q]
    BY <1>3, <1>4 DEF ReaderRecords, Reading
<1>9. reader'[r].at = "idle"
    BY <1>3, <1>4 DEF ReaderRecords
<1>10. new.generation = reader[r].generation /\ new.value = reader[r].value
    OBVIOUS
<1> HIDE DEF new
<1>11. GenerationsHavePassed'
    BY <1>1, <1>2, <1>3, <1>8, <1>10 DEF IInv, GenerationsHavePassed, Reading
<1>12. FloorsOfNow'
    <2>1. ASSUME NEW e \in entries', e.generation = generation PROVE e.value >= seen
        BY <1>1, <1>2, <1>10, <2>1 DEF IInv, FloorsOfNow
    <2> QED BY <1>3, <1>8, <2>1 DEF IInv, FloorsOfNow, Reading
<1>13. SameGenerationSameFloor'
    BY <1>8, SameRecordsSameFloors DEF IInv
<1>14. LoadedIsNew'
    BY <1>3, <1>8, <1>9 DEF IInv, LoadedIsNew, Reading
<1>15. StoredIsNew'
    <2>1. ASSUME NEW q \in Readers, NEW e \in entries', Reading(q),
                 e.generation = reader[q].generation
          PROVE  e.value >= reader[q].floor
        BY <1>1, <1>2, <1>10, <2>1 DEF IInv, StoredIsNew, SameGenerationSameFloor
    <2>2. ASSUME NEW q \in Readers, NEW e \in entries', reader'[q].at # "idle",
                 e.generation = reader'[q].generation
          PROVE  e.value >= reader'[q].floor
        <3>1. Reading(q) /\ e.generation = reader[q].generation
            BY <1>8, <2>2 DEF Reading
        <3>2. e.value >= reader[q].floor
            BY <2>1, <3>1
        <3> QED BY <1>8, <3>2
    <2> QED BY <2>2 DEF StoredIsNew, Reading
<1>16. AnsweredSavesAreSeen'
    <2>1. ASSUME NEW q \in Readers, reader'[q].at = "idle", reader'[q].value # None
          PROVE  reader'[q].value >= reader'[q].floor
        <3>1. CASE q = r
            <4>1. reader'[r].value = reader[r].value /\ reader'[r].floor = reader[r].floor
                BY <1>8
            <4> QED BY <1>1, <3>1, <4>1
        <3>2. CASE q # r
            <4>1. reader'[q] = reader[q]
                BY <1>8, <3>2
            <4> QED BY <2>1, <4>1 DEF IInv, AnsweredSavesAreSeen
        <3> QED BY <3>1, <3>2
    <2> QED BY <2>1 DEF AnsweredSavesAreSeen
<1> QED BY <1>7, <1>11, <1>12, <1>13, <1>14, <1>15, <1>16 DEF CacheInv

\* A response that is gone misleads nobody.
LEMMA ExpireKeeps ==
    ASSUME IInv, NEW g, Expire(g)
    PROVE  TypeOK' /\ CacheInv'
<1>1. /\ entries' \subseteq entries
      /\ UNCHANGED <<links, version, save, generation, reader, last, overlooked, seen>>
    BY DEF Expire
<1>2. TypeOK'
    BY <1>1 DEF IInv, TypeOK
<1> QED BY <1>1, <1>2 DEF IInv, CacheInv, GenerationsHavePassed, FloorsOfNow,
              SameGenerationSameFloor, LoadedIsNew, StoredIsNew, AnsweredSavesAreSeen, Reading

-----------------------------------------------------------------------------
\* The invariant

LEMMA InitEstablishesIInv == Init => IInv
<1> SUFFICES ASSUME Init PROVE IInv
    OBVIOUS
<1>1. links \in Links
    BY LinksAreLinks DEF Init
<1>2. save \in [Saves -> SaveRecords]
    BY NoRowsAreRows DEF Init, SaveRecords, SaveSteps
<1>3. reader \in [Readers -> ReaderRecords]
    BY DEF Init, ReaderRecords, ReaderSteps
<1>4. TypeOK
    BY <1>1, <1>2, <1>3 DEF Init, TypeOK
<1> QED BY <1>4 DEF Init, IInv, BumpsFollowCommits, GenerationsHavePassed, FloorsOfNow,
              SameGenerationSameFloor, LoadedIsNew, StoredIsNew, AnsweredSavesAreSeen, Reading

LEMMA StaffStepKeeps ==
    ASSUME IInv, NEW s \in Saves, StaffStep(s)
    PROVE  IInv'
<1>1. CacheInv
    BY DEF IInv, CacheInv
<1>2. TypeOK' /\ BumpsFollowCommits'
    BY SavingTyped, CommittingTyped, BumpingTyped DEF StaffStep, IInv
<1>3. CacheInv'
    <2>1. CASE Bump(s)
        BY <1>1, <2>1, BumpKeepsCache DEF IInv
    <2>2. CASE ~Bump(s)
        <3>1. UNCHANGED <<generation, seen, entries, reader>>
            BY <2>2 DEF StaffStep, Submit, Reset, Place, CommitOrder, RollBack, ReadBack,
                        WriteRow, LoseBump
        <3> QED BY <1>1, <3>1, WritingKeepsCache
    <2> QED BY <2>1, <2>2
<1> QED BY <1>2, <1>3 DEF IInv, CacheInv

LEMMA NextKeepsIInv ==
    ASSUME "generation" \notin Faults, IInv, [Next]_vars
    PROVE  IInv'
<1>1. ASSUME NEW s \in Saves, StaffStep(s) PROVE IInv'
    BY <1>1, StaffStepKeeps
<1>2. ASSUME NEW r \in Readers, CustomerStep(r) PROVE IInv'
    <2>1. TypeOK' /\ CacheInv'
        BY <1>2, ReadGenerationKeeps, GetKeeps, LoadKeeps, StoreKeeps DEF CustomerStep
    <2>2. UNCHANGED <<version, save, seen>>
        BY <1>2 DEF CustomerStep, ReadGeneration, Get, Load, Store
    <2> QED BY <2>1, <2>2 DEF IInv, CacheInv, BumpsFollowCommits
<1>3. ASSUME NEW g \in Generations, Expire(g) PROVE IInv'
    <2>1. TypeOK' /\ CacheInv'
        BY <1>3, ExpireKeeps
    <2>2. UNCHANGED <<version, save, seen>>
        BY <1>3 DEF Expire
    <2> QED BY <2>1, <2>2 DEF IInv, CacheInv, BumpsFollowCommits
<1>4. ASSUME UNCHANGED vars PROVE IInv'
    BY <1>4 DEF vars, IInv, TypeOK, BumpsFollowCommits, GenerationsHavePassed, FloorsOfNow,
        SameGenerationSameFloor, LoadedIsNew, StoredIsNew, AnsweredSavesAreSeen, Reading
<1> QED BY <1>1, <1>2, <1>3, <1>4 DEF Next

-----------------------------------------------------------------------------
\* Theorems

(***************************************************************************)
(* "A dashboard that saves and immediately refetches" is never answered    *)
(* from before its save, for any categories, staff and customers, whatever *)
(* fails but the read of the counter.                                      *)
(***************************************************************************)
THEOREM AnsweredSavesAreAlwaysSeen ==
    ASSUME "generation" \notin Faults
    PROVE  Spec => []AnsweredSavesAreSeen
<1>1. Init => IInv
    BY InitEstablishesIInv
<1>2. IInv /\ [Next]_vars => IInv'
    BY NextKeepsIInv
<1>3. IInv => AnsweredSavesAreSeen
    BY DEF IInv
<1> QED BY <1>1, <1>2, <1>3, PTL DEF Spec

-----------------------------------------------------------------------------
\* Types, whatever fails

LoadedIsAVersion == \A r \in Readers : reader[r].at = "store" => reader[r].value \in Nat

Typed == TypeOK /\ BumpsFollowCommits /\ LoadedIsAVersion

\* A reader's record with another step and value is one.
LEMMA ReaderGoesOn ==
    ASSUME TypeOK, LoadedIsAVersion, NEW r \in Readers,
           NEW to \in ReaderRecords, to.at = "store" => to.value \in Nat,
           reader' = [reader EXCEPT ![r] = to],
           UNCHANGED <<links, version, save, generation, last, overlooked, seen>>,
           entries' \subseteq Entries
    PROVE  TypeOK' /\ LoadedIsAVersion'
<1>1. reader \in [Readers -> ReaderRecords]
    BY DEF TypeOK
<1>2. TypeOK'
    BY <1>1 DEF TypeOK
<1> QED BY <1>1, <1>2 DEF LoadedIsAVersion

LEMMA CustomerStepTyped ==
    ASSUME Typed, NEW r \in Readers, CustomerStep(r)
    PROVE  TypeOK' /\ LoadedIsAVersion'
<1>1. /\ reader \in [Readers -> ReaderRecords] /\ reader[r] \in ReaderRecords
      /\ reader[r].generation \in Nat /\ reader[r].floor \in Nat
      /\ reader[r].value \in Nat \cup {None}
      /\ version \in Nat /\ generation \in Nat /\ seen \in Nat
      /\ entries \subseteq Entries
    BY ReadersTyped DEF Typed, TypeOK
<1>2. ASSUME NEW at \in ReaderSteps, NEW value \in Nat \cup {None}
      PROVE  [reader[r] EXCEPT !.at = at, !.value = value] \in ReaderRecords
    BY <1>1, <1>2 DEF ReaderRecords
<1>3. CASE ReadGeneration(r)
    <2>1. PICK g \in {0, generation} :
              reader' = [reader EXCEPT ![r] = [at |-> "get", generation |-> g,
                                               value |-> None, floor |-> seen]]
        BY <1>3 DEF ReadGeneration
    <2>2. [at |-> "get", generation |-> g, value |-> None, floor |-> seen] \in ReaderRecords
        BY <1>1, <2>1 DEF ReaderRecords, ReaderSteps
    <2> QED BY <1>1, <1>3, <2>1, <2>2, ReaderGoesOn DEF ReadGeneration, Typed
<1>4. CASE Get(r)
    <2>1. CASE reader' = [reader EXCEPT ![r].at = "load"]
        <3>1. [reader[r] EXCEPT !.at = "load"] \in ReaderRecords
            BY <1>1 DEF ReaderRecords, ReaderSteps
        <3> QED BY <1>1, <1>4, <2>1, <3>1, ReaderGoesOn DEF Get, Typed, ReaderRecords
    <2>2. CASE \E e \in Under(reader[r].generation) :
                   reader' = [reader EXCEPT ![r].at = "idle", ![r].value = e.value]
        <3>1. PICK e \in entries :
                  reader' = [reader EXCEPT ![r].at = "idle", ![r].value = e.value]
            BY <2>2 DEF Under
        <3>2. e.value \in Nat
            BY <1>1 DEF Entries
        <3> DEFINE to == [reader[r] EXCEPT !.at = "idle", !.value = e.value]
        <3>3. to \in ReaderRecords /\ to.at = "idle"
            BY <1>1, <1>2, <3>2 DEF ReaderSteps, ReaderRecords
        <3>4. reader' = [reader EXCEPT ![r] = to]
            BY <1>1, <3>1
        <3> HIDE DEF to
        <3> QED BY <1>1, <1>4, <3>3, <3>4, ReaderGoesOn DEF Get, Typed
    <2> QED BY <1>4, <2>1, <2>2 DEF Get
<1>5. CASE Load(r)
    <2> DEFINE to == [reader[r] EXCEPT !.at = "store", !.value = version]
    <2>1. to \in ReaderRecords /\ to.value = version
        BY <1>1, <1>2 DEF ReaderSteps, ReaderRecords
    <2>2. reader' = [reader EXCEPT ![r] = to]
        BY <1>1, <1>5 DEF Load
    <2> HIDE DEF to
    <2> QED BY <1>1, <1>5, <2>1, <2>2, ReaderGoesOn DEF Load, Typed
<1>6. CASE Store(r)
    <2>1. [reader[r] EXCEPT !.at = "idle"] \in ReaderRecords
        BY <1>1 DEF ReaderRecords, ReaderSteps
    <2>2. reader[r].value \in Nat
        BY <1>6 DEF Store, Typed, LoadedIsAVersion
    <2>3. [generation |-> reader[r].generation, value |-> reader[r].value] \in Entries
        BY <1>1, <2>2 DEF Entries
    <2>4. entries' \subseteq Entries
        BY <1>1, <1>6, <2>3 DEF Store
    <2>5. [reader[r] EXCEPT !.at = "idle"].at # "store"
        BY <1>1 DEF ReaderRecords
    <2> QED BY <1>6, <2>1, <2>4, <2>5, ReaderGoesOn DEF Store, Typed
<1> QED BY <1>3, <1>4, <1>5, <1>6 DEF CustomerStep

LEMMA InitTyped == Init => Typed
BY InitEstablishesIInv DEF Init, IInv, Typed, LoadedIsAVersion

LEMMA NextTyped == Typed /\ [Next]_vars => Typed'
<1> SUFFICES ASSUME Typed, [Next]_vars PROVE Typed'
    OBVIOUS
<1>1. ASSUME NEW s \in Saves, StaffStep(s) PROVE Typed'
    <2>1. TypeOK' /\ BumpsFollowCommits'
        BY <1>1, SavingTyped, CommittingTyped, BumpingTyped DEF StaffStep, Typed
    <2>2. UNCHANGED reader
        BY <1>1 DEF StaffStep, Submit, Reset, Place, CommitOrder, RollBack, ReadBack,
                    WriteRow, Bump, LoseBump
    <2> QED BY <2>1, <2>2 DEF Typed, LoadedIsAVersion
<1>2. ASSUME NEW r \in Readers, CustomerStep(r) PROVE Typed'
    <2>1. UNCHANGED <<version, save, seen>>
        BY <1>2 DEF CustomerStep, ReadGeneration, Get, Load, Store
    <2> QED BY <1>2, <2>1, CustomerStepTyped DEF Typed, BumpsFollowCommits
<1>3. ASSUME NEW g \in Generations, Expire(g) PROVE Typed'
    BY <1>3 DEF Expire, Typed, TypeOK, BumpsFollowCommits, LoadedIsAVersion
<1>4. CASE UNCHANGED vars
    BY <1>4 DEF vars, Typed, TypeOK, BumpsFollowCommits, LoadedIsAVersion
<1> QED BY <1>1, <1>2, <1>3, <1>4 DEF Next

(***************************************************************************)
(* Every variable keeps its type, whatever of Redis fails.                 *)
(***************************************************************************)
THEOREM CatalogueTyped == Spec => []TypeOK
<1>1. Typed => TypeOK
    BY DEF Typed
<1> QED BY InitTyped, NextTyped, <1>1, PTL DEF Spec

-----------------------------------------------------------------------------
\* The order saved last

\* What a row says of a category once k entries of a list are placed: its
\* place, or none.
PlacedBy(list, k, c, row) ==
    \/ \E i \in 1..k : list[i] = c /\ row = [sequence |-> i, isActive |-> TRUE]
    \/ row.sequence = 0 /\ \A i \in 1..k : list[i] # c

\* A transaction that places has a row for all that its reset found linked
\* and for all that it placed.
HoldsItsRows(request) ==
    /\ request.at \in {"idle", "reset"} => request.placed = 0
    /\ request.at \in {"reset", "placing"} => request.list \in Lists
    /\ request.at = "placing" =>
         /\ request.placed <= Len(request.list)
         /\ \A c \in Categories :
              IF request.rows[c] = None
              THEN c \in request.unlinked /\ \A i \in 1..request.placed : request.list[i] # c
              ELSE PlacedBy(request.list, request.placed, c, request.rows[c])

\* What is committed is the whole of one list, but for what it overlooked.
LinksAreOfTheLast ==
    last # None => \A c \in Categories \ overlooked :
        IF links[c] = None
        THEN \A i \in 1..Len(last) : last[i] # c
        ELSE PlacedBy(last, Len(last), c, links[c])

OrderInv ==
    /\ Typed
    /\ \A s \in Saves : HoldsItsRows(save[s])
    /\ LinksAreOfTheLast

\* A request that moves, and moves no other.
LEMMA RequestMoves ==
    ASSUME OrderInv, NEW s \in Saves, NEW to,
           save' = [save EXCEPT ![s] = to],
           HoldsItsRows(to)
    PROVE  \A t \in Saves : HoldsItsRows(save'[t])
<1>1. save \in [Saves -> SaveRecords]
    BY DEF OrderInv, Typed, TypeOK
<1>2. \A t \in Saves : save'[t] = IF t = s THEN to ELSE save[t]
    BY <1>1
<1> QED BY <1>2 DEF OrderInv

\* What is not in a transaction holds nothing.
LEMMA NothingHeld ==
    ASSUME NEW to, to.at \in {"readback", "bump", "answered", "failed"}
    PROVE  HoldsItsRows(to)
BY DEF HoldsItsRows

\* The UPDATE that every transaction begins with unplaces all it finds.
LEMMA ResetUnplaces ==
    ASSUME OrderInv, NEW s \in Saves, Reset(s)
    PROVE  \A t \in Saves : HoldsItsRows(save'[t])
<1> DEFINE to == [save[s] EXCEPT !.at = "placing", !.rows = Unplaced, !.unlinked = Unlinked]
<1>1. save[s] \in SaveRecords /\ save \in [Saves -> SaveRecords] /\ links \in Links
    BY DEF OrderInv, Typed, TypeOK
<1>2. save' = [save EXCEPT ![s] = to]
    BY <1>1 DEF Reset, SaveRecords
<1>3. /\ to.at = "placing" /\ to.rows = Unplaced /\ to.unlinked = Unlinked
      /\ to.list = save[s].list /\ to.placed = save[s].placed
    BY <1>1 DEF SaveRecords
<1>4. to.list \in Lists /\ to.placed = 0
    BY <1>3 DEF Reset, OrderInv, HoldsItsRows
<1>5. to.list \in Seq(Categories)
    BY <1>4, ListsNameEachOnce
<1>6. ASSUME NEW c \in Categories
      PROVE  IF Unplaced[c] = None THEN c \in Unlinked ELSE Unplaced[c].sequence = 0
    <2>1. CASE links[c] = None
        BY <2>1 DEF Unplaced, Unlinked
    <2>2. CASE links[c] # None
        <3>1. links[c] \in LinkRows
            BY <1>1, <2>2 DEF Links
        <3>2. Unplaced[c] = [links[c] EXCEPT !.sequence = 0]
            BY <2>2 DEF Unplaced
        <3>3. Unplaced[c] \in LinkRows /\ Unplaced[c].sequence = 0
            BY <3>1, <3>2 DEF LinkRows
        <3> QED BY <3>3, NoneIsNothing
    <2> QED BY <2>1, <2>2
<1> HIDE DEF to
<1>7. HoldsItsRows(to)
    <2>1. 0 <= Len(to.list)
        BY <1>5
    <2>2. 1..to.placed = {}
        BY <1>4
    <2> QED BY <1>3, <1>4, <1>6, <2>1, <2>2 DEF HoldsItsRows, PlacedBy
<1> QED BY <1>2, <1>7, RequestMoves

\* The next entry's row gets its place, and no other row changes.
LEMMA PlaceGoesOn ==
    ASSUME OrderInv, NEW s \in Saves, Place(s)
    PROVE  \A t \in Saves : HoldsItsRows(save'[t])
<1> DEFINE k == save[s].placed + 1
           list == save[s].list
           row == [sequence |-> k, isActive |-> TRUE]
           rows == [save[s].rows EXCEPT ![list[k]] = row]
           to == [save[s] EXCEPT !.placed = k, !.rows = rows]
<1>1. save[s] \in SaveRecords /\ save \in [Saves -> SaveRecords]
    BY DEF OrderInv, Typed, TypeOK
<1>2. save' = [save EXCEPT ![s] = to]
    BY <1>1 DEF Place, SaveRecords
<1>3. /\ to.at = "placing" /\ to.rows = rows /\ to.list = list /\ to.placed = k
      /\ to.unlinked = save[s].unlinked
    BY <1>1 DEF SaveRecords, Place
<1>4. /\ list \in Lists /\ k \in Nat \ {0} /\ k <= Len(list)
      /\ \A c \in Categories :
            IF save[s].rows[c] = None
            THEN c \in save[s].unlinked /\ \A i \in 1..save[s].placed : list[i] # c
            ELSE PlacedBy(list, save[s].placed, c, save[s].rows[c])
    BY <1>1 DEF Place, OrderInv, HoldsItsRows, SaveRecords
<1>5. list \in Seq(Categories) /\ k \in DOMAIN list /\ list[k] \in Categories
    BY <1>4, ListsNameEachOnce
<1>6. row # None /\ save[s].rows \in [Categories -> LinkRows \cup {None}]
    <2>1. row \in LinkRows
        BY <1>4 DEF LinkRows
    <2> HIDE DEF row
    <2> QED BY <1>1, <2>1, NoneIsNothing DEF SaveRecords, Links
<1>7. \A c \in Categories : rows[c] = IF c = list[k] THEN row ELSE save[s].rows[c]
    BY <1>5, <1>6
<1>8. 1..k = (1..save[s].placed) \cup {k}
    BY <1>1, <1>4 DEF SaveRecords
<1>9. ASSUME NEW c \in Categories
      PROVE  IF rows[c] = None
             THEN c \in save[s].unlinked /\ \A i \in 1..k : list[i] # c
             ELSE PlacedBy(list, k, c, rows[c])
    <2>1. CASE c = list[k]
        BY <1>6, <1>7, <1>8, <2>1 DEF PlacedBy
    <2>2. CASE c # list[k]
        <3>1. rows[c] = save[s].rows[c]
            BY <1>7, <2>2
        <3> HIDE DEF rows, k, list
        <3> QED BY <1>4, <1>8, <2>2, <3>1 DEF PlacedBy
    <2> QED BY <2>1, <2>2
<1> HIDE DEF to, rows
<1>10. HoldsItsRows(to)
    BY <1>3, <1>4, <1>9 DEF HoldsItsRows
<1> QED BY <1>2, <1>10, RequestMoves

\* What a commit does not write was not linked when it began: it is not
\* linked now, or it is overlooked.
LEMMA CommitShowsTheList ==
    ASSUME OrderInv, NEW s \in Saves, CommitOrder(s)
    PROVE  /\ \A t \in Saves : HoldsItsRows(save'[t])
           /\ LinksAreOfTheLast'
<1> DEFINE to == [Closed(s, "readback") EXCEPT !.version = version + 1]
           list == save[s].list
<1>1. save[s] \in SaveRecords /\ save \in [Saves -> SaveRecords]
    BY DEF OrderInv, Typed, TypeOK
<1>2. save' = [save EXCEPT ![s] = to] /\ to.at = "readback"
    <2>1. Closed(s, "readback") \in SaveRecords /\ Closed(s, "readback").at = "readback"
        BY ClosedTyped DEF SaveSteps, OrderInv, Typed
    <2>2. to.at = "readback"
        BY <2>1 DEF SaveRecords
    <2> QED BY <2>2 DEF CommitOrder
<1> HIDE DEF to
<1>3. \A t \in Saves : HoldsItsRows(save'[t])
    <2>1. HoldsItsRows(to)
        BY <1>2, NothingHeld
    <2> QED BY <1>2, <2>1, RequestMoves
<1>4. \A c \in Categories :
          IF save[s].rows[c] = None
          THEN c \in save[s].unlinked /\ \A i \in 1..Len(list) : list[i] # c
          ELSE PlacedBy(list, Len(list), c, save[s].rows[c])
    BY DEF CommitOrder, OrderInv, HoldsItsRows
<1>5. /\ last' = list /\ overlooked' = Overlooked(s)
      /\ \A c \in Categories :
            links'[c] = IF save[s].rows[c] = None THEN links[c] ELSE save[s].rows[c]
    BY DEF CommitOrder, Committed
<1>6. ASSUME NEW c \in Categories, c \notin Overlooked(s)
      PROVE  IF links'[c] = None
             THEN \A i \in 1..Len(list) : list[i] # c
             ELSE PlacedBy(list, Len(list), c, links'[c])
    BY <1>4, <1>5, <1>6 DEF Overlooked
<1> QED BY <1>3, <1>5, <1>6 DEF LinksAreOfTheLast

\* Every other step of staff begins a request or ends a transaction.
LEMMA OtherStaffSteps ==
    ASSUME OrderInv, NEW s \in Saves,
           \/ \E list \in Lists : Submit(s, list)
           \/ RollBack(s) \/ ReadBack(s) \/ WriteRow(s) \/ Bump(s) \/ LoseBump(s)
    PROVE  /\ \A t \in Saves : HoldsItsRows(save'[t])
           /\ LinksAreOfTheLast'
<1>1. save[s] \in SaveRecords /\ save \in [Saves -> SaveRecords]
    BY DEF OrderInv, Typed, TypeOK
<1>2. UNCHANGED <<links, last, overlooked>>
    BY DEF Submit, RollBack, ReadBack, WriteRow, Bump, LoseBump
<1>3. LinksAreOfTheLast'
    BY <1>2 DEF OrderInv, LinksAreOfTheLast
<1>4. ASSUME NEW list \in Lists, Submit(s, list)
      PROVE  \A t \in Saves : HoldsItsRows(save'[t])
    <2> DEFINE to == [save[s] EXCEPT !.at = "reset", !.list = list]
    <2>1. /\ save' = [save EXCEPT ![s] = to]
          /\ to.at = "reset" /\ to.list = list /\ to.placed = save[s].placed
        BY <1>1, <1>4 DEF Submit, SaveRecords
    <2>2. save[s].placed = 0
        BY <1>4 DEF Submit, OrderInv, HoldsItsRows
    <2> HIDE DEF to
    <2>3. HoldsItsRows(to)
        BY <2>1, <2>2 DEF HoldsItsRows
    <2> QED BY <2>1, <2>3, RequestMoves
<1>5. ASSUME RollBack(s) \/ ReadBack(s) \/ WriteRow(s) \/ Bump(s) \/ LoseBump(s)
      PROVE  \A t \in Saves : HoldsItsRows(save'[t])
    <2>1. \E to : /\ save' = [save EXCEPT ![s] = to]
                  /\ to.at \in {"readback", "bump", "answered", "failed"}
        <3>1. CASE RollBack(s)
            BY <3>1, ClosedTyped DEF RollBack, SaveSteps, OrderInv, Typed
        <3>2. CASE ReadBack(s)
            <4>1. PICK at \in {"bump", "failed"} : save' = [save EXCEPT ![s].at = at]
                BY <3>2 DEF ReadBack
            <4>2. /\ save' = [save EXCEPT ![s] = [save[s] EXCEPT !.at = at]]
                  /\ [save[s] EXCEPT !.at = at].at = at
                BY <1>1, <4>1 DEF SaveRecords
            <4> QED BY <4>1, <4>2
        <3>3. CASE WriteRow(s)
            <4> DEFINE to == [save[s] EXCEPT !.at = "bump", !.version = version + 1]
            <4>1. save' = [save EXCEPT ![s] = to] /\ to.at = "bump"
                BY <1>1, <3>3 DEF WriteRow, SaveRecords
            <4> QED BY <4>1
        <3>4. CASE Bump(s) \/ LoseBump(s)
            BY <1>1, <3>4 DEF Bump, LoseBump, SaveRecords
        <3> QED BY <1>5, <3>1, <3>2, <3>3, <3>4
    <2>2. PICK to : /\ save' = [save EXCEPT ![s] = to]
                    /\ to.at \in {"readback", "bump", "answered", "failed"}
        BY <2>1
    <2>3. HoldsItsRows(to)
        BY <2>2, NothingHeld
    <2> QED BY <2>2, <2>3, RequestMoves
<1> QED BY <1>3, <1>4, <1>5

LEMMA InitOrderInv == Init => OrderInv
<1> SUFFICES ASSUME Init PROVE OrderInv
    OBVIOUS
<1>1. \A s \in Saves : save[s].at = "idle" /\ save[s].placed = 0
    BY DEF Init
<1>2. \A s \in Saves : HoldsItsRows(save[s])
    BY <1>1 DEF HoldsItsRows
<1>3. LinksAreOfTheLast
    BY DEF Init, LinksAreOfTheLast
<1> QED BY <1>1, <1>2, <1>3, InitTyped DEF OrderInv

LEMMA NextOrderInv == OrderInv /\ [Next]_vars => OrderInv'
<1> SUFFICES ASSUME OrderInv, [Next]_vars PROVE OrderInv'
    OBVIOUS
<1>1. Typed'
    BY NextTyped DEF OrderInv
<1>2. ASSUME NEW s \in Saves, StaffStep(s)
      PROVE  /\ \A t \in Saves : HoldsItsRows(save'[t])
               /\ LinksAreOfTheLast'
    <2>1. CASE Reset(s) \/ Place(s)
        <3>1. LinksAreOfTheLast'
            BY <2>1 DEF Reset, Place, OrderInv, LinksAreOfTheLast
        <3> QED BY <2>1, <3>1, ResetUnplaces, PlaceGoesOn
    <2>2. CASE CommitOrder(s)
        BY <2>2, CommitShowsTheList
    <2> QED BY <1>2, <2>1, <2>2, OtherStaffSteps DEF StaffStep
<1>3. CASE \/ \E r \in Readers : CustomerStep(r)
           \/ \E g \in Generations : Expire(g)
           \/ UNCHANGED vars
    <2>1. UNCHANGED <<save, links, last, overlooked>>
        BY <1>3 DEF CustomerStep, ReadGeneration, Get, Load, Store, Expire, vars
    <2> QED BY <1>1, <2>1 DEF OrderInv, HoldsItsRows, LinksAreOfTheLast
<1>4. CASE \E s \in Saves : StaffStep(s)
    BY <1>1, <1>2, <1>4 DEF OrderInv
<1> QED BY <1>3, <1>4 DEF Next

\* Rows of one list put the categories in its order.
LEMMA RowsShowTheList == OrderInv => ShownAsSavedUnlessOverlooked
<1> SUFFICES ASSUME OrderInv, last # None,
                    NEW a \in Categories \ overlooked, NEW b \in Categories \ overlooked
             PROVE  Before(a, b) <=> PlaceIn(last, a) < PlaceIn(last, b)
    BY DEF ShownAsSavedUnlessOverlooked
<1>1. last \in Lists
    BY DEF OrderInv, Typed, TypeOK
<1>2. /\ last \in Seq(Categories) /\ Len(last) \in Nat /\ DOMAIN last = 1..Len(last)
      /\ \A i, j \in DOMAIN last : last[i] = last[j] => i = j
    BY <1>1, ListsNameEachOnce
<1>3. ASSUME NEW c \in Categories \ overlooked
      PROVE  \/ \E i \in 1..Len(last) :
                    last[i] = c /\ Sequence(c) = i /\ PlaceIn(last, c) = i
             \/ Sequence(c) = 0 /\ PlaceIn(last, c) = Len(last) + 1 + c
    <2>1. IF links[c] = None
          THEN \A i \in 1..Len(last) : last[i] # c
          ELSE PlacedBy(last, Len(last), c, links[c])
        BY DEF OrderInv, LinksAreOfTheLast
    <2>2. CASE links[c] = None
        BY <1>2, <2>1, <2>2 DEF Sequence, PlaceIn
    <2>3. CASE links[c] # None /\ \E i \in 1..Len(last) :
                   last[i] = c /\ links[c] = [sequence |-> i, isActive |-> TRUE]
        <3>1. PICK i \in 1..Len(last) :
                  last[i] = c /\ links[c] = [sequence |-> i, isActive |-> TRUE]
            BY <2>3
        <3>2. Sequence(c) = i
            BY <2>3, <3>1 DEF Sequence
        <3>3. \A j \in DOMAIN last : last[j] = c => j = i
            BY <1>2, <3>1
        <3>4. PlaceIn(last, c) = i
            BY <1>2, <3>1, <3>3 DEF PlaceIn
        <3> QED BY <3>1, <3>2, <3>4
    <2>4. CASE links[c] # None /\ links[c].sequence = 0 /\ \A i \in 1..Len(last) : last[i] # c
        BY <1>2, <2>4 DEF Sequence, PlaceIn
    <2> QED BY <2>1, <2>2, <2>3, <2>4 DEF PlacedBy
<1>4. a \in Nat /\ b \in Nat
    BY CategoriesAreNumbers
<1>5. /\ \/ Sequence(a) \in Nat \ {0} /\ PlaceIn(last, a) = Sequence(a)
            /\ Sequence(a) <= Len(last)
         \/ Sequence(a) = 0 /\ PlaceIn(last, a) = Len(last) + 1 + a
      /\ \/ Sequence(b) \in Nat \ {0} /\ PlaceIn(last, b) = Sequence(b)
            /\ Sequence(b) <= Len(last)
         \/ Sequence(b) = 0 /\ PlaceIn(last, b) = Len(last) + 1 + b
    BY <1>2, <1>3
<1>6. Sequence(a) = Sequence(b) /\ Sequence(a) # 0 => a = b
    BY <1>3
<1> QED BY <1>2, <1>4, <1>5, <1>6 DEF Before

(***************************************************************************)
(* The menu is shown in the order saved last, however the row writes of    *)
(* any saves interleave, roll back or fail, for any categories and lists   *)
(* and whatever links the cinema begins with, but for the categories       *)
(* another save linked while this one was under way (setCategoryOrder).    *)
(***************************************************************************)
THEOREM MenuIsShownAsSaved == Spec => []ShownAsSavedUnlessOverlooked
BY InitOrderInv, NextOrderInv, RowsShowTheList, PTL DEF Spec

-----------------------------------------------------------------------------
\* The pages of a menu

\* Where a part that reaches to a position ends: where the list does, at most.
EndOf(list, to) == IF to < Len(list) THEN to ELSE Len(list)

LEMMA PartOfList ==
    ASSUME NEW S, NEW list \in Seq(S), NEW from \in Nat, from > 0, NEW to \in Nat
    PROVE  /\ UpTo(list, from, to) \in Seq(S)
           /\ Len(UpTo(list, from, to)) =
                  IF from <= EndOf(list, to) THEN EndOf(list, to) - from + 1 ELSE 0
           /\ \A i \in 1..(EndOf(list, to) - from + 1) :
                  UpTo(list, from, to)[i] = list[from + i - 1]
<1> DEFINE end == EndOf(list, to)
<1>1. end \in 0..Len(list)
    BY DEF EndOf
<1>2. UpTo(list, from, to) = SubSeq(list, from, end)
    BY DEF UpTo, EndOf
<1> HIDE DEF end
<1>3. /\ SubSeq(list, from, end) \in Seq(S)
      /\ Len(SubSeq(list, from, end)) = IF from <= end THEN end - from + 1 ELSE 0
      /\ \A i \in 1..(end - from + 1) : SubSeq(list, from, end)[i] = list[from + i - 1]
    BY <1>1
<1> QED BY <1>2, <1>3 DEF end

\* With an entry put before it every part of a list moves by one.
LEMMA PartBehindAnEntry ==
    ASSUME NEW S, NEW list \in Seq(S), NEW x \in S, NEW m \in Nat, NEW n \in Nat
    PROVE  /\ m > 0 => UpTo(<<x>> \o list, m + 1, n + 1) = UpTo(list, m, n)
           /\ UpTo(<<x>> \o list, 1, n + 1) = <<x>> \o UpTo(list, 1, n)
<1> DEFINE more == <<x>> \o list
<1>1. /\ more \in Seq(S) /\ Len(more) = Len(list) + 1 /\ Len(list) \in Nat
      /\ more[1] = x
      /\ \A i \in 1..Len(list) : more[i + 1] = list[i]
    OBVIOUS
<1>2. more \in Seq(S)
    BY <1>1
<1> HIDE DEF more
<1> DEFINE end == EndOf(list, n)
<1>3. end + 1 = EndOf(more, n + 1)
    BY <1>1 DEF EndOf
<1>4. end \in Nat /\ end <= Len(list)
    BY <1>1 DEF EndOf
<1>5. n + 1 \in Nat /\ 1 \in Nat /\ 1 > 0
    OBVIOUS
<1> HIDE DEF end
<1>6. ASSUME m > 0
      PROVE  UpTo(more, m + 1, n + 1) = UpTo(list, m, n)
    <2> DEFINE a == UpTo(more, m + 1, n + 1)
               b == UpTo(list, m, n)
               len == IF m <= end THEN end - m + 1 ELSE 0
    <2>1. /\ b \in Seq(S) /\ Len(b) = len
          /\ \A i \in 1..(end - m + 1) : b[i] = list[m + i - 1]
        BY <1>6, PartOfList DEF end
    <2>2. /\ m + 1 \in Nat /\ m + 1 > 0 /\ n + 1 \in Nat
          /\ (m + 1 <= end + 1 <=> m <= end)
          /\ (end + 1) - (m + 1) + 1 = end - m + 1
        BY <1>4
    <2>3. /\ a \in Seq(S)
          /\ Len(a) = IF m + 1 <= end + 1 THEN (end + 1) - (m + 1) + 1 ELSE 0
          /\ \A i \in 1..((end + 1) - (m + 1) + 1) : a[i] = more[(m + 1) + i - 1]
        <3> DEFINE stop == EndOf(more, n + 1)
        <3>1. /\ a \in Seq(S)
              /\ Len(a) = IF m + 1 <= stop THEN stop - (m + 1) + 1 ELSE 0
              /\ \A i \in 1..(stop - (m + 1) + 1) : a[i] = more[(m + 1) + i - 1]
            BY <1>2, <2>2, PartOfList
        <3> HIDE DEF a
        <3> QED BY <1>3, <3>1
    <2> HIDE DEF a, b
    <2>4. Len(a) = len
        BY <2>2, <2>3
    <2>5. ASSUME NEW i \in 1..len PROVE a[i] = b[i]
        <3>1. i \in 1..(end - m + 1) /\ m + i - 1 \in 1..Len(list)
            BY <1>4, <1>6
        <3>2. a[i] = more[(m + i - 1) + 1]
            <4>1. (m + 1) + i - 1 = (m + i - 1) + 1
                BY <3>1
            <4> QED BY <2>2, <2>3, <3>1, <4>1
        <3> QED BY <1>1, <2>1, <3>1, <3>2
    <2> HIDE DEF len
    <2>6. a = b
        BY <2>1, <2>3, <2>4, <2>5
    <2> QED BY <2>6 DEF a, b
<1>7. UpTo(more, 1, n + 1) = <<x>> \o UpTo(list, 1, n)
    <2> DEFINE a == UpTo(more, 1, n + 1)
               b == UpTo(list, 1, n)
    <2>1. /\ b \in Seq(S) /\ Len(b) = end
          /\ \A i \in 1..end : b[i] = list[i]
        <3>1. \A from \in Nat : from > 0 =>
                  /\ UpTo(list, from, n) \in Seq(S)
                  /\ Len(UpTo(list, from, n)) =
                         IF from <= EndOf(list, n) THEN EndOf(list, n) - from + 1 ELSE 0
                  /\ \A i \in 1..(EndOf(list, n) - from + 1) :
                         UpTo(list, from, n)[i] = list[from + i - 1]
            BY PartOfList
        <3>2. EndOf(list, n) = end
            BY DEF end
        <3>3. /\ b \in Seq(S) /\ Len(b) = IF 1 <= end THEN end - 1 + 1 ELSE 0
              /\ \A i \in 1..(end - 1 + 1) : b[i] = list[1 + i - 1]
            BY <1>5, <3>1, <3>2
        <3> HIDE DEF b
        <3> QED BY <1>4, <3>3
    <2>2. /\ a \in Seq(S) /\ Len(a) = end + 1
          /\ \A i \in 1..(end + 1) : a[i] = more[i]
        <3> DEFINE stop == EndOf(more, n + 1)
        <3>1. \A from \in Nat : from > 0 =>
                  /\ UpTo(more, from, n + 1) \in Seq(S)
                  /\ Len(UpTo(more, from, n + 1)) =
                         IF from <= stop THEN stop - from + 1 ELSE 0
                  /\ \A i \in 1..(stop - from + 1) :
                         UpTo(more, from, n + 1)[i] = more[from + i - 1]
            BY <1>5, <1>2, PartOfList
        <3>2. stop = end + 1
            BY <1>3
        <3> HIDE DEF stop
        <3>3. /\ a \in Seq(S) /\ Len(a) = IF 1 <= stop THEN stop - 1 + 1 ELSE 0
              /\ \A i \in 1..(stop - 1 + 1) : a[i] = more[1 + i - 1]
            BY <3>1
        <3> HIDE DEF a
        <3> QED BY <1>4, <3>2, <3>3
    <2> HIDE DEF a, b
    <2>3. /\ <<x>> \o b \in Seq(S) /\ Len(<<x>> \o b) = end + 1
          /\ (<<x>> \o b)[1] = x
          /\ \A i \in 1..end : (<<x>> \o b)[i + 1] = b[i]
        BY <1>4, <2>1
    <2>4. ASSUME NEW i \in 1..(end + 1) PROVE a[i] = (<<x>> \o b)[i]
        <3>1. CASE i = 1
            BY <1>1, <2>2, <2>3, <3>1
        <3>2. CASE i # 1
            <4> DEFINE j == i - 1
            <4>1. j \in 1..end /\ i = j + 1 /\ j \in 1..Len(list)
                BY <1>4, <3>2
            <4> HIDE DEF j
            <4>2. a[i] = more[j + 1]
                BY <2>2, <4>1
            <4> QED BY <1>1, <2>1, <2>3, <4>1, <4>2
        <3> QED BY <3>1, <3>2
    <2>5. a = <<x>> \o b
        BY <2>2, <2>3, <2>4
    <2> QED BY <2>5 DEF a, b
<1> QED BY <1>6, <1>7 DEF more

\* The pages of any menu, with or without the fixed section, are the parts of
\* the combined list.
LEMMA AnyMenuIsTiled ==
    ASSUME NEW S, NEW menu \in Seq(S), ALL_TIME_FAVOURITE \in S,
           NEW hasFavourites \in BOOLEAN, NEW limit \in Nat \ {0}, NEW page \in Nat \ {0}
    PROVE  Page(menu, hasFavourites, limit, page) =
               UpTo(IF hasFavourites THEN <<ALL_TIME_FAVOURITE>> \o menu ELSE menu,
                    (page - 1) * limit + 1, page * limit)
<1> DEFINE offset == (page - 1) * limit
<1>1. offset \in Nat /\ page * limit = offset + limit
    OBVIOUS
<1> HIDE DEF offset
<1>2. CASE ~hasFavourites
    BY <1>1, <1>2 DEF Page, offset
<1>3. CASE hasFavourites /\ offset = 0
    <2>1. Page(menu, hasFavourites, limit, page) =
              <<ALL_TIME_FAVOURITE>> \o UpTo(menu, 1, limit - 1)
        BY <1>3 DEF Page, offset
    <2>2. limit - 1 \in Nat /\ (limit - 1) + 1 = limit
        OBVIOUS
    <2>3. UpTo(<<ALL_TIME_FAVOURITE>> \o menu, 1, limit) =
              <<ALL_TIME_FAVOURITE>> \o UpTo(menu, 1, limit - 1)
        BY <2>2, PartBehindAnEntry
    <2>4. offset + 1 = 1 /\ page * limit = limit
        BY <1>1, <1>3
    <2> QED BY <1>3, <2>1, <2>3, <2>4 DEF offset
<1>4. CASE hasFavourites /\ offset # 0
    <2> DEFINE n == offset - 1 + limit
    <2>1. n \in Nat /\ n + 1 = offset + limit /\ offset - 1 + 1 = offset /\ offset > 0
        BY <1>1, <1>4
    <2>2. Page(menu, hasFavourites, limit, page) = UpTo(menu, offset, n)
        BY <1>4, <2>1 DEF Page, offset
    <2> HIDE DEF n
    <2>3. UpTo(<<ALL_TIME_FAVOURITE>> \o menu, offset + 1, n + 1) = UpTo(menu, offset, n)
        BY <1>1, <2>1, PartBehindAnEntry
    <2> QED BY <1>1, <1>4, <2>1, <2>2, <2>3 DEF offset
<1> QED BY <1>2, <1>3, <1>4

LEMMA MenuIsAList ==
    /\ InOrder \in Seq({InOrder[i] : i \in 1..Cardinality(Categories)})
    /\ Len(InOrder) \in Nat
<1>1. Cardinality(Categories) \in Nat
    BY CategoriesAreNumbers, FS_CardinalityType
<1>2. InOrder = [i \in 1..Cardinality(Categories) |-> InOrder[i]]
    <2> DEFINE At(i) == CHOOSE c \in Categories :
                   Cardinality({d \in Categories : Before(d, c)}) = i - 1
    <2>1. InOrder = [i \in 1..Cardinality(Categories) |-> At(i)]
        BY DEF InOrder
    <2> HIDE DEF At
    <2> QED BY <2>1
<1> QED BY <1>1, <1>2

LEMMA MenuIsTiled == PagesTile
<1> DEFINE menu == InOrder
           Shown == {menu[i] : i \in 1..Cardinality(Categories)} \cup {ALL_TIME_FAVOURITE}
<1>1. menu \in Seq(Shown) /\ Len(menu) \in Nat /\ ALL_TIME_FAVOURITE \in Shown
    BY MenuIsAList
<1> HIDE DEF menu, Shown
<1>2. ASSUME NEW hasFavourites \in BOOLEAN, NEW limit \in 1..(Len(menu) + 1),
             NEW page \in 1..(Len(menu) + 1)
      PROVE  Page(menu, hasFavourites, limit, page) =
                 UpTo(IF hasFavourites THEN <<ALL_TIME_FAVOURITE>> \o menu ELSE menu,
                      (page - 1) * limit + 1, page * limit)
    <2>1. limit \in Nat \ {0} /\ page \in Nat \ {0}
        BY <1>1
    <2> QED BY <1>1, <2>1, AnyMenuIsTiled
<1> QED BY <1>2 DEF PagesTile, menu

(***************************************************************************)
(* Whatever order staff save, the pages of the menu laid end to end are    *)
(* the fixed section, if there is one, and every category: nothing is      *)
(* displaced, repeated or lost between pages (getCategories).              *)
(***************************************************************************)
THEOREM PagesAlwaysTile == Spec => []PagesTile
BY MenuIsTiled, PTL

=============================================================================
