------------------------- MODULE OrderCreationProofs -------------------------
(***************************************************************************)
(* One key, one order, for every set of requests, browsers and baskets.    *)
(*                                                                         *)
(* The argument follows the key.  Whoever minted a key posted it with the  *)
(* basket and the customer it stands for, and everyone who reuses it has   *)
(* the same (MintsAgree, StoredIsMinted).  A key in the table names an     *)
(* order with opening entries that was posted under it, and every such     *)
(* order is named by its key (TableNamesOpened, OpenedAreNamed).  While a  *)
(* transaction holds the key, the table has no other (HolderIsAlone).  An  *)
(* answer is what the table says (AnswersFromTable).                       *)
(***************************************************************************)
EXTENDS OrderCreation, TLAPS

Posted(r) == pc[r] # "unsent"

\* Two attempts are one: same customer at the same device, same basket.
SameAttempt(x, y) ==
    /\ x.browser = y.browser
    /\ x.visitor = y.visitor
    /\ x.basket = y.basket

MintsAgree ==
    \A r \in Requests : Posted(r) =>
        /\ sent[r] \in Attempts
        /\ Posted(sent[r].key)
        /\ sent[sent[r].key].key = sent[r].key
        /\ SameAttempt(sent[sent[r].key], sent[r])

StoredIsMinted ==
    \A b \in Browsers : stored[b] # None =>
        /\ Posted(stored[b].key)
        /\ sent[stored[b].key].key = stored[b].key
        /\ sent[stored[b].key].browser = b
        /\ sent[stored[b].key].visitor = visitor[b]
        /\ sent[stored[b].key].basket = stored[b].basket

TableNamesOpened ==
    \A k \in Requests : keys[k] # None =>
        keys[k] \in opened /\ sent[keys[k]].key = k

OpenedAreNamed == \A r \in opened : Posted(r) /\ keys[sent[r].key] = r

HolderIsAlone ==
    \A r \in Requests : pc[r] = "logs" =>
        /\ keys[sent[r].key] = None
        /\ \A o \in Requests :
              pc[o] = "logs" /\ sent[o].key = sent[r].key => o = r

AnswersFromTable ==
    \A r \in Requests : answer[r] \in Requests =>
        Posted(r) /\ answer[r] = keys[sent[r].key]

IInv ==
    /\ TypeOK
    /\ MintsAgree
    /\ StoredIsMinted
    /\ TableNamesOpened
    /\ OpenedAreNamed
    /\ HolderIsAlone
    /\ AnswersFromTable

-----------------------------------------------------------------------------

\* What the three properties need of IInv.
LEMMA IInvSuffices ==
    ASSUME IInv
    PROVE  /\ OneOpenedOrderPerKey
           /\ RetriesGetTheSameOrder
           /\ AnswersAreTheCustomersOwn
<1>1. OneOpenedOrderPerKey
  BY DEF IInv, OneOpenedOrderPerKey, OpenedAreNamed
<1>2. RetriesGetTheSameOrder
  BY DEF IInv, RetriesGetTheSameOrder, AnswersFromTable
<1>3. AnswersAreTheCustomersOwn
  <2> SUFFICES ASSUME NEW r \in Requests, answer[r] \in Requests
               PROVE  /\ answer[r] \in opened
                      /\ SameAttempt(sent[answer[r]], sent[r])
    BY DEF AnswersAreTheCustomersOwn, SameAttempt
  <2>1. Posted(r) /\ answer[r] = keys[sent[r].key]
    BY DEF IInv, AnswersFromTable
  <2>2. sent[r].key \in Requests /\ answer[r] # None
    BY <2>1, NoneIsNoRequest DEF IInv, MintsAgree, Attempts
  <2>3. answer[r] \in opened /\ sent[answer[r]].key = sent[r].key
    BY <2>1, <2>2 DEF IInv, TableNamesOpened
  <2>4. Posted(answer[r])
    BY <2>3 DEF IInv, OpenedAreNamed
  <2>5. /\ SameAttempt(sent[sent[r].key], sent[r])
        /\ SameAttempt(sent[sent[r].key], sent[answer[r]])
    BY <2>1, <2>3, <2>4 DEF IInv, MintsAgree
  <2> QED
    BY <2>3, <2>5 DEF SameAttempt
<1> QED
  BY <1>1, <1>2, <1>3

LEMMA InitEstablishesIInv == Init => IInv
<1> SUFFICES ASSUME Init PROVE IInv
  OBVIOUS
<1>1. TypeOK
  BY LimitsAreNaturals DEF Init, TypeOK, Places
<1>2. MintsAgree /\ OpenedAreNamed /\ HolderIsAlone
  BY DEF Init, MintsAgree, OpenedAreNamed, HolderIsAlone, Posted
<1>3. StoredIsMinted /\ TableNamesOpened /\ AnswersFromTable
  BY NoneIsNoRequest DEF Init, StoredIsMinted, TableNamesOpened, AnswersFromTable
<1> QED
  BY <1>1, <1>2, <1>3 DEF IInv

\* A step of the browser alone: requests, table and answers stay, and what is
\* stored stays or is cleared, a clearing going with any change of visitor.
LEMMA BrowserStepKeepsIInv ==
    ASSUME IInv, TypeOK',
           UNCHANGED <<sent, pc, answer, opened, keys>>,
           \A b \in Browsers :
              stored'[b] = None \/ (stored'[b] = stored[b] /\ visitor'[b] = visitor[b])
    PROVE  IInv'
<1>1. MintsAgree' /\ OpenedAreNamed' /\ HolderIsAlone'
  BY DEF IInv, MintsAgree, OpenedAreNamed, HolderIsAlone, Posted
<1>2. TableNamesOpened' /\ AnswersFromTable'
  BY DEF IInv, TableNamesOpened, AnswersFromTable, Posted
<1>3. StoredIsMinted'
  BY DEF IInv, StoredIsMinted, Posted
<1> QED
  BY <1>1, <1>2, <1>3 DEF IInv

\* A server step of one request that leaves the table alone.
LEMMA ServerStepKeepsIInv ==
    ASSUME IInv, TypeOK', NEW r \in Requests, Posted(r),
           NEW place \in Places, place \notin {"unsent", "logs"},
           Goto(r, place),
           \/ answer' = answer
           \/ /\ answer' = [answer EXCEPT ![r] = keys[sent[r].key]]
           \/ answer' = [answer EXCEPT ![r] = "refused"],
           UNCHANGED <<visitor, stored, sent, opened, keys>>
    PROVE  IInv'
<1>0. pc' = [pc EXCEPT ![r] = place] /\ pc \in [Requests -> Places]
  BY DEF Goto, IInv, TypeOK
<1>1. \A o \in Requests : /\ Posted(o) <=> Posted(o)'
                          /\ pc'[o] = "logs" => pc[o] = "logs"
  BY <1>0 DEF Posted
<1>2. MintsAgree'
  BY <1>1 DEF IInv, MintsAgree, Attempts
<1>3. StoredIsMinted'
  <2>1. \A b \in Browsers : stored[b] # None => stored[b].key \in Requests
    BY DEF IInv, TypeOK, Sessions
  <2> QED
    BY <1>1, <2>1 DEF IInv, StoredIsMinted
<1>4. TableNamesOpened'
  BY DEF IInv, TableNamesOpened
<1>5. OpenedAreNamed'
  BY <1>1 DEF IInv, OpenedAreNamed, TypeOK
<1>6. HolderIsAlone'
  BY <1>1 DEF IInv, HolderIsAlone
<1>7. AnswersFromTable'
  <2>1. answer \in [Requests -> Requests \cup {None, "refused"}]
    BY DEF IInv, TypeOK
  <2>2. "refused" \notin Requests
    BY NoneIsNoRequest
  <2> QED
    BY <1>1, <2>1, <2>2 DEF IInv, AnswersFromTable
<1> QED
  BY <1>2, <1>3, <1>4, <1>5, <1>6, <1>7 DEF IInv

\* A submission posts under a key minted before for the same attempt, or under
\* one of its own.
LEMMA SubmitKeepsIInv ==
    ASSUME IInv, TypeOK', NEW b \in Browsers, NEW r \in Requests, Submit(b, r)
    PROVE  IInv'
<1>2. /\ stored \in [Browsers -> Sessions \cup {None}]
      /\ sent \in [Requests -> Attempts \cup {None}]
      /\ pc \in [Requests -> Places]
      /\ visitor \in [Browsers -> 0..MaxVisits]
      /\ opened \subseteq Requests
      /\ keys \in [Requests -> Requests \cup {None}]
  BY DEF IInv, TypeOK
<1>0. PICK basket \in Baskets, coupon \in Coupons \cup {None}, key \in Requests :
        /\ key = KeyFor(b, r, basket)
        /\ stored' = [stored EXCEPT ![b] = [key |-> key, basket |-> basket]]
        /\ sent' = [sent EXCEPT ![r] =
                      [browser |-> b, visitor |-> visitor[b], key |-> key,
                       basket |-> basket, coupon |-> coupon]]
  BY <1>2 DEF Submit, KeyFor, Sessions
<1>1. /\ pc[r] = "unsent" /\ pc' = [pc EXCEPT ![r] = "lookup"]
      /\ UNCHANGED <<visitor, answer, opened, keys>>
  BY DEF Submit, Goto
<1>4. /\ sent'[r] = [browser |-> b, visitor |-> visitor[b], key |-> key,
                     basket |-> basket, coupon |-> coupon]
      /\ pc'[r] # "unsent"
      /\ \A o \in Requests : o # r => sent'[o] = sent[o] /\ pc'[o] = pc[o]
      /\ \A o \in Requests : Posted(o) =>
            o # r /\ pc'[o] # "unsent" /\ sent'[o] = sent[o]
  BY <1>0, <1>1, <1>2 DEF Posted
<1>5. \/ key = r
      \/ /\ Posted(key) /\ sent[key].key = key
         /\ SameAttempt(sent[key], sent'[r])
  BY <1>0, <1>2, <1>4 DEF IInv, StoredIsMinted, KeyFor, SameAttempt
<1>6. /\ pc'[key] # "unsent" /\ sent'[key].key = key
      /\ SameAttempt(sent'[key], sent'[r])
  BY <1>4, <1>5 DEF SameAttempt
<1>7. MintsAgree'
  <2> SUFFICES ASSUME NEW o \in Requests, pc'[o] # "unsent"
               PROVE  /\ sent'[o] \in Attempts
                      /\ pc'[sent'[o].key] # "unsent"
                      /\ sent'[sent'[o].key].key = sent'[o].key
                      /\ SameAttempt(sent'[sent'[o].key], sent'[o])
    BY DEF MintsAgree, SameAttempt, Posted
  <2>1. CASE o = r
    BY <1>2, <1>4, <1>6, <2>1 DEF Attempts
  <2>2. CASE o # r
    <3>1. Posted(o) /\ sent'[o] = sent[o]
      BY <1>4, <2>2 DEF Posted
    <3>2. /\ sent[o] \in Attempts /\ Posted(sent[o].key)
          /\ sent[sent[o].key].key = sent[o].key
          /\ SameAttempt(sent[sent[o].key], sent[o])
      BY <3>1 DEF IInv, MintsAgree
    <3>3. sent[o].key \in Requests
      BY <3>2 DEF Attempts
    <3> QED
      BY <1>4, <3>1, <3>2, <3>3
  <2> QED
    BY <2>1, <2>2
<1>8. StoredIsMinted'
  <2> SUFFICES ASSUME NEW c \in Browsers, stored'[c] # None
               PROVE  /\ pc'[stored'[c].key] # "unsent"
                      /\ sent'[stored'[c].key].key = stored'[c].key
                      /\ sent'[stored'[c].key].browser = c
                      /\ sent'[stored'[c].key].visitor = visitor'[c]
                      /\ sent'[stored'[c].key].basket = stored'[c].basket
    BY DEF StoredIsMinted, Posted
  <2>1. CASE c = b
    <3>1. stored'[c] = [key |-> key, basket |-> basket]
      BY <1>0, <1>2, <2>1
    <3> QED
      BY <1>1, <1>4, <1>6, <2>1, <3>1 DEF SameAttempt
  <2>2. CASE c # b
    <3>1. stored'[c] = stored[c] /\ stored[c].key \in Requests
      BY <1>0, <1>2, <2>2 DEF Sessions
    <3> QED
      BY <1>1, <1>4, <3>1 DEF IInv, StoredIsMinted
  <2> QED
    BY <2>1, <2>2
<1>9. TableNamesOpened' /\ OpenedAreNamed'
  <2>1. \A o \in opened : Posted(o) /\ sent'[o] = sent[o] /\ pc'[o] # "unsent"
    BY <1>2, <1>4 DEF IInv, OpenedAreNamed
  <2> QED
    BY <1>1, <2>1 DEF IInv, OpenedAreNamed, TableNamesOpened, Posted
<1>10. HolderIsAlone'
  <2>1. \A o \in Requests : pc'[o] = "logs" => pc[o] = "logs" /\ sent'[o] = sent[o]
    BY <1>1, <1>2, <1>4 DEF Posted
  <2> QED
    BY <1>1, <2>1 DEF IInv, HolderIsAlone
<1>11. AnswersFromTable'
  BY <1>1, <1>4 DEF IInv, AnswersFromTable, Posted
<1> QED
  BY <1>7, <1>8, <1>9, <1>10, <1>11 DEF IInv

\* The insert of a key nobody holds.
LEMMA HoldKeyKeepsIInv ==
    ASSUME IInv, TypeOK', NEW r \in Requests,
           pc[r] = "key", ~KeyLocked(r), ~KeyTaken(r), Goto(r, "logs"),
           UNCHANGED <<visitor, stored, sent, answer, opened, keys>>
    PROVE  IInv'
<1>1. pc' = [pc EXCEPT ![r] = "logs"] /\ pc \in [Requests -> Places]
  BY DEF Goto, IInv, TypeOK
<1>2. \A o \in Requests : /\ Posted(o) <=> Posted(o)'
                          /\ pc'[o] = "logs" => o = r \/ pc[o] = "logs"
  BY <1>1 DEF Posted
<1>3. MintsAgree'
  BY <1>2 DEF IInv, MintsAgree, Attempts
<1>4. StoredIsMinted'
  <2>1. \A b \in Browsers : stored[b] # None => stored[b].key \in Requests
    BY DEF IInv, TypeOK, Sessions
  <2> QED
    BY <1>2, <2>1 DEF IInv, StoredIsMinted
<1>5. TableNamesOpened' /\ OpenedAreNamed' /\ AnswersFromTable'
  BY <1>2 DEF IInv, TableNamesOpened, OpenedAreNamed, AnswersFromTable, TypeOK
<1>6. HolderIsAlone'
  BY <1>2 DEF IInv, HolderIsAlone, KeyLocked, KeyTaken
<1> QED
  BY <1>3, <1>4, <1>5, <1>6 DEF IInv

\* The commit: the table and the opened orders gain the same pair.
LEMMA WriteLogsKeepsIInv ==
    ASSUME IInv, TypeOK', NEW r \in Requests, WriteLogs(r)
    PROVE  IInv'
<1> DEFINE k == sent[r].key
<1>1. /\ pc[r] = "logs"
      /\ opened' = opened \cup {r}
      /\ keys' = [keys EXCEPT ![k] = r]
      /\ pc' = [pc EXCEPT ![r] = "done"]
      /\ answer' = [answer EXCEPT ![r] = r]
      /\ UNCHANGED <<visitor, stored, sent>>
  BY DEF WriteLogs, CommitOrder, Finish, Goto, browser
<1>2. /\ pc \in [Requests -> Places]
      /\ keys \in [Requests -> Requests \cup {None}]
      /\ answer \in [Requests -> Requests \cup {None, "refused"}]
      /\ opened \subseteq Requests
      /\ \A b \in Browsers : stored[b] # None => stored[b].key \in Requests
  BY DEF IInv, TypeOK, Sessions
<1>3. Posted(r) /\ k \in Requests /\ keys[k] = None
  BY <1>1 DEF Posted, IInv, MintsAgree, Attempts, HolderIsAlone
<1> HIDE DEF k
<1>4. \A o \in Requests : /\ Posted(o) <=> Posted(o)'
                          /\ pc'[o] = "logs" => pc[o] = "logs" /\ o # r
  BY <1>1, <1>2 DEF Posted
<1>5. MintsAgree'
  BY <1>1, <1>4 DEF IInv, MintsAgree, Attempts
<1>6. StoredIsMinted'
  BY <1>1, <1>2, <1>4 DEF IInv, StoredIsMinted
<1>7. TableNamesOpened'
  BY <1>1, <1>2, <1>3 DEF IInv, TableNamesOpened, k
<1>8. OpenedAreNamed'
  <2> SUFFICES ASSUME NEW o \in opened' PROVE Posted(o)' /\ keys'[sent'[o].key] = o
    BY DEF OpenedAreNamed, Posted
  <2>1. CASE o = r
    BY <1>1, <1>2, <1>3, <1>4, <2>1 DEF k
  <2>2. CASE o # r
    <3>1. o \in opened /\ Posted(o) /\ keys[sent[o].key] = o
      BY <1>1, <2>2 DEF IInv, OpenedAreNamed
    <3>2. o # None /\ sent[o].key # k
      BY <1>2, <1>3, <3>1, NoneIsNoRequest
    <3> QED
      BY <1>1, <1>2, <1>4, <3>1, <3>2
  <2> QED
    BY <2>1, <2>2
<1>9. HolderIsAlone'
  <2> SUFFICES ASSUME NEW o \in Requests, pc'[o] = "logs"
               PROVE  /\ keys'[sent'[o].key] = None
                      /\ \A x \in Requests :
                            pc'[x] = "logs" /\ sent'[x].key = sent'[o].key => x = o
    BY DEF HolderIsAlone
  <2>1. pc[o] = "logs" /\ o # r
    BY <1>4
  <2>2. sent[o].key # k /\ keys[sent[o].key] = None
    BY <1>1, <2>1 DEF IInv, HolderIsAlone, k
  <2> QED
    BY <1>1, <1>2, <1>4, <2>1, <2>2 DEF IInv, HolderIsAlone
<1>10. AnswersFromTable'
  <2> SUFFICES ASSUME NEW o \in Requests, answer'[o] \in Requests
               PROVE  Posted(o)' /\ answer'[o] = keys'[sent'[o].key]
    BY DEF AnswersFromTable, Posted
  <2>1. CASE o = r
    BY <1>1, <1>2, <1>3, <1>4, <2>1 DEF k
  <2>2. CASE o # r
    <3>1. Posted(o) /\ answer[o] = keys[sent[o].key] /\ answer[o] \in Requests
      BY <1>1, <1>2, <2>2 DEF IInv, AnswersFromTable
    <3>2. sent[o].key # k
      BY <1>3, <3>1, NoneIsNoRequest
    <3> QED
      BY <1>1, <1>2, <1>4, <2>2, <3>1, <3>2
  <2> QED
    BY <2>1, <2>2
<1> QED
  BY <1>5, <1>6, <1>7, <1>8, <1>9, <1>10 DEF IInv

-----------------------------------------------------------------------------

LEMMA NextKeepsTypes == IInv /\ [Next]_vars => TypeOK'
<1> SUFFICES ASSUME IInv, [Next]_vars PROVE TypeOK'
  OBVIOUS
<1> USE DEF browser, server
<1>1. TypeOK /\ Requests \subseteq Requests \cup {None}
  BY DEF IInv
<1>2. CASE UNCHANGED vars
  BY <1>1, <1>2 DEF TypeOK, vars
<1>3. ASSUME NEW b \in Browsers, NEW r \in Requests, Submit(b, r) PROVE TypeOK'
  BY <1>1, <1>3 DEF TypeOK, Submit, KeyFor, Goto, Sessions, Attempts, Places
<1>4. ASSUME NEW b \in Browsers, Abandon(b) PROVE TypeOK'
  <2>1. visitor[b] + 1 \in 0..MaxVisits
    BY <1>1, <1>4, LimitsAreNaturals DEF TypeOK, Abandon
  <2> QED
    BY <1>1, <1>4, <2>1 DEF TypeOK, Abandon, EndSession
<1>5. ASSUME NEW b \in Browsers,
             Reload(b) \/ LeavePayment(b) \/ Confirm(b) \/ Pay(b)
      PROVE  TypeOK'
  BY <1>1, <1>5 DEF TypeOK, Reload, LeavePayment, Confirm, Pay, EndSession
<1>6. ASSUME NEW r \in Requests, Receive(r) \/ Disconnect(r) PROVE TypeOK'
  BY <1>1, <1>6 DEF TypeOK, Receive, Disconnect
<1>7. CASE CloseShow
  BY <1>1, <1>7 DEF TypeOK, CloseShow
<1>8. ASSUME NEW r \in Requests, Serve(r) \/ Rollback(r) PROVE TypeOK'
  <2>1. pc[r] # "unsent"
    BY <1>8 DEF Serve, Rollback, Lookup, ReadShow, ReadCoupon, InsertOrder,
                InsertKey, TryKey, WriteLogs
  <2>2. sent[r].key \in Requests /\ keys[sent[r].key] \in Requests \cup {None}
    BY <1>1, <2>1 DEF IInv, MintsAgree, Posted, Attempts, TypeOK
  <2>3. CASE WriteLogs(r)
    BY <1>1, <2>2, <2>3 DEF TypeOK, WriteLogs, CommitOrder, Finish, Goto, Places
  <2>4. CASE InsertKey(r)
    BY <1>1, <2>2, <2>4 DEF TypeOK, InsertKey, TryKey, Finish, Goto, Places
  <2>5. CASE Lookup(r) \/ ReadShow(r) \/ ReadCoupon(r) \/ InsertOrder(r) \/ Rollback(r)
    BY <1>1, <2>2, <2>5 DEF TypeOK, Lookup, ReadShow, ReadCoupon, InsertOrder,
                            Rollback, Finish, Goto, Places
  <2> QED
    BY <1>8, <2>3, <2>4, <2>5 DEF Serve
<1> QED
  BY <1>2, <1>3, <1>4, <1>5, <1>6, <1>7, <1>8 DEF Next

LEMMA ServeKeepsIInv ==
    ASSUME IInv, TypeOK', NEW r \in Requests, Serve(r) \/ Rollback(r)
    PROVE  IInv'
<1> USE DEF Places, Posted, browser
<1>1. CASE Lookup(r)
  <2>1. \/ Goto(r, "show") /\ answer' = answer
        \/ Goto(r, "done") /\ answer' = [answer EXCEPT ![r] = keys[sent[r].key]]
    BY <1>1 DEF Lookup, Finish
  <2> QED
    BY <1>1, <2>1, ServerStepKeepsIInv DEF Lookup
<1>2. CASE ReadShow(r)
  BY <1>2, ServerStepKeepsIInv DEF ReadShow, Finish
<1>3. CASE ReadCoupon(r)
  <2>1. \/ Goto(r, "order") /\ answer' = answer
        \/ Goto(r, "done") /\ answer' = [answer EXCEPT ![r] = "refused"]
    BY <1>3 DEF ReadCoupon, Finish
  <2> QED
    BY <1>3, <2>1, ServerStepKeepsIInv DEF ReadCoupon
<1>4. CASE InsertOrder(r)
  BY <1>4, ServerStepKeepsIInv DEF InsertOrder
<1>5. CASE InsertKey(r)
  <2>1. CASE KeyTaken(r)
    BY <1>5, <2>1, ServerStepKeepsIInv DEF InsertKey, TryKey, Finish
  <2>2. CASE ~KeyTaken(r)
    BY <1>5, <2>2, HoldKeyKeepsIInv DEF InsertKey, TryKey
  <2> QED
    BY <2>1, <2>2
<1>6. CASE WriteLogs(r)
  BY <1>6, WriteLogsKeepsIInv
<1>7. CASE Rollback(r)
  BY <1>7, ServerStepKeepsIInv DEF Rollback, Finish
<1> QED
  BY <1>1, <1>2, <1>3, <1>4, <1>5, <1>6, <1>7 DEF Serve

LEMMA NextKeepsIInv == IInv /\ [Next]_vars => IInv'
<1> SUFFICES ASSUME IInv, [Next]_vars PROVE IInv'
  OBVIOUS
<1>0. TypeOK' /\ stored \in [Browsers -> Sessions \cup {None}]
  BY NextKeepsTypes DEF IInv, TypeOK
<1>1. CASE UNCHANGED vars
  BY <1>0, <1>1, BrowserStepKeepsIInv DEF vars
<1>2. ASSUME NEW b \in Browsers, NEW r \in Requests, Submit(b, r) PROVE IInv'
  BY <1>0, <1>2, SubmitKeepsIInv
<1>3. ASSUME NEW r \in Requests, Serve(r) \/ Rollback(r) PROVE IInv'
  BY <1>0, <1>3, ServeKeepsIInv
<1>4. ASSUME NEW b \in Browsers, Abandon(b) \/ Confirm(b) PROVE IInv'
  <2>1. /\ UNCHANGED <<sent, pc, answer, opened, keys>>
        /\ stored' = [stored EXCEPT ![b] = None]
        /\ \A c \in Browsers : c # b => visitor'[c] = visitor[c]
    BY <1>4 DEF Abandon, Confirm, EndSession, server, IInv, TypeOK
  <2> QED
    BY <1>0, <2>1, BrowserStepKeepsIInv
<1>5. ASSUME NEW b \in Browsers, Reload(b) \/ LeavePayment(b) \/ Pay(b) PROVE IInv'
  BY <1>0, <1>5, BrowserStepKeepsIInv DEF Reload, LeavePayment, Pay, browser, server
<1>6. ASSUME NEW r \in Requests, Receive(r) \/ Disconnect(r) PROVE IInv'
  BY <1>0, <1>6, BrowserStepKeepsIInv DEF Receive, Disconnect, server
<1>7. CASE CloseShow
  BY <1>0, <1>7, BrowserStepKeepsIInv DEF CloseShow, browser, server
<1> QED
  BY <1>1, <1>2, <1>3, <1>4, <1>5, <1>6, <1>7 DEF Next

(***************************************************************************)
(* Every reachable state is typed: the reads and writes of createOrder and *)
(* of the checkout sheet stay within what TypeOK says of them.             *)
(***************************************************************************)
THEOREM CreationTyped == Spec => []TypeOK
<1>1. IInv => TypeOK
  BY DEF IInv
<1> QED
  BY <1>1, InitEstablishesIInv, NextKeepsIInv, PTL DEF Spec

(***************************************************************************)
(* createOrder is idempotent by its key: two orders with opening entries   *)
(* never come from one key, whatever races.                                *)
(***************************************************************************)
THEOREM OneOrderPerKey == Spec => []OneOpenedOrderPerKey
<1>1. IInv => OneOpenedOrderPerKey
  BY IInvSuffices
<1> QED
  BY <1>1, InitEstablishesIInv, NextKeepsIInv, PTL DEF Spec

(***************************************************************************)
(* All submissions of one attempt that are answered with an order are      *)
(* answered with the same one.                                             *)
(***************************************************************************)
THEOREM RetriesAgree == Spec => []RetriesGetTheSameOrder
<1>1. IInv => RetriesGetTheSameOrder
  BY IInvSuffices
<1> QED
  BY <1>1, InitEstablishesIInv, NextKeepsIInv, PTL DEF Spec

(***************************************************************************)
(* Whoever is answered with an order sent it: the fingerprint keeps one    *)
(* basket's order from answering another, the idle reset one customer's    *)
(* from answering the next.                                                *)
(***************************************************************************)
THEOREM OwnAnswers == Spec => []AnswersAreTheCustomersOwn
<1>1. IInv => AnswersAreTheCustomersOwn
  BY IInvSuffices
<1> QED
  BY <1>1, InitEstablishesIInv, NextKeepsIInv, PTL DEF Spec

=============================================================================
