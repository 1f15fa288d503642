--------------------------- MODULE IoServicesProofs ---------------------------
(***************************************************************************)
(* The safety of IoServices for any number of multicast endpoints and      *)
(* acceptors, and that each of them implements Connection.                 *)
(***************************************************************************)
EXTENDS IoServices, TLAPS

USE IoServicesAssumption, NoObjAssumption, RmpEpsAssumption, AcceptorsAssumption

(* The task is in a callback that tells the object of the task.            *)
Telling(t, o) == cur[t] = o /\ phase[t] \in {"deled", "addfailed", "added"}

(* How many of an object a task has in its two caches and in the local     *)
(* vector, and whether it is telling the object.                           *)
Copies(t, o, a, d, v, c) ==
  AddCache[t][o] = a /\ DelCache[t][o] = d /\ vecTmp[t][o] = v /\ (Telling(t, o) <=> c)

(* Where an object can stand with a task.                                  *)
Has(t, o)  == o \in setIoObjs[t]
Out(t, o)  == Copies(t, o, 0, 0, 0, FALSE) /\ ~ Has(t, o)
In(t, o)   == Copies(t, o, 0, 0, 0, FALSE) /\ Has(t, o)

(* On the way in: in the cache, in the local vector, in the callback.  An  *)
(* insertion that failed is told twice, the second time as if it had not.  *)
Queued(t, o) == Copies(t, o, 1, 0, 0, FALSE) /\ ~ Has(t, o)
Taken(t, o)  == /\ Copies(t, o, 0, 0, 1, FALSE) /\ ~ Has(t, o)
                /\ phase[t] \in {"adds", "addfailed", "added"}
Failed(t, o) == Copies(t, o, 0, 0, 0, TRUE) /\ ~ Has(t, o) /\ phase[t] = "addfailed"
Added(t, o)  == Copies(t, o, 0, 0, 0, TRUE) /\ Has(t, o) /\ phase[t] = "added"
Unadded(t, o, a) == Copies(t, o, a, 0, 0, TRUE) /\ ~ Has(t, o) /\ phase[t] = "added"

(* On the way out.                                                         *)
Leaving(t, o) == Copies(t, o, 0, 1, 0, FALSE)
Erasing(t, o) == Copies(t, o, 0, 0, 1, FALSE) /\ phase[t] \in {"dels", "deled"}
Deled(t, o)   == Copies(t, o, 0, 0, 0, TRUE) /\ ~ Has(t, o) /\ phase[t] = "deled"

(* To be deleted while it still is to be added: the deletion will abort.   *)
Doomed(t, o) ==
  /\ ~ Has(t, o)
  /\ \/ Copies(t, o, 1, 1, 0, FALSE) /\ phase[t] \notin {"dels", "deled"}
     \/ Copies(t, o, 1, 0, 1, FALSE) /\ phase[t] \in {"dels", "deled"}

GoingIn(t, o, pending) ==
  \/ Queued(t, o) \/ Taken(t, o) \/ Failed(t, o) \/ Added(t, o)
  \/ Unadded(t, o, 0) /\ pending

GoingOut(t, o) == Leaving(t, o) \/ Erasing(t, o) \/ Deled(t, o)

(* An endpoint in each of its states.  One that the output task could not  *)
(* insert is closed before the task has told it so: it may be opened again *)
(* by then, and what it is told then is not for its new attempt.           *)
RmpStands(e) ==
  LET pending == rmpPending[e] # "NONE" IN
  /\ rmpState[e] = "CLOSED" =>
       Out("IT", e) /\ (Out("OT", e) \/ (Unadded("OT", e, 0) /\ pending))
  /\ rmpState[e] = "ADDING_INTO_OT" =>
       /\ Out("IT", e) /\ rmpSock[e] \in {"open", "NULL"}
       /\ \/ Queued("OT", e) \/ Taken("OT", e) \/ Failed("OT", e)
          \/ Added("OT", e) /\ rmpSock[e] = "open"
          \/ Unadded("OT", e, 1) /\ pending
  /\ rmpState[e] = "ADDING_INTO_IT" =>
       rmpSock[e] = "open" /\ In("OT", e) /\ GoingIn("IT", e, pending)
  /\ rmpState[e] = "OPENED" => rmpSock[e] = "open" /\ In("OT", e) /\ In("IT", e)
  /\ rmpState[e] = "DELING_FROM_IT" => In("OT", e) /\ GoingOut("IT", e)
  /\ rmpState[e] = "DELING_FROM_OT" =>
       Out("IT", e) /\ (GoingOut("OT", e) \/ Doomed("OT", e))

(* An acceptor has nothing to do with the output task.                     *)
AccStands(a) ==
  /\ Out("OT", a)
  /\ accState[a] = "CLOSED" => Out("IT", a)
  /\ accState[a] = "ADDING_INTO_IT" =>
       listener[a] = "open" /\ GoingIn("IT", a, accPending[a] # "NONE")
  /\ accState[a] = "OPENED" => listener[a] = "open" /\ In("IT", a)
  /\ accState[a] = "DELING_FROM_IT" => GoingOut("IT", a)

(* What a task has from the kernel, or works on, is of an object it has,   *)
(* until the next deletions.                                               *)
TaskHolds(t) ==
  /\ armed[t] \subseteq setIoObjs[t] /\ arrEvts[t] \subseteq setIoObjs[t]
  /\ arrEvts[t] # {} => phase[t] \in {"events", "io"}
  /\ phase[t] = "io" => cur[t] \in RmpEps /\ cur[t] \in setIoObjs[t]
  /\ phase[t] \in {"top", "dels", "adds", "events"} => cur[t] = NoObj
  /\ phase[t] \in {"deled", "addfailed", "added"} => cur[t] \in IoObjs

Holds ==
  /\ \A t \in IoTasks : TaskHolds(t)
  /\ \A e \in RmpEps : RmpStands(e)
  /\ \A a \in Acceptors : AccStands(a)

IInv == TypeOK /\ (Alive => Holds)

-----------------------------------------------------------------------------
(* What an event does to the object it is posted to.                       *)

Tasks    == {"OT", "IT"}
Pendings == {"NONE", "CLOSE", "INTERNAL_ERR"}
Socks    == {"NULL", "open", "closed"}
Counts   == [IoTasks -> [IoObjs -> Nat]]

(* One more copy for task at in the cache for additions and one for task   *)
(* dt in the one for deletions; "none" where there is none.                *)
Caches(o, at, dt) ==
  /\ AddCache' = IF at = "none" THEN AddCache ELSE [AddCache EXCEPT ![at][o] = @ + 1]
  /\ DelCache' = IF dt = "none" THEN DelCache ELSE [DelCache EXCEPT ![dt][o] = @ + 1]
  /\ armed' \in {armed, [t \in IoTasks |-> armed[t] \ {o}]}

RmpEffect(e, s, p, k, at, dt) ==
  /\ rmpState' = [rmpState EXCEPT ![e] = s]
  /\ rmpPending' = [rmpPending EXCEPT ![e] = p]
  /\ rmpSock' = [rmpSock EXCEPT ![e] = k]
  /\ Caches(e, at, dt)

AccEffect(a, s, p, k, at, dt) ==
  /\ accState' = [accState EXCEPT ![a] = s]
  /\ accPending' = [accPending EXCEPT ![a] = p]
  /\ listener' = [listener EXCEPT ![a] = k]
  /\ Caches(a, at, dt)

(* The rows of the two state machines.                                     *)
RmpRow(e, evt) ==
  LET s == rmpState[e]  p == rmpPending[e]  k == rmpSock[e] IN
  \/ /\ <<s, evt>> \notin RmpRows \/ aborted' # "none"
     /\ RmpEffect(e, s, p, k, "none", "none")
  \/ /\ s = "CLOSED" /\ evt = "OPEN"
     /\ \/ RmpEffect(e, s, p, "NULL", "none", "none")
        \/ RmpEffect(e, "ADDING_INTO_OT", p, "open", "OT", "none")
  \/ /\ s = "ADDING_INTO_OT" /\ evt = "CLOSE"
     /\ RmpEffect(e, s, evt, k, "none", "none")
  \/ /\ s = "ADDING_INTO_IT" /\ evt \in {"CLOSE", "INTERNAL_ERR"}
     /\ RmpEffect(e, s, evt, k, "none", "none")
  \/ /\ s = "ADDING_INTO_OT" /\ evt = "INTERNAL_ERR"
     /\ RmpEffect(e, "CLOSED", "INTERNAL_ERR", k, "none", "none")
  \/ /\ s = "ADDING_INTO_OT" /\ evt = "ADDED_INTO_OT" /\ p = "CLOSE"
     /\ RmpEffect(e, "DELING_FROM_OT", p, "closed", "none", "OT")
  \/ /\ s = "ADDING_INTO_OT" /\ evt = "ADDED_INTO_OT" /\ p = "NONE"
     /\ RmpEffect(e, "ADDING_INTO_IT", p, k, "IT", "none")
  \/ /\ s = "ADDING_INTO_IT" /\ evt = "ADDED_INTO_IT"
     /\ RmpEffect(e, "DELING_FROM_IT", p, "closed", "none", "IT")
  \/ /\ s = "ADDING_INTO_IT" /\ evt = "ADDED_INTO_IT" /\ p = "NONE"
     /\ \E q \in {"NONE", "CLOSE"} : RmpEffect(e, "OPENED", q, k, "none", "none")
  \/ /\ s = "OPENED" /\ evt \in {"CLOSE", "INTERNAL_ERR"}
     /\ RmpEffect(e, "DELING_FROM_IT", p, "closed", "none", "IT")
  \/ /\ s = "DELING_FROM_IT" /\ evt = "DELED_FROM_IT"
     /\ RmpEffect(e, "DELING_FROM_OT", p, k, "none", "OT")
  \/ /\ s = "DELING_FROM_OT" /\ evt = "DELED_FROM_OT"
     /\ \/ RmpEffect(e, "CLOSED", p, "NULL", "none", "none")
        \/ RmpEffect(e, "ADDING_INTO_OT", p, "NULL", "OT", "none")

AccRow(a, evt) ==
  LET s == accState[a]  p == accPending[a]  k == listener[a] IN
  \/ /\ <<s, evt>> \notin AccRows \/ aborted' # "none"
     /\ AccEffect(a, s, p, k, "none", "none")
  \/ /\ s = "CLOSED" /\ evt = "OPEN"
     /\ \/ \E q \in {"open", "closed"} : AccEffect(a, s, "NONE", q, "none", "none")
        \/ AccEffect(a, "ADDING_INTO_IT", "NONE", "open", "IT", "none")
  \/ /\ s = "ADDING_INTO_IT" /\ evt \in {"CLOSE", "INTERNAL_ERR"}
     /\ AccEffect(a, s, evt, k, "none", "none")
  \/ /\ s = "ADDING_INTO_IT" /\ evt = "ADDED_INTO_IT" /\ p # "NONE"
     /\ AccEffect(a, "DELING_FROM_IT", p, "closed", "none", "IT")
  \/ /\ s = "ADDING_INTO_IT" /\ evt = "ADDED_INTO_IT" /\ p = "NONE" /\ k = "open"
     /\ AccEffect(a, "OPENED", p, k, "none", "none")
  \/ /\ s = "OPENED" /\ evt \in {"CLOSE", "INTERNAL_ERR"}
     /\ AccEffect(a, "DELING_FROM_IT", p, "closed", "none", "IT")
  \/ /\ s = "DELING_FROM_IT" /\ evt = "DELED_FROM_IT"
     /\ AccEffect(a, "CLOSED", p, k, "none", "none")

(* A variable whose entry for o is set to what it is does not change.      *)
LEMMA SameEntry ==
  ASSUME NEW S, NEW T, NEW f \in [S -> T], NEW o \in S
  PROVE  [f EXCEPT ![o] = f[o]] = f
  OBVIOUS

LEMMA RmpSame ==
  ASSUME RmpTypeOK, NEW e \in RmpEps
  PROVE  /\ rmpState = [rmpState EXCEPT ![e] = rmpState[e]]
         /\ rmpPending = [rmpPending EXCEPT ![e] = rmpPending[e]]
         /\ rmpSock = [rmpSock EXCEPT ![e] = rmpSock[e]]
  BY SameEntry DEF RmpTypeOK

LEMMA AccSame ==
  ASSUME AccTypeOK, NEW a \in Acceptors
  PROVE  /\ accState = [accState EXCEPT ![a] = accState[a]]
         /\ accPending = [accPending EXCEPT ![a] = accPending[a]]
         /\ listener = [listener EXCEPT ![a] = listener[a]]
  BY SameEntry DEF AccTypeOK

LEMMA RmpPosts ==
  ASSUME RmpTypeOK, aborted = "none", NEW e \in RmpEps, NEW evt, RmpPostEvt(e, evt)
  PROVE  RmpRow(e, evt)
  <1> DEFINE s == rmpState[e]
             p == rmpPending[e]
             k == rmpSock[e]
  <1>0. p \in Pendings
    BY DEF RmpTypeOK, Pendings
  <1>1. ASSUME UNCHANGED <<AddCache, DelCache>>,
               armed' \in {armed, [t \in IoTasks |-> armed[t] \ {e}]}
        PROVE  Caches(e, "none", "none")
    BY <1>1 DEF Caches
  <1>2. CASE <<s, evt>> \notin RmpRows /\ UNCHANGED <<rmpVars, sharedVars>>
    BY <1>1, <1>2, RmpSame DEF RmpRow, RmpEffect, rmpVars, sharedVars
  <1>3. CASE s = "CLOSED" /\ evt = "OPEN" /\ HandlingClosedToAddingIntoOt(e)
    <2>1. CASE /\ RmpSetSock(e, "NULL")
               /\ UNCHANGED <<rmpState, rmpPending, sharedVars>>
      <3>1. RmpEffect(e, s, p, "NULL", "none", "none")
        BY <1>1, <2>1, RmpSame DEF RmpEffect, RmpSetSock, sharedVars
      <3> QED
        BY <1>3, <3>1 DEF RmpRow
    <2>2. CASE /\ RmpSetSock(e, "open")
               /\ RmpEnter(e, "ADDING_INTO_OT")
               /\ AddIoObj("OT", e)
               /\ UNCHANGED <<rmpPending, DelCache, armed, aborted>>
      <3>1. RmpEffect(e, "ADDING_INTO_OT", p, "open", "OT", "none")
        BY <2>2, RmpSame DEF RmpEffect, RmpSetSock, RmpEnter, AddIoObj, Caches
      <3> QED
        BY <1>3, <3>1 DEF RmpRow
    <2> QED
      BY <1>3, <2>1, <2>2 DEF HandlingClosedToAddingIntoOt
  <1>4. ASSUME RmpRemember(e, evt) PROVE RmpEffect(e, s, evt, k, "none", "none")
    BY <1>1, <1>4, RmpSame DEF RmpRemember, RmpEffect, sharedVars
  <1>5. CASE s = "ADDING_INTO_OT" /\ evt = "INTERNAL_ERR"
             /\ HandlingInternalErrWhileAddingIntoOt(e)
    <2>1. RmpEffect(e, "CLOSED", "INTERNAL_ERR", k, "none", "none")
      BY <1>1, <1>5, RmpSame
      DEF HandlingInternalErrWhileAddingIntoOt, RmpEffect, RmpEnter, sharedVars
    <2> QED
      BY <1>5, <2>1 DEF RmpRow
  <1>6. ASSUME NEW t \in Tasks, NEW to, RmpLeave(e, t, to)
        PROVE  RmpEffect(e, to, p, "closed", "none", t)
    <2>1. Caches(e, "none", t)
      BY <1>6 DEF RmpLeave, Disarm, DelIoObj, Caches, Tasks
    <2> QED
      BY <1>6, <2>1, RmpSame DEF RmpLeave, RmpEffect, RmpSetSock, RmpEnter
  <1>7. CASE s = "ADDING_INTO_OT" /\ evt = "ADDED_INTO_OT"
             /\ HandlingAddingIntoOtToAddingIntoIt(e)
    <2>1. CASE p = "CLOSE" /\ RmpLeave(e, "OT", "DELING_FROM_OT")
      BY <1>6, <1>7, <2>1 DEF RmpRow, Tasks
    <2>2. CASE aborted' = "pending" /\ UNCHANGED <<rmpVars, AddCache, DelCache, armed>>
      BY <1>1, <2>2, RmpSame DEF RmpRow, RmpEffect, rmpVars
    <2>3. CASE /\ p = "NONE"
               /\ AddIoObj("IT", e)
               /\ RmpEnter(e, "ADDING_INTO_IT")
               /\ UNCHANGED <<rmpPending, rmpSock, DelCache, armed, aborted>>
      <3>1. RmpEffect(e, "ADDING_INTO_IT", p, k, "IT", "none")
        BY <2>3, RmpSame DEF RmpEffect, RmpEnter, AddIoObj, Caches
      <3> QED
        BY <1>7, <2>3, <3>1 DEF RmpRow
    <2> QED
      BY <1>7, <2>1, <2>2, <2>3 DEF HandlingAddingIntoOtToAddingIntoIt
  <1>8. CASE s = "ADDING_INTO_IT" /\ evt = "ADDED_INTO_IT" /\ HandlingAddingIntoItToOpened(e)
    <2>1. CASE RmpLeave(e, "IT", "DELING_FROM_IT")
      BY <1>6, <1>8, <2>1 DEF RmpRow, Tasks
    <2>2. CASE /\ p = "NONE"
               /\ rmpPending' \in {rmpPending, [rmpPending EXCEPT ![e] = "CLOSE"]}
               /\ RmpEnter(e, "OPENED")
               /\ UNCHANGED <<rmpSock, sharedVars>>
      <3>1. PICK q \in {"NONE", "CLOSE"} : rmpPending' = [rmpPending EXCEPT ![e] = q]
        BY <2>2, RmpSame
      <3>2. RmpEffect(e, "OPENED", q, k, "none", "none")
        BY <1>1, <2>2, <3>1, RmpSame DEF RmpEffect, RmpEnter, sharedVars
      <3> QED
        BY <1>8, <2>2, <3>2 DEF RmpRow
    <2> QED
      BY <1>8, <2>1, <2>2 DEF HandlingAddingIntoItToOpened
  <1>9. CASE s = "OPENED" /\ evt \in {"CLOSE", "INTERNAL_ERR"} /\ HandlingCloseWhileOpened(e)
    BY <1>6, <1>9 DEF HandlingCloseWhileOpened, RmpRow, Tasks
  <1>10. CASE s = "DELING_FROM_IT" /\ evt = "DELED_FROM_IT"
              /\ HandlingDelingFromItToDelingFromOt(e)
    <2>1. RmpEffect(e, "DELING_FROM_OT", p, k, "none", "OT")
      BY <1>10, RmpSame
      DEF HandlingDelingFromItToDelingFromOt, RmpEffect, RmpEnter, DelIoObj, Caches
    <2> QED
      BY <1>10, <2>1 DEF RmpRow
  <1>11. CASE s = "DELING_FROM_OT" /\ evt = "DELED_FROM_OT" /\ HandlingDelingFromOtToClosed(e)
    <2>1. CASE RmpEnter(e, "CLOSED") /\ UNCHANGED AddCache
      <3>1. RmpEffect(e, "CLOSED", p, "NULL", "none", "none")
        BY <1>1, <1>11, <2>1, RmpSame
        DEF HandlingDelingFromOtToClosed, RmpEffect, RmpSetSock, RmpEnter
      <3> QED
        BY <1>11, <3>1 DEF RmpRow
    <2>2. CASE RmpEnter(e, "ADDING_INTO_OT") /\ AddIoObj("OT", e)
      <3>1. RmpEffect(e, "ADDING_INTO_OT", p, "NULL", "OT", "none")
        BY <1>11, <2>2, RmpSame
        DEF HandlingDelingFromOtToClosed, RmpEffect, RmpSetSock, RmpEnter, AddIoObj, Caches
      <3> QED
        BY <1>11, <3>1 DEF RmpRow
    <2> QED
      BY <1>11, <2>1, <2>2 DEF HandlingDelingFromOtToClosed
  <1>12. CASE /\ \/ s = "ADDING_INTO_OT" /\ evt = "CLOSE"
                 \/ s = "ADDING_INTO_IT" /\ evt \in {"CLOSE", "INTERNAL_ERR"}
              /\ RmpRemember(e, evt)
    BY <1>4, <1>12 DEF RmpRow
  <1> QED
    BY <1>2, <1>3, <1>5, <1>7, <1>8, <1>9, <1>10, <1>11, <1>12 DEF RmpPostEvt

LEMMA AccPosts ==
  ASSUME AccTypeOK, aborted = "none", NEW a \in Acceptors, NEW evt,
         AccPostEvt(a, evt) \/ AccPostOrDie(a, evt)
  PROVE  AccRow(a, evt)
  <1> DEFINE s == accState[a]
             p == accPending[a]
             k == listener[a]
  <1>1. ASSUME UNCHANGED <<AddCache, DelCache>>,
               armed' \in {armed, [t \in IoTasks |-> armed[t] \ {a}]}
        PROVE  Caches(a, "none", "none")
    BY <1>1 DEF Caches
  <1>2. CASE <<s, evt>> \notin AccRows /\ UNCHANGED <<accVars, sharedVars>>
    BY <1>1, <1>2, AccSame DEF AccRow, AccEffect, accVars, sharedVars
  <1>3. ASSUME NEW why \in {"listener", "is_opened", "post_evt"}, AccAbort(why)
        PROVE  AccRow(a, evt)
    BY <1>1, <1>3, AccSame DEF AccAbort, AccRow, AccEffect, accVars
  <1>4. ASSUME AccLeave(a) PROVE AccEffect(a, "DELING_FROM_IT", p, "closed", "none", "IT")
    <2>1. Caches(a, "none", "IT")
      BY <1>4 DEF AccLeave, Disarm, DelIoObj, Caches
    <2> QED
      BY <1>4, <2>1, AccSame DEF AccLeave, AccEffect, AccEnter
  <1>5. CASE s = "CLOSED" /\ evt = "OPEN" /\ HandlingClosedToAddingIntoIt(a)
    <2>1. CASE AccAbort("listener")
      BY <1>3, <2>1
    <2>2. CASE /\ accPending' = [accPending EXCEPT ![a] = "NONE"]
               /\ listener' \in {[listener EXCEPT ![a] = q] : q \in {"open", "closed"}}
               /\ UNCHANGED <<accState, AddCache, DelCache, armed>>
      <3>1. PICK q \in {"open", "closed"} : listener' = [listener EXCEPT ![a] = q]
        BY <2>2
      <3>2. AccEffect(a, s, "NONE", q, "none", "none")
        BY <1>1, <2>2, <3>1, AccSame DEF AccEffect
      <3> QED
        BY <1>5, <3>2 DEF AccRow
    <2>3. CASE /\ accPending' = [accPending EXCEPT ![a] = "NONE"]
               /\ listener' = [listener EXCEPT ![a] = "open"]
               /\ AccEnter(a, "ADDING_INTO_IT")
               /\ AddIoObj("IT", a)
               /\ UNCHANGED <<DelCache, armed>>
      <3>1. AccEffect(a, "ADDING_INTO_IT", "NONE", "open", "IT", "none")
        BY <2>3 DEF AccEffect, AccEnter, AddIoObj, Caches
      <3> QED
        BY <1>5, <3>1 DEF AccRow
    <2> QED
      BY <1>5, <2>1, <2>2, <2>3 DEF HandlingClosedToAddingIntoIt
  <1>6. CASE s = "ADDING_INTO_IT" /\ evt \in {"CLOSE", "INTERNAL_ERR"} /\ AccRemember(a, evt)
    <2>1. AccEffect(a, s, evt, k, "none", "none")
      BY <1>1, <1>6, AccSame DEF AccRemember, AccEffect, sharedVars
    <2> QED
      BY <1>6, <2>1 DEF AccRow
  <1>7. CASE s = "ADDING_INTO_IT" /\ evt = "ADDED_INTO_IT" /\ AccHandlingAddingIntoItToOpened(a)
    <2>1. CASE p # "NONE" /\ AccLeave(a)
      BY <1>4, <1>7, <2>1 DEF AccRow
    <2>2. CASE AccAbort("is_opened")
      BY <1>3, <2>2
    <2>3. CASE /\ p = "NONE" /\ k = "open"
               /\ AccEnter(a, "OPENED") /\ UNCHANGED <<accPending, listener, sharedVars>>
      <3>1. AccEffect(a, "OPENED", p, k, "none", "none")
        BY <1>1, <2>3, AccSame DEF AccEffect, AccEnter, sharedVars
      <3> QED
        BY <1>7, <2>3, <3>1 DEF AccRow
    <2> QED
      BY <1>7, <2>1, <2>2, <2>3 DEF AccHandlingAddingIntoItToOpened
  <1>8. CASE s = "OPENED" /\ evt \in {"CLOSE", "INTERNAL_ERR"} /\ AccHandlingCloseWhileOpened(a)
    BY <1>3, <1>4, <1>8 DEF AccHandlingCloseWhileOpened, AccRow
  <1>9. CASE s = "DELING_FROM_IT" /\ evt = "DELED_FROM_IT" /\ HandlingDelingFromItToClosed(a)
    <2>1. AccEffect(a, "CLOSED", p, k, "none", "none")
      BY <1>1, <1>9, AccSame DEF HandlingDelingFromItToClosed, AccEffect, AccEnter, sharedVars
    <2> QED
      BY <1>9, <2>1 DEF AccRow
  <1>10. CASE AccPostEvt(a, evt)
    BY <1>2, <1>5, <1>6, <1>7, <1>8, <1>9, <1>10 DEF AccPostEvt, Accepts
  <1> QED
    BY <1>3, <1>10 DEF AccPostOrDie

(* Every step of the threads but those of the tasks alone posts one event  *)
(* or, "INPUT", none: the callbacks of EPOLLIN and EPOLLOUT.               *)
Row(o, evt) ==
  \/ o \in RmpEps /\ RmpRow(o, evt) /\ UNCHANGED accVars
  \/ o \in Acceptors /\ AccRow(o, evt) /\ UNCHANGED rmpVars

LEMMA PostsRow ==
  ASSUME TypeOK, Alive, NEW o \in IoObjs, NEW evt, PostEvt(o, evt) \/ PostOrDie(o, evt)
  PROVE  Row(o, evt)
  BY RmpPosts, AccPosts DEF TypeOK, Alive, PostEvt, PostOrDie, Row

LEMMA RmpNoEvent ==
  ASSUME RmpTypeOK, NEW e \in RmpEps,
         \/ UNCHANGED <<rmpVars, sharedVars>>
         \/ aborted' = "udp_send" /\ UNCHANGED <<rmpVars, AddCache, DelCache, armed>>
  PROVE  RmpRow(e, "INPUT")
  <1>1. UNCHANGED <<rmpState, rmpPending, rmpSock, AddCache, DelCache, armed>>
    BY DEF rmpVars, sharedVars
  <1>2. RmpEffect(e, rmpState[e], rmpPending[e], rmpSock[e], "none", "none")
    BY <1>1, RmpSame DEF RmpEffect, Caches
  <1>3. <<rmpState[e], "INPUT">> \notin RmpRows
    BY DEF RmpRows
  <1> QED
    BY <1>2, <1>3 DEF RmpRow

LEMMA AccNoEvent ==
  ASSUME AccTypeOK, NEW a \in Acceptors, AccHandlesInput(a)
  PROVE  AccRow(a, "INPUT")
  <1>1. UNCHANGED <<accState, accPending, listener, AddCache, DelCache, armed>>
    BY DEF AccHandlesInput, AccAbort, accVars, sharedVars
  <1>2. AccEffect(a, accState[a], accPending[a], listener[a], "none", "none")
    BY <1>1, AccSame DEF AccEffect, Caches
  <1>3. <<accState[a], "INPUT">> \notin AccRows
    BY DEF AccRows
  <1> QED
    BY <1>2, <1>3 DEF AccRow

LEMMA IoRow ==
  ASSUME TypeOK, Alive, NEW t \in IoTasks, NEW e \in RmpEps,
         RmpIoReturns(t, e), UNCHANGED accVars
  PROVE  Row(e, "INPUT") \/ Row(e, "INTERNAL_ERR")
  BY RmpPosts, RmpNoEvent DEF RmpIoReturns, Row, TypeOK, Alive

-----------------------------------------------------------------------------
(* The caches and the kernel's sets after an event, entry by entry.        *)

CacheTypes ==
  /\ AddCache \in Counts /\ DelCache \in Counts
  /\ armed \in [IoTasks -> SUBSET IoObjs]

(* The number of copies of o for task t grows by i and by j.               *)
Counted(t, o, i, j) ==
  AddCache'[t][o] = AddCache[t][o] + i /\ DelCache'[t][o] = DelCache[t][o] + j

One(t, u) == IF t = u THEN 1 ELSE 0

LEMMA BumpOne ==
  ASSUME NEW f \in Counts, NEW t \in IoTasks, NEW o \in IoObjs
  PROVE  /\ [f EXCEPT ![t][o] = @ + 1] \in Counts
         /\ \A u \in IoTasks : [f EXCEPT ![t][o] = @ + 1][u][o] = f[u][o] + One(u, t)
         /\ \A u \in IoTasks : \A q \in IoObjs \ {o} : [f EXCEPT ![t][o] = @ + 1][u][q] = f[u][q]
  <1>1. f \in [IoTasks -> [IoObjs -> Nat]]
    BY DEF Counts
  <1>2. \A u \in IoTasks : \A q \in IoObjs : f[u][q] \in Nat
    BY <1>1
  <1>3. [f EXCEPT ![t][o] = @ + 1] = [f EXCEPT ![t] = [f[t] EXCEPT ![o] = f[t][o] + 1]]
    BY <1>1
  <1>4. [f[t] EXCEPT ![o] = f[t][o] + 1] \in [IoObjs -> Nat]
    BY <1>1, <1>2
  <1> QED
    BY <1>1, <1>2, <1>3, <1>4 DEF Counts, One

LEMMA CachesAre ==
  ASSUME CacheTypes, NEW o \in IoObjs,
         NEW at \in Tasks \cup {"none"}, NEW dt \in Tasks \cup {"none"}, Caches(o, at, dt)
  PROVE  /\ CacheTypes'
         /\ \A u \in IoTasks : armed'[u] \subseteq armed[u]
         /\ \A u \in IoTasks : Counted(u, o, One(u, at), One(u, dt))
         /\ \A u \in IoTasks : \A q \in IoObjs \ {o} : Counted(u, q, 0, 0)
  <1>1. armed' \in [IoTasks -> SUBSET IoObjs] /\ \A u \in IoTasks : armed'[u] \subseteq armed[u]
    BY DEF CacheTypes, Caches
  <1>2. \A u \in IoTasks : \A q \in IoObjs : AddCache[u][q] \in Nat /\ DelCache[u][q] \in Nat
    BY DEF CacheTypes, Counts
  <1>3. /\ AddCache' \in Counts
        /\ \A u \in IoTasks : AddCache'[u][o] = AddCache[u][o] + One(u, at)
        /\ \A u \in IoTasks : \A q \in IoObjs \ {o} : AddCache'[u][q] = AddCache[u][q]
    <2>1. CASE at = "none"
      BY <1>2, <2>1 DEF CacheTypes, Caches, One
    <2>2. CASE at \in IoTasks
      BY <2>2, BumpOne DEF CacheTypes, Caches
    <2> QED
      BY <2>1, <2>2 DEF Tasks
  <1>4. /\ DelCache' \in Counts
        /\ \A u \in IoTasks : DelCache'[u][o] = DelCache[u][o] + One(u, dt)
        /\ \A u \in IoTasks : \A q \in IoObjs \ {o} : DelCache'[u][q] = DelCache[u][q]
    <2>1. CASE dt = "none"
      BY <1>2, <2>1 DEF CacheTypes, Caches, One
    <2>2. CASE dt \in IoTasks
      BY <2>2, BumpOne DEF CacheTypes, Caches
    <2> QED
      BY <2>1, <2>2 DEF Tasks
  <1> QED
    BY <1>1, <1>2, <1>3, <1>4 DEF CacheTypes, Counted

(* The object after an event, and the others, which are as they were.      *)
RmpIs(e, s, p, k) == rmpState'[e] = s /\ rmpPending'[e] = p /\ rmpSock'[e] = k
AccIs(a, s, p, k) == accState'[a] = s /\ accPending'[a] = p /\ listener'[a] = k
RmpKept(e) == RmpIs(e, rmpState[e], rmpPending[e], rmpSock[e])
AccKept(a) == AccIs(a, accState[a], accPending[a], listener[a])

(* What a row says of task at's cache for additions and of dt's for        *)
(* deletions, whatever the object.                                         *)
Counting(o, at, dt) == \A u \in IoTasks : Counted(u, o, One(u, at), One(u, dt))

OthersKept(o) ==
  /\ \A q \in RmpEps \ {o} : RmpKept(q)
  /\ \A q \in Acceptors \ {o} : AccKept(q)
  /\ \A u \in IoTasks : \A q \in IoObjs \ {o} : Counted(u, q, 0, 0)

AccStates == {"CLOSED", "ADDING_INTO_IT", "OPENED", "DELING_FROM_IT"}

LEMMA RmpEffectIs ==
  ASSUME TypeOK, CacheTypes, NEW e \in RmpEps, NEW s \in RmpStates, NEW p \in Pendings, NEW k \in Socks,
         NEW at \in Tasks \cup {"none"}, NEW dt \in Tasks \cup {"none"},
         RmpEffect(e, s, p, k, at, dt), UNCHANGED accVars
  PROVE  /\ RmpTypeOK' /\ AccTypeOK' /\ CacheTypes'
         /\ \A u \in IoTasks : armed'[u] \subseteq armed[u]
         /\ RmpIs(e, s, p, k) /\ Counting(e, at, dt) /\ OthersKept(e)
  <1>0. e \in IoObjs
    OBVIOUS
  <1>1. /\ CacheTypes' /\ \A u \in IoTasks : armed'[u] \subseteq armed[u]
        /\ Counting(e, at, dt)
        /\ \A u \in IoTasks : \A q \in IoObjs \ {e} : Counted(u, q, 0, 0)
    BY <1>0, CachesAre DEF RmpEffect, Counting
  <1>2. /\ rmpState \in [RmpEps -> RmpStates]
        /\ rmpPending \in [RmpEps -> Pendings]
        /\ rmpSock \in [RmpEps -> Socks]
    BY DEF TypeOK, RmpTypeOK, Pendings, Socks
  <1>3. RmpTypeOK' /\ RmpIs(e, s, p, k) /\ \A q \in RmpEps \ {e} : RmpKept(q)
    BY <1>2 DEF RmpEffect, RmpTypeOK, RmpIs, RmpKept, Pendings, Socks
  <1>4. AccTypeOK' /\ \A q \in Acceptors : AccKept(q)
    BY DEF TypeOK, AccTypeOK, accVars, AccKept, AccIs
  <1> QED
    BY <1>1, <1>3, <1>4 DEF OthersKept

LEMMA AccEffectIs ==
  ASSUME TypeOK, CacheTypes, NEW a \in Acceptors, NEW s \in AccStates, NEW p \in Pendings, NEW k \in Socks,
         NEW at \in Tasks \cup {"none"}, NEW dt \in Tasks \cup {"none"},
         AccEffect(a, s, p, k, at, dt), UNCHANGED rmpVars
  PROVE  /\ RmpTypeOK' /\ AccTypeOK' /\ CacheTypes'
         /\ \A u \in IoTasks : armed'[u] \subseteq armed[u]
         /\ AccIs(a, s, p, k) /\ Counting(a, at, dt) /\ OthersKept(a)
  <1>0. a \in IoObjs
    OBVIOUS
  <1>1. /\ CacheTypes' /\ \A u \in IoTasks : armed'[u] \subseteq armed[u]
        /\ Counting(a, at, dt)
        /\ \A u \in IoTasks : \A q \in IoObjs \ {a} : Counted(u, q, 0, 0)
    BY <1>0, CachesAre DEF AccEffect, Counting
  <1>2. /\ accState \in [Acceptors -> AccStates]
        /\ accPending \in [Acceptors -> Pendings]
        /\ listener \in [Acceptors -> Socks]
    BY DEF TypeOK, AccTypeOK, AccStates, Pendings, Socks
  <1>3. AccTypeOK' /\ AccIs(a, s, p, k) /\ \A q \in Acceptors \ {a} : AccKept(q)
    BY <1>2 DEF AccEffect, AccTypeOK, AccIs, AccKept, AccStates, Pendings, Socks
  <1>4. RmpTypeOK' /\ \A q \in RmpEps : RmpKept(q)
    BY DEF TypeOK, RmpTypeOK, rmpVars, RmpKept, RmpIs
  <1> QED
    BY <1>1, <1>3, <1>4 DEF OthersKept

-----------------------------------------------------------------------------
(* How an object moves from place to place with a task.                    *)

Deleting(t) == phase[t] \in {"dels", "deled"}
Adding(t)   == phase[t] \in {"adds", "addfailed", "added"}

(* The task does nothing to the object, and does not leave the loop it     *)
(* has the object in.                                                      *)
Rests(t, o) ==
  /\ vecTmp'[t][o] = vecTmp[t][o]
  /\ Has(t, o)' <=> Has(t, o)
  /\ Telling(t, o)' <=> Telling(t, o)
  /\ Telling(t, o) => phase'[t] = phase[t]
  /\ Deleting(t)' <=> Deleting(t)
  /\ Adding(t) => Adding(t)' \/ vecTmp[t][o] = 0

(* Where an object may be after a step of the task alone.                  *)
Forward(t, o) ==
  /\ Out(t, o) => Out(t, o)'
  /\ In(t, o) => In(t, o)'
  /\ Queued(t, o) => Queued(t, o)' \/ Taken(t, o)'
  /\ Taken(t, o) => Taken(t, o)' \/ Failed(t, o)' \/ (Added(t, o)' /\ Sock(o) = "open")
  /\ Failed(t, o) => Failed(t, o)'
  /\ Added(t, o) => Added(t, o)'
  /\ \A a \in {0, 1} : Unadded(t, o, a) => Unadded(t, o, a)'
  /\ Leaving(t, o) => Leaving(t, o)' \/ Erasing(t, o)'
  /\ Erasing(t, o) => Erasing(t, o)' \/ Deled(t, o)'
  /\ Deled(t, o) => Deled(t, o)'
  /\ Doomed(t, o) => Doomed(t, o)'

LEMMA AtRest ==
  ASSUME NEW t, NEW o, Rests(t, o), Counted(t, o, 0, 0),
         AddCache[t][o] \in Nat, DelCache[t][o] \in Nat
  PROVE  Forward(t, o)
  <1>1. AddCache'[t][o] = AddCache[t][o] /\ DelCache'[t][o] = DelCache[t][o]
    BY DEF Counted
  <1>2. \A a, d, v, c : Copies(t, o, a, d, v, c) => Copies(t, o, a, d, v, c)'
    BY <1>1 DEF Rests, Copies
  <1>3. \A a, d, c : /\ Copies(t, o, a, d, 1, c) /\ Adding(t) => Adding(t)'
    BY DEF Rests, Copies
  <1>4. \A a, d, v : Copies(t, o, a, d, v, TRUE) => phase'[t] = phase[t]
    BY DEF Rests, Copies
  <1>5. (Has(t, o)' <=> Has(t, o)) /\ (Deleting(t)' <=> Deleting(t))
    BY DEF Rests
  <1>6. Taken(t, o) => Taken(t, o)'
    BY <1>2, <1>3, <1>5 DEF Taken, Adding
  <1>7. Erasing(t, o) => Erasing(t, o)'
    BY <1>2, <1>5 DEF Erasing, Deleting
  <1>8. Doomed(t, o) => Doomed(t, o)'
    BY <1>2, <1>5 DEF Doomed, Deleting
  <1>9. /\ Out(t, o) => Out(t, o)'
        /\ In(t, o) => In(t, o)'
        /\ Queued(t, o) => Queued(t, o)'
        /\ Leaving(t, o) => Leaving(t, o)'
    BY <1>2, <1>5 DEF Out, In, Queued, Leaving
  <1>10. /\ Failed(t, o) => Failed(t, o)'
         /\ Added(t, o) => Added(t, o)'
         /\ \A a \in {0, 1} : Unadded(t, o, a) => Unadded(t, o, a)'
         /\ Deled(t, o) => Deled(t, o)'
    BY <1>2, <1>4, <1>5 DEF Failed, Added, Unadded, Deled
  <1> QED
    BY <1>6, <1>7, <1>8, <1>9, <1>10 DEF Forward

(* In which places the task is telling the object, and what.               *)
LEMMA WhoIsTold ==
  ASSUME NEW t, NEW o
  PROVE  /\ \/ Out(t, o) \/ In(t, o) \/ Queued(t, o) \/ Taken(t, o)
            \/ Leaving(t, o) \/ Erasing(t, o) \/ Doomed(t, o)
            => ~ Telling(t, o)
         /\ Failed(t, o) => phase[t] = "addfailed" /\ ~ Has(t, o)
         /\ Added(t, o) => phase[t] = "added"
         /\ \A a \in {0, 1} : Unadded(t, o, a) => phase[t] = "added" /\ ~ Has(t, o)
         /\ Deled(t, o) => phase[t] = "deled" /\ ~ Has(t, o)
         /\ Out(t, o) \/ Queued(t, o) \/ Taken(t, o) \/ Doomed(t, o) => ~ Has(t, o)
  <1>1. /\ Out(t, o) \/ In(t, o) \/ Queued(t, o) => ~ Telling(t, o)
        /\ Out(t, o) \/ Queued(t, o) => ~ Has(t, o)
    BY DEF Out, In, Queued, Copies
  <1>2. Taken(t, o) => ~ Telling(t, o) /\ ~ Has(t, o)
    BY DEF Taken, Copies
  <1>3. Leaving(t, o) \/ Erasing(t, o) => ~ Telling(t, o)
    BY DEF Leaving, Erasing, Copies
  <1>4. Doomed(t, o) => ~ Telling(t, o) /\ ~ Has(t, o)
    BY DEF Doomed, Copies
  <1>5. /\ Failed(t, o) => phase[t] = "addfailed" /\ ~ Has(t, o)
        /\ Added(t, o) => phase[t] = "added"
        /\ \A a \in {0, 1} : Unadded(t, o, a) => phase[t] = "added" /\ ~ Has(t, o)
        /\ Deled(t, o) => phase[t] = "deled" /\ ~ Has(t, o)
    BY DEF Failed, Added, Unadded, Deled
  <1> QED
    BY <1>1, <1>2, <1>3, <1>4, <1>5

(* The object is put into a cache while the task rests.                    *)
LEMMA PutAtRest ==
  ASSUME NEW t, NEW o, Rests(t, o), AddCache[t][o] \in Nat, DelCache[t][o] \in Nat
  PROVE  /\ Counted(t, o, 1, 0) => /\ Out(t, o) => Queued(t, o)'
                                   /\ Unadded(t, o, 0) => Unadded(t, o, 1)'
         /\ Counted(t, o, 0, 1) /\ In(t, o) => Leaving(t, o)'
  <1>1. Counted(t, o, 1, 0) /\ Out(t, o) => Queued(t, o)'
    BY DEF Rests, Counted, Out, Queued, Copies
  <1>2. Counted(t, o, 1, 0) /\ Unadded(t, o, 0) => Unadded(t, o, 1)'
    BY DEF Rests, Counted, Unadded, Copies
  <1>3. Counted(t, o, 0, 1) /\ In(t, o) => Leaving(t, o)'
    BY DEF Rests, Counted, In, Leaving, Copies
  <1> QED
    BY <1>1, <1>2, <1>3

(* The task tells the object that it was added, or was not, and is done.   *)
ToldAdded(t, o) ==
  /\ Telling(t, o) /\ phase[t] = "added"
  /\ ~ Telling(t, o)' /\ phase'[t] = "adds"
  /\ vecTmp'[t][o] = vecTmp[t][o]
  /\ Has(t, o)' <=> Has(t, o)

LEMMA AfterAdded ==
  ASSUME NEW t, NEW o, ToldAdded(t, o), AddCache[t][o] \in Nat, DelCache[t][o] \in Nat
  PROVE  /\ Counted(t, o, 0, 0) => /\ Unadded(t, o, 0) => Out(t, o)'
                                   /\ Added(t, o) => In(t, o)'
         /\ Counted(t, o, 0, 1) => /\ Added(t, o) => Leaving(t, o)'
                                   /\ Unadded(t, o, 0) => Leaving(t, o)'
                                   /\ Unadded(t, o, 1) => Doomed(t, o)'
  <1>1. Counted(t, o, 0, 0) /\ Unadded(t, o, 0) => Out(t, o)'
    BY DEF ToldAdded, Counted, Unadded, Out, Copies
  <1>2. Counted(t, o, 0, 0) /\ Added(t, o) => In(t, o)'
    BY DEF ToldAdded, Counted, Added, In, Copies
  <1>3. Counted(t, o, 0, 1) /\ (Added(t, o) \/ Unadded(t, o, 0)) => Leaving(t, o)'
    BY DEF ToldAdded, Counted, Added, Unadded, Leaving, Copies
  <1>4. Counted(t, o, 0, 1) /\ Unadded(t, o, 1) => Doomed(t, o)'
    BY DEF ToldAdded, Counted, Unadded, Doomed, Copies
  <1> QED
    BY <1>1, <1>2, <1>3, <1>4

(* The task tells the object that it was deleted.                          *)
ToldDeled(t, o) ==
  /\ Telling(t, o) /\ phase[t] = "deled"
  /\ ~ Telling(t, o)' /\ phase'[t] = "dels"
  /\ vecTmp'[t][o] = vecTmp[t][o]
  /\ Has(t, o)' <=> Has(t, o)

LEMMA AfterDeled ==
  ASSUME NEW t, NEW o, ToldDeled(t, o), AddCache[t][o] \in Nat, DelCache[t][o] \in Nat,
         Deled(t, o)
  PROVE  /\ Counted(t, o, 0, 0) => Out(t, o)'
         /\ Counted(t, o, 1, 0) => Queued(t, o)'
  BY DEF ToldDeled, Counted, Out, Queued, Deled, Copies

(* The task tells the object that its insertion failed, the first time.    *)
ToldFailed(t, o) ==
  /\ Telling(t, o) /\ phase[t] = "addfailed"
  /\ Telling(t, o)' /\ phase'[t] = "added"
  /\ vecTmp'[t][o] = vecTmp[t][o]
  /\ Has(t, o)' <=> Has(t, o)

LEMMA AfterFailed ==
  ASSUME NEW t, NEW o, ToldFailed(t, o), AddCache[t][o] \in Nat, DelCache[t][o] \in Nat
  PROVE  Counted(t, o, 0, 0) /\ Failed(t, o) => Unadded(t, o, 0)'
  BY DEF ToldFailed, Counted, Failed, Unadded, Copies

LEMMA RmpForward ==
  ASSUME NEW e \in RmpEps, RmpStands(e), RmpKept(e), Forward("OT", e), Forward("IT", e)
  PROVE  RmpStands(e)'
  <1>1. /\ rmpState'[e] = rmpState[e] /\ rmpPending'[e] = rmpPending[e]
        /\ rmpSock'[e] = rmpSock[e] /\ Sock(e) = rmpSock[e]
    BY DEF RmpKept, RmpIs, Sock
  <1>2. GoingIn("IT", e, rmpPending[e] # "NONE")
          => GoingIn("IT", e, rmpPending[e] # "NONE")'
    BY <1>1 DEF GoingIn, Forward
  <1>3. \A t \in Tasks : GoingOut(t, e) => GoingOut(t, e)'
    BY DEF GoingOut, Forward, Tasks
  <1> QED
    BY <1>1, <1>2, <1>3 DEF RmpStands, Forward, Tasks

LEMMA AccForward ==
  ASSUME NEW a \in Acceptors, AccStands(a), AccKept(a), Forward("OT", a), Forward("IT", a)
  PROVE  AccStands(a)'
  <1>1. /\ accState'[a] = accState[a] /\ accPending'[a] = accPending[a]
        /\ listener'[a] = listener[a]
    BY DEF AccKept, AccIs
  <1>2. GoingIn("IT", a, accPending[a] # "NONE")
          => GoingIn("IT", a, accPending[a] # "NONE")'
    BY <1>1 DEF GoingIn, Forward
  <1>3. GoingOut("IT", a) => GoingOut("IT", a)'
    BY DEF GoingOut, Forward
  <1> QED
    BY <1>1, <1>2, <1>3 DEF AccStands, Forward

-----------------------------------------------------------------------------
(* An event that a user or a task posts while both tasks rest.             *)

Natural(o) == \A t \in IoTasks : AddCache[t][o] \in Nat /\ DelCache[t][o] \in Nat

LEMMA NoneMoves ==
  ASSUME NEW o, Natural(o), Counting(o, "none", "none"), Rests("OT", o), Rests("IT", o)
  PROVE  Forward("OT", o) /\ Forward("IT", o)
  <1>1. Counted("OT", o, 0, 0) /\ Counted("IT", o, 0, 0)
    BY DEF Counting, One
  <1> QED
    BY <1>1, AtRest DEF Natural

LEMMA RmpQuiet ==
  ASSUME TypeOK, NEW e \in RmpEps, RmpStands(e), Natural(e), Alive',
         Rests("OT", e), Rests("IT", e),
         NEW evt \in {"OPEN", "CLOSE", "INTERNAL_ERR", "INPUT"}, RmpRow(e, evt), UNCHANGED accVars,
         evt = "INTERNAL_ERR" => rmpState[e] # "ADDING_INTO_OT"
  PROVE  RmpStands(e)'
  <1> DEFINE s == rmpState[e]
             p == rmpPending[e]
             k == rmpSock[e]
  <1>0. CacheTypes /\ s \in RmpStates /\ p \in Pendings /\ k \in Socks
    BY DEF TypeOK, EpollTypeOK, CacheTypes, Counts, RmpTypeOK, Pendings, Socks
  <1>1. ASSUME NEW to \in RmpStates, NEW q \in Pendings, NEW j \in Socks,
               NEW at \in Tasks \cup {"none"}, NEW dt \in Tasks \cup {"none"},
               RmpEffect(e, to, q, j, at, dt)
        PROVE  RmpIs(e, to, q, j) /\ Counting(e, at, dt)
    BY <1>0, <1>1, RmpEffectIs
  <1>2. CASE RmpEffect(e, s, p, k, "none", "none")
    <2>1. RmpKept(e) /\ Counting(e, "none", "none")
      BY <1>0, <1>1, <1>2 DEF RmpKept
    <2> QED
      BY <2>1, NoneMoves, RmpForward
  <1>3. CASE s = "CLOSED" /\ RmpEffect(e, s, p, "NULL", "none", "none")
    <2>1. RmpIs(e, "CLOSED", p, "NULL") /\ Counting(e, "none", "none")
      BY <1>0, <1>1, <1>3 DEF Socks
    <2>2. Forward("OT", e) /\ Forward("IT", e)
      BY <2>1, NoneMoves
    <2> QED
      BY <1>3, <2>1, <2>2 DEF RmpStands, RmpIs, Forward
  <1>4. CASE s = "CLOSED" /\ RmpEffect(e, "ADDING_INTO_OT", p, "open", "OT", "none")
    <2>1. RmpIs(e, "ADDING_INTO_OT", p, "open") /\ Counting(e, "OT", "none")
      BY <1>0, <1>1, <1>4 DEF RmpStates, Socks, Tasks
    <2>2. Counted("OT", e, 1, 0) /\ Counted("IT", e, 0, 0)
      BY <2>1 DEF Counting, One
    <2>3. /\ Out("IT", e) => Out("IT", e)'
          /\ Out("OT", e) => Queued("OT", e)'
          /\ Unadded("OT", e, 0) => Unadded("OT", e, 1)'
      BY <2>2, AtRest, PutAtRest DEF Natural, Forward
    <2> QED
      BY <1>4, <2>1, <2>3 DEF RmpStands, RmpIs
  <1>5. CASE s \in {"ADDING_INTO_OT", "ADDING_INTO_IT"} /\ evt \in {"CLOSE", "INTERNAL_ERR"}
             /\ RmpEffect(e, s, evt, k, "none", "none")
    <2>0. evt \in Pendings
      BY <1>5 DEF Pendings
    <2>1. RmpIs(e, s, evt, k) /\ Counting(e, "none", "none")
      BY <1>0, <1>1, <1>5, <2>0
    <2>2. Forward("OT", e) /\ Forward("IT", e)
      BY <2>1, NoneMoves
    <2>3. Sock(e) = k
      BY DEF Sock
    <2>4. CASE s = "ADDING_INTO_OT"
      BY <1>5, <2>1, <2>2, <2>3, <2>4 DEF RmpStands, RmpIs, Forward
    <2>5. CASE s = "ADDING_INTO_IT"
      <3>1. GoingIn("IT", e, p # "NONE") => GoingIn("IT", e, evt # "NONE")'
        BY <1>5, <2>2 DEF GoingIn, Forward
      <3> QED
        BY <1>5, <2>1, <2>2, <2>5, <3>1 DEF RmpStands, RmpIs, Forward
    <2> QED
      BY <1>5, <2>4, <2>5
  <1>6. CASE s = "OPENED" /\ RmpEffect(e, "DELING_FROM_IT", p, "closed", "none", "IT")
    <2>1. RmpIs(e, "DELING_FROM_IT", p, "closed") /\ Counting(e, "none", "IT")
      BY <1>0, <1>1, <1>6 DEF RmpStates, Socks, Tasks
    <2>2. Counted("OT", e, 0, 0) /\ Counted("IT", e, 0, 1)
      BY <2>1 DEF Counting, One
    <2>3. /\ In("OT", e) => In("OT", e)'
          /\ In("IT", e) => Leaving("IT", e)'
      BY <2>2, AtRest, PutAtRest DEF Natural, Forward
    <2> QED
      BY <1>6, <2>1, <2>3 DEF RmpStands, RmpIs, GoingOut
  <1> QED
    BY <1>2, <1>3, <1>4, <1>5, <1>6 DEF RmpRow

LEMMA AccQuiet ==
  ASSUME TypeOK, NEW a \in Acceptors, AccStands(a), Natural(a), Alive',
         Rests("OT", a), Rests("IT", a),
         NEW evt \in {"OPEN", "CLOSE", "INTERNAL_ERR", "INPUT"}, AccRow(a, evt), UNCHANGED rmpVars
  PROVE  AccStands(a)'
  <1> DEFINE s == accState[a]
             p == accPending[a]
             k == listener[a]
  <1>0. CacheTypes /\ s \in AccStates /\ p \in Pendings /\ k \in Socks
    BY DEF TypeOK, EpollTypeOK, CacheTypes, Counts, AccTypeOK, AccStates, Pendings, Socks
  <1>1. ASSUME NEW to \in AccStates, NEW q \in Pendings, NEW j \in Socks,
               NEW at \in Tasks \cup {"none"}, NEW dt \in Tasks \cup {"none"},
               AccEffect(a, to, q, j, at, dt)
        PROVE  AccIs(a, to, q, j) /\ Counting(a, at, dt)
    BY <1>0, <1>1, AccEffectIs
  <1>2. CASE AccEffect(a, s, p, k, "none", "none")
    <2>1. AccKept(a) /\ Counting(a, "none", "none")
      BY <1>0, <1>1, <1>2 DEF AccKept
    <2> QED
      BY <2>1, NoneMoves, AccForward
  <1>3. ASSUME NEW q \in {"open", "closed"}, s = "CLOSED", AccEffect(a, s, "NONE", q, "none", "none")
        PROVE  AccStands(a)'
    <2>1. AccIs(a, "CLOSED", "NONE", q) /\ Counting(a, "none", "none")
      BY <1>0, <1>1, <1>3 DEF Socks, Pendings
    <2>2. Forward("OT", a) /\ Forward("IT", a)
      BY <2>1, NoneMoves
    <2> QED
      BY <1>3, <2>1, <2>2 DEF AccStands, AccIs, Forward
  <1>4. CASE s = "CLOSED" /\ AccEffect(a, "ADDING_INTO_IT", "NONE", "open", "IT", "none")
    <2>1. AccIs(a, "ADDING_INTO_IT", "NONE", "open") /\ Counting(a, "IT", "none")
      BY <1>0, <1>1, <1>4 DEF AccStates, Socks, Pendings, Tasks
    <2>2. Counted("IT", a, 1, 0) /\ Counted("OT", a, 0, 0)
      BY <2>1 DEF Counting, One
    <2>3. /\ Out("OT", a) => Out("OT", a)'
          /\ Out("IT", a) => Queued("IT", a)'
      BY <2>2, AtRest, PutAtRest DEF Natural, Forward
    <2> QED
      BY <1>4, <2>1, <2>3 DEF AccStands, AccIs, GoingIn
  <1>5. CASE s = "ADDING_INTO_IT" /\ evt \in {"CLOSE", "INTERNAL_ERR"}
             /\ AccEffect(a, s, evt, k, "none", "none")
    <2>0. evt \in Pendings
      BY <1>5 DEF Pendings
    <2>1. AccIs(a, s, evt, k) /\ Counting(a, "none", "none")
      BY <1>0, <1>1, <1>5, <2>0
    <2>2. Forward("OT", a) /\ Forward("IT", a)
      BY <2>1, NoneMoves
    <2>3. GoingIn("IT", a, p # "NONE") => GoingIn("IT", a, evt # "NONE")'
      BY <1>5, <2>2 DEF GoingIn, Forward
    <2> QED
      BY <1>5, <2>1, <2>2, <2>3 DEF AccStands, AccIs, Forward
  <1>6. CASE s = "OPENED" /\ AccEffect(a, "DELING_FROM_IT", p, "closed", "none", "IT")
    <2>1. AccIs(a, "DELING_FROM_IT", p, "closed") /\ Counting(a, "none", "IT")
      BY <1>0, <1>1, <1>6 DEF AccStates, Socks, Tasks
    <2>2. Counted("OT", a, 0, 0) /\ Counted("IT", a, 0, 1)
      BY <2>1 DEF Counting, One
    <2>3. /\ Out("OT", a) => Out("OT", a)'
          /\ In("IT", a) => Leaving("IT", a)'
      BY <2>2, AtRest, PutAtRest DEF Natural, Forward
    <2> QED
      BY <1>6, <2>1, <2>3 DEF AccStands, AccIs, GoingOut
  <1> QED
    BY <1>2, <1>3, <1>4, <1>5, <1>6 DEF AccRow

-----------------------------------------------------------------------------
(* The event of a callback: the task tells the object and the other task   *)
(* rests.                                                                  *)

LEMMA RmpFailed ==
  ASSUME TypeOK, NEW e \in RmpEps, RmpStands(e), Natural(e), Alive', NEW t \in IoTasks,
         ToldFailed(t, e), \A u \in IoTasks \ {t} : Rests(u, e),
         RmpRow(e, "INTERNAL_ERR"), UNCHANGED accVars
  PROVE  RmpStands(e)'
  <1> DEFINE p == rmpPending[e]
             k == rmpSock[e]
  <1>0. /\ CacheTypes /\ rmpState[e] \in RmpStates /\ p \in Pendings /\ k \in Socks
        /\ "INTERNAL_ERR" \in Pendings /\ "CLOSED" \in RmpStates
    BY DEF TypeOK, EpollTypeOK, CacheTypes, Counts, RmpTypeOK, Pendings, Socks, RmpStates
  <1>1. Telling(t, e) /\ phase[t] = "addfailed" /\ (t = "OT" \/ t = "IT")
    BY DEF ToldFailed
  <1>2. \/ t = "OT" /\ rmpState[e] = "ADDING_INTO_OT" /\ Failed("OT", e)
        \/ t = "IT" /\ rmpState[e] = "ADDING_INTO_IT" /\ Failed("IT", e)
    BY <1>0, <1>1, WhoIsTold DEF RmpStands, GoingIn, GoingOut, RmpStates
  <1>3. CASE t = "OT" /\ rmpState[e] = "ADDING_INTO_OT" /\ Failed("OT", e)
    <2>1. RmpEffect(e, "CLOSED", "INTERNAL_ERR", k, "none", "none")
      BY <1>3 DEF RmpRow, RmpRows, Alive
    <2>2. RmpIs(e, "CLOSED", "INTERNAL_ERR", k) /\ Counting(e, "none", "none")
      BY <1>0, <2>1, RmpEffectIs
    <2>3. Counted("OT", e, 0, 0) /\ Counted("IT", e, 0, 0) /\ Rests("IT", e)
      BY <1>3, <2>2 DEF Counting, One
    <2>4. Unadded("OT", e, 0)' /\ Forward("IT", e)
      BY <1>3, <2>3, AfterFailed, AtRest DEF Natural
    <2> QED
      BY <1>3, <2>2, <2>4 DEF RmpStands, RmpIs, Forward
  <1>4. CASE t = "IT" /\ rmpState[e] = "ADDING_INTO_IT" /\ Failed("IT", e)
    <2>1. RmpEffect(e, "ADDING_INTO_IT", "INTERNAL_ERR", k, "none", "none")
      BY <1>4 DEF RmpRow, RmpRows, Alive
    <2>2. RmpIs(e, "ADDING_INTO_IT", "INTERNAL_ERR", k) /\ Counting(e, "none", "none")
      BY <1>0, <1>4, <2>1, RmpEffectIs
    <2>3. Counted("OT", e, 0, 0) /\ Counted("IT", e, 0, 0) /\ Rests("OT", e)
      BY <1>4, <2>2 DEF Counting, One
    <2>4. Unadded("IT", e, 0)' /\ Forward("OT", e)
      BY <1>4, <2>3, AfterFailed, AtRest DEF Natural
    <2> QED
      BY <1>4, <2>2, <2>4 DEF RmpStands, RmpIs, Forward, GoingIn
  <1> QED
    BY <1>2, <1>3, <1>4

LEMMA AccFailed ==
  ASSUME TypeOK, NEW a \in Acceptors, AccStands(a), Natural(a), Alive', NEW t \in IoTasks,
         ToldFailed(t, a), \A u \in IoTasks \ {t} : Rests(u, a),
         AccRow(a, "INTERNAL_ERR"), UNCHANGED rmpVars
  PROVE  AccStands(a)'
  <1> DEFINE k == listener[a]
  <1>0. /\ CacheTypes /\ accState[a] \in AccStates /\ k \in Socks /\ "INTERNAL_ERR" \in Pendings
    BY DEF TypeOK, EpollTypeOK, CacheTypes, Counts, AccTypeOK, Pendings, Socks, AccStates
  <1>1. Telling(t, a) /\ phase[t] = "addfailed" /\ (t = "OT" \/ t = "IT")
    BY DEF ToldFailed
  <1>2. t = "IT" /\ accState[a] = "ADDING_INTO_IT" /\ Failed("IT", a)
    BY <1>0, <1>1, WhoIsTold DEF AccStands, GoingIn, GoingOut, AccStates
  <1>3. AccEffect(a, "ADDING_INTO_IT", "INTERNAL_ERR", k, "none", "none")
    BY <1>2 DEF AccRow, AccRows, Alive
  <1>4. AccIs(a, "ADDING_INTO_IT", "INTERNAL_ERR", k) /\ Counting(a, "none", "none")
    BY <1>0, <1>2, <1>3, AccEffectIs
  <1>5. Counted("OT", a, 0, 0) /\ Counted("IT", a, 0, 0) /\ Rests("OT", a)
    BY <1>2, <1>4 DEF Counting, One
  <1>6. Unadded("IT", a, 0)' /\ Forward("OT", a)
    BY <1>2, <1>5, AfterFailed, AtRest DEF Natural
  <1> QED
    BY <1>2, <1>4, <1>6 DEF AccStands, AccIs, Forward, GoingIn

LEMMA RmpAdded ==
  ASSUME TypeOK, NEW e \in RmpEps, RmpStands(e), Natural(e), Alive', NEW t \in IoTasks,
         ToldAdded(t, e), \A u \in IoTasks \ {t} : Rests(u, e),
         RmpRow(e, IF t = "OT" THEN "ADDED_INTO_OT" ELSE "ADDED_INTO_IT"), UNCHANGED accVars
  PROVE  RmpStands(e)'
  <1> DEFINE p == rmpPending[e]
             k == rmpSock[e]
  <1>0. /\ CacheTypes /\ rmpState[e] \in RmpStates /\ p \in Pendings /\ k \in Socks
    BY DEF TypeOK, EpollTypeOK, CacheTypes, Counts, RmpTypeOK, Pendings, Socks
  <1>1. Telling(t, e) /\ phase[t] = "added" /\ (t = "OT" \/ t = "IT")
    BY DEF ToldAdded
  <1>2. \/ t = "OT" /\ rmpState[e] = "CLOSED" /\ Unadded("OT", e, 0)
        \/ t = "OT" /\ rmpState[e] = "ADDING_INTO_OT"
        \/ t = "IT" /\ rmpState[e] = "ADDING_INTO_IT"
    BY <1>0, <1>1, WhoIsTold DEF RmpStands, GoingOut, RmpStates
  <1>3. ASSUME NEW to \in RmpStates, NEW q \in Pendings, NEW j \in Socks,
               NEW at \in Tasks \cup {"none"}, NEW dt \in Tasks \cup {"none"},
               RmpEffect(e, to, q, j, at, dt)
        PROVE  /\ RmpIs(e, to, q, j)
               /\ Counted("OT", e, One("OT", at), One("OT", dt))
               /\ Counted("IT", e, One("IT", at), One("IT", dt))
    BY <1>0, <1>3, RmpEffectIs DEF Counting
  <1>4. CASE t = "OT" /\ rmpState[e] = "CLOSED" /\ Unadded("OT", e, 0)
    <2>1. RmpEffect(e, "CLOSED", p, k, "none", "none")
      BY <1>4 DEF RmpRow, RmpRows, Alive
    <2>2. RmpIs(e, "CLOSED", p, k) /\ Counted("OT", e, 0, 0) /\ Counted("IT", e, 0, 0)
      BY <1>0, <1>3, <1>4, <2>1 DEF One
    <2>3. Out("OT", e)' /\ Forward("IT", e)
      BY <1>4, <2>2, AfterAdded, AtRest DEF Natural
    <2> QED
      BY <1>4, <2>2, <2>3 DEF RmpStands, RmpIs, Forward
  <1>5. CASE t = "OT" /\ rmpState[e] = "ADDING_INTO_OT"
    <2>1. /\ Out("IT", e) /\ Rests("IT", e)
          /\ \/ Added("OT", e) /\ k = "open"
             \/ Unadded("OT", e, 1) /\ p # "NONE"
      BY <1>1, <1>5, WhoIsTold DEF RmpStands
    <2>2. CASE p = "CLOSE" /\ RmpEffect(e, "DELING_FROM_OT", p, "closed", "none", "OT")
      <3>1. RmpIs(e, "DELING_FROM_OT", p, "closed") /\ Counted("OT", e, 0, 1) /\ Counted("IT", e, 0, 0)
        BY <1>0, <1>3, <2>2 DEF One, RmpStates, Socks, Tasks
      <3>2. Leaving("OT", e)' \/ Doomed("OT", e)'
        BY <1>5, <2>1, <3>1, AfterAdded DEF Natural
      <3>3. Out("IT", e)'
        BY <2>1, <3>1, AtRest DEF Natural, Forward
      <3> QED
        BY <3>1, <3>2, <3>3 DEF RmpStands, RmpIs, GoingOut
    <2>3. CASE p = "NONE" /\ RmpEffect(e, "ADDING_INTO_IT", p, k, "IT", "none")
      <3>1. RmpIs(e, "ADDING_INTO_IT", p, k) /\ Counted("OT", e, 0, 0) /\ Counted("IT", e, 1, 0)
        BY <1>0, <1>3, <2>3 DEF One, RmpStates, Tasks
      <3>2. In("OT", e)' /\ Queued("IT", e)'
        BY <1>5, <2>1, <2>3, <3>1, AfterAdded, PutAtRest DEF Natural
      <3> QED
        BY <2>1, <2>3, <3>1, <3>2 DEF RmpStands, RmpIs, GoingIn
    <2> QED
      BY <1>5, <2>2, <2>3 DEF RmpRow, RmpRows, Alive
  <1>6. CASE t = "IT" /\ rmpState[e] = "ADDING_INTO_IT"
    <2>1. /\ k = "open" /\ In("OT", e) /\ Rests("OT", e)
          /\ Added("IT", e) \/ (Unadded("IT", e, 0) /\ p # "NONE")
      BY <1>1, <1>6, WhoIsTold DEF RmpStands, GoingIn
    <2>2. CASE RmpEffect(e, "DELING_FROM_IT", p, "closed", "none", "IT")
      <3>1. RmpIs(e, "DELING_FROM_IT", p, "closed") /\ Counted("OT", e, 0, 0) /\ Counted("IT", e, 0, 1)
        BY <1>0, <1>3, <2>2 DEF One, RmpStates, Socks, Tasks
      <3>2. Leaving("IT", e)'
        BY <1>6, <2>1, <3>1, AfterAdded DEF Natural
      <3>3. In("OT", e)'
        BY <2>1, <3>1, AtRest DEF Natural, Forward
      <3> QED
        BY <3>1, <3>2, <3>3 DEF RmpStands, RmpIs, GoingOut
    <2>3. ASSUME NEW q \in {"NONE", "CLOSE"}, p = "NONE", RmpEffect(e, "OPENED", q, k, "none", "none")
          PROVE  RmpStands(e)'
      <3>1. RmpIs(e, "OPENED", q, k) /\ Counted("OT", e, 0, 0) /\ Counted("IT", e, 0, 0)
        BY <1>0, <1>3, <2>3 DEF One, RmpStates, Pendings
      <3>2. In("IT", e)'
        BY <1>6, <2>1, <2>3, <3>1, AfterAdded DEF Natural
      <3>3. In("OT", e)'
        BY <2>1, <3>1, AtRest DEF Natural, Forward
      <3> QED
        BY <2>1, <3>1, <3>2, <3>3 DEF RmpStands, RmpIs
    <2> QED
      BY <1>6, <2>2, <2>3 DEF RmpRow, RmpRows, Alive
  <1> QED
    BY <1>2, <1>4, <1>5, <1>6

LEMMA AccAdded ==
  ASSUME TypeOK, NEW a \in Acceptors, AccStands(a), Natural(a), Alive', NEW t \in IoTasks,
         ToldAdded(t, a), \A u \in IoTasks \ {t} : Rests(u, a),
         AccRow(a, IF t = "OT" THEN "ADDED_INTO_OT" ELSE "ADDED_INTO_IT"), UNCHANGED rmpVars
  PROVE  AccStands(a)'
  <1> DEFINE p == accPending[a]
             k == listener[a]
  <1>0. CacheTypes /\ accState[a] \in AccStates /\ p \in Pendings /\ k \in Socks
    BY DEF TypeOK, EpollTypeOK, CacheTypes, Counts, AccTypeOK, Pendings, Socks, AccStates
  <1>1. Telling(t, a) /\ phase[t] = "added" /\ (t = "OT" \/ t = "IT")
    BY DEF ToldAdded
  <1>2. /\ t = "IT" /\ accState[a] = "ADDING_INTO_IT" /\ k = "open" /\ Out("OT", a)
        /\ Added("IT", a) \/ (Unadded("IT", a, 0) /\ p # "NONE")
    BY <1>0, <1>1, WhoIsTold DEF AccStands, GoingIn, GoingOut, AccStates
  <1>3. ASSUME NEW to \in AccStates, NEW q \in Pendings, NEW j \in Socks,
               NEW dt \in Tasks \cup {"none"}, AccEffect(a, to, q, j, "none", dt)
        PROVE  /\ AccIs(a, to, q, j)
               /\ Counted("OT", a, 0, One("OT", dt)) /\ Counted("IT", a, 0, One("IT", dt))
    BY <1>0, <1>3, AccEffectIs DEF Counting, One
  <1>4. ASSUME Counted("OT", a, 0, 0) PROVE Out("OT", a)'
    <2>1. Rests("OT", a)
      BY <1>2
    <2> QED
      BY <1>2, <1>4, <2>1, AtRest DEF Natural, Forward
  <1>5. CASE AccEffect(a, "DELING_FROM_IT", p, "closed", "none", "IT")
    <2>1. AccIs(a, "DELING_FROM_IT", p, "closed") /\ Counted("OT", a, 0, 0) /\ Counted("IT", a, 0, 1)
      BY <1>0, <1>3, <1>5 DEF One, AccStates, Socks, Tasks
    <2>2. Leaving("IT", a)'
      BY <1>2, <2>1, AfterAdded DEF Natural
    <2> QED
      BY <1>4, <2>1, <2>2 DEF AccStands, AccIs, GoingOut
  <1>6. CASE p = "NONE" /\ AccEffect(a, "OPENED", p, k, "none", "none")
    <2>1. AccIs(a, "OPENED", p, k) /\ Counted("OT", a, 0, 0) /\ Counted("IT", a, 0, 0)
      BY <1>0, <1>3, <1>6 DEF One, AccStates
    <2>2. In("IT", a)'
      BY <1>2, <1>6, <2>1, AfterAdded DEF Natural
    <2> QED
      BY <1>2, <1>4, <2>1, <2>2 DEF AccStands, AccIs
  <1> QED
    BY <1>2, <1>5, <1>6 DEF AccRow, AccRows, Alive

LEMMA RmpDeled ==
  ASSUME TypeOK, NEW e \in RmpEps, RmpStands(e), Natural(e), Alive', NEW t \in IoTasks,
         ToldDeled(t, e), \A u \in IoTasks \ {t} : Rests(u, e),
         RmpRow(e, IF t = "OT" THEN "DELED_FROM_OT" ELSE "DELED_FROM_IT"), UNCHANGED accVars
  PROVE  RmpStands(e)'
  <1> DEFINE p == rmpPending[e]
             k == rmpSock[e]
  <1>0. CacheTypes /\ rmpState[e] \in RmpStates /\ p \in Pendings /\ k \in Socks
    BY DEF TypeOK, EpollTypeOK, CacheTypes, Counts, RmpTypeOK, Pendings, Socks
  <1>1. Telling(t, e) /\ phase[t] = "deled" /\ (t = "OT" \/ t = "IT")
    BY DEF ToldDeled
  <1>2. \/ t = "OT" /\ rmpState[e] = "DELING_FROM_OT" /\ Deled("OT", e) /\ Out("IT", e)
        \/ t = "IT" /\ rmpState[e] = "DELING_FROM_IT" /\ Deled("IT", e) /\ In("OT", e)
    BY <1>0, <1>1, WhoIsTold DEF RmpStands, GoingIn, GoingOut, RmpStates
  <1>3. ASSUME NEW to \in RmpStates, NEW j \in Socks,
               NEW at \in Tasks \cup {"none"}, NEW dt \in Tasks \cup {"none"},
               RmpEffect(e, to, p, j, at, dt)
        PROVE  /\ RmpIs(e, to, p, j)
               /\ Counted("OT", e, One("OT", at), One("OT", dt))
               /\ Counted("IT", e, One("IT", at), One("IT", dt))
    BY <1>0, <1>3, RmpEffectIs DEF Counting
  <1>4. CASE t = "OT" /\ rmpState[e] = "DELING_FROM_OT" /\ Deled("OT", e) /\ Out("IT", e)
    <2>1. ASSUME Counted("IT", e, 0, 0) PROVE Out("IT", e)'
      <3>1. Rests("IT", e)
        BY <1>4
      <3> QED
        BY <1>4, <2>1, <3>1, AtRest DEF Natural, Forward
    <2>2. CASE RmpEffect(e, "CLOSED", p, "NULL", "none", "none")
      <3>1. RmpIs(e, "CLOSED", p, "NULL") /\ Counted("OT", e, 0, 0) /\ Counted("IT", e, 0, 0)
        BY <1>0, <1>3, <2>2 DEF One, RmpStates, Socks
      <3>2. Out("OT", e)'
        BY <1>4, <3>1, AfterDeled DEF Natural
      <3> QED
        BY <2>1, <3>1, <3>2 DEF RmpStands, RmpIs
    <2>3. CASE RmpEffect(e, "ADDING_INTO_OT", p, "NULL", "OT", "none")
      <3>1. RmpIs(e, "ADDING_INTO_OT", p, "NULL") /\ Counted("OT", e, 1, 0) /\ Counted("IT", e, 0, 0)
        BY <1>0, <1>3, <2>3 DEF One, RmpStates, Socks, Tasks
      <3>2. Queued("OT", e)'
        BY <1>4, <3>1, AfterDeled DEF Natural
      <3> QED
        BY <2>1, <3>1, <3>2 DEF RmpStands, RmpIs
    <2> QED
      BY <1>4, <2>2, <2>3 DEF RmpRow, RmpRows, Alive
  <1>5. CASE t = "IT" /\ rmpState[e] = "DELING_FROM_IT" /\ Deled("IT", e) /\ In("OT", e)
    <2>1. RmpEffect(e, "DELING_FROM_OT", p, k, "none", "OT")
      BY <1>5 DEF RmpRow, RmpRows, Alive
    <2>2. RmpIs(e, "DELING_FROM_OT", p, k) /\ Counted("OT", e, 0, 1) /\ Counted("IT", e, 0, 0)
      BY <1>0, <1>3, <2>1 DEF One, RmpStates, Tasks
    <2>3. Rests("OT", e)
      BY <1>5
    <2>4. Leaving("OT", e)' /\ Out("IT", e)'
      BY <1>5, <2>2, <2>3, PutAtRest, AfterDeled DEF Natural
    <2> QED
      BY <2>2, <2>4 DEF RmpStands, RmpIs, GoingOut
  <1> QED
    BY <1>2, <1>4, <1>5

LEMMA AccDeled ==
  ASSUME TypeOK, NEW a \in Acceptors, AccStands(a), Natural(a), Alive', NEW t \in IoTasks,
         ToldDeled(t, a), \A u \in IoTasks \ {t} : Rests(u, a),
         AccRow(a, IF t = "OT" THEN "DELED_FROM_OT" ELSE "DELED_FROM_IT"), UNCHANGED rmpVars
  PROVE  AccStands(a)'
  <1> DEFINE p == accPending[a]
             k == listener[a]
  <1>0. /\ CacheTypes /\ accState[a] \in AccStates /\ p \in Pendings /\ k \in Socks
        /\ "CLOSED" \in AccStates
    BY DEF TypeOK, EpollTypeOK, CacheTypes, Counts, AccTypeOK, Pendings, Socks, AccStates
  <1>1. Telling(t, a) /\ phase[t] = "deled" /\ (t = "OT" \/ t = "IT")
    BY DEF ToldDeled
  <1>2. t = "IT" /\ accState[a] = "DELING_FROM_IT" /\ Deled("IT", a) /\ Out("OT", a)
    BY <1>0, <1>1, WhoIsTold DEF AccStands, GoingIn, GoingOut, AccStates
  <1>3. AccEffect(a, "CLOSED", p, k, "none", "none")
    BY <1>2 DEF AccRow, AccRows, Alive
  <1>4. AccIs(a, "CLOSED", p, k) /\ Counting(a, "none", "none")
    BY <1>0, <1>3, AccEffectIs
  <1>5. Counted("OT", a, 0, 0) /\ Counted("IT", a, 0, 0) /\ Rests("OT", a)
    BY <1>2, <1>4 DEF Counting, One
  <1>6. Out("IT", a)'
    BY <1>2, <1>5, AfterDeled DEF Natural
  <1>7. Out("OT", a)'
    BY <1>2, <1>5, AtRest DEF Natural, Forward
  <1> QED
    BY <1>4, <1>6, <1>7 DEF AccStands, AccIs

-----------------------------------------------------------------------------
(* What an event leaves alone, whatever the event and the object.          *)

Posted(o) ==
  /\ RmpTypeOK' /\ AccTypeOK' /\ CacheTypes'
  /\ \A u \in IoTasks : armed'[u] \subseteq armed[u]
  /\ OthersKept(o)

LEMMA RmpRowIs ==
  ASSUME TypeOK, NEW e \in RmpEps, NEW evt, RmpRow(e, evt), UNCHANGED accVars
  PROVE  Posted(e)
  <1> DEFINE s == rmpState[e]
             p == rmpPending[e]
             k == rmpSock[e]
  <1>0. /\ CacheTypes /\ s \in RmpStates /\ p \in Pendings /\ k \in Socks
        /\ evt \in {"CLOSE", "INTERNAL_ERR"} => evt \in Pendings
    BY DEF TypeOK, EpollTypeOK, CacheTypes, Counts, RmpTypeOK, Pendings, Socks
  <1>1. ASSUME NEW to \in RmpStates, NEW q \in Pendings, NEW j \in Socks,
               NEW at \in Tasks \cup {"none"}, NEW dt \in Tasks \cup {"none"},
               RmpEffect(e, to, q, j, at, dt)
        PROVE  Posted(e)
    BY <1>0, <1>1, RmpEffectIs DEF Posted
  <1>2. CASE \/ RmpEffect(e, s, p, k, "none", "none")
             \/ RmpEffect(e, s, p, "NULL", "none", "none")
             \/ RmpEffect(e, "ADDING_INTO_OT", p, "open", "OT", "none")
    BY <1>0, <1>1, <1>2 DEF RmpStates, Socks, Tasks
  <1>3. CASE evt \in {"CLOSE", "INTERNAL_ERR"} /\ RmpEffect(e, s, evt, k, "none", "none")
    BY <1>0, <1>1, <1>3
  <1>4. ASSUME NEW to \in {"DELING_FROM_OT", "DELING_FROM_IT"}, NEW dt \in Tasks,
               RmpEffect(e, to, p, "closed", "none", dt)
        PROVE  Posted(e)
    <2>1. to \in RmpStates /\ "closed" \in Socks
      BY DEF RmpStates, Socks
    <2> QED
      BY <1>0, <1>1, <1>4, <2>1
  <1>5. ASSUME NEW q \in {"NONE", "CLOSE"}, RmpEffect(e, "OPENED", q, k, "none", "none")
        PROVE  Posted(e)
    <2>1. "OPENED" \in RmpStates /\ q \in Pendings
      BY DEF RmpStates, Pendings
    <2> QED
      BY <1>0, <1>1, <1>5, <2>1
  <1>6. CASE \/ RmpEffect(e, "CLOSED", "INTERNAL_ERR", k, "none", "none")
             \/ RmpEffect(e, "ADDING_INTO_IT", p, k, "IT", "none")
             \/ RmpEffect(e, "DELING_FROM_OT", p, k, "none", "OT")
    BY <1>0, <1>1, <1>6 DEF RmpStates, Pendings, Tasks
  <1>7. CASE \/ RmpEffect(e, "CLOSED", p, "NULL", "none", "none")
             \/ RmpEffect(e, "ADDING_INTO_OT", p, "NULL", "OT", "none")
    BY <1>0, <1>1, <1>7 DEF RmpStates, Socks, Tasks
  <1> QED
    BY <1>2, <1>3, <1>4, <1>5, <1>6, <1>7 DEF RmpRow, Tasks

LEMMA AccRowIs ==
  ASSUME TypeOK, NEW a \in Acceptors, NEW evt, AccRow(a, evt), UNCHANGED rmpVars
  PROVE  Posted(a)
  <1> DEFINE s == accState[a]
             p == accPending[a]
             k == listener[a]
  <1>0. /\ CacheTypes /\ s \in AccStates /\ p \in Pendings /\ k \in Socks
        /\ evt \in {"CLOSE", "INTERNAL_ERR"} => evt \in Pendings
    BY DEF TypeOK, EpollTypeOK, CacheTypes, Counts, AccTypeOK, AccStates, Pendings, Socks
  <1>1. ASSUME NEW to \in AccStates, NEW q \in Pendings, NEW j \in Socks,
               NEW at \in Tasks \cup {"none"}, NEW dt \in Tasks \cup {"none"},
               AccEffect(a, to, q, j, at, dt)
        PROVE  Posted(a)
    BY <1>0, <1>1, AccEffectIs DEF Posted
  <1>2. ASSUME NEW q \in {"open", "closed"}, AccEffect(a, s, "NONE", q, "none", "none")
        PROVE  Posted(a)
    <2>1. "NONE" \in Pendings /\ q \in Socks
      BY DEF Pendings, Socks
    <2> QED
      BY <1>0, <1>1, <1>2, <2>1
  <1>3. CASE AccEffect(a, "ADDING_INTO_IT", "NONE", "open", "IT", "none")
    BY <1>1, <1>3 DEF AccStates, Pendings, Socks, Tasks
  <1>4. CASE evt \in {"CLOSE", "INTERNAL_ERR"} /\ AccEffect(a, s, evt, k, "none", "none")
    BY <1>0, <1>1, <1>4
  <1>5. CASE AccEffect(a, "DELING_FROM_IT", p, "closed", "none", "IT")
    BY <1>0, <1>1, <1>5 DEF AccStates, Socks, Tasks
  <1>6. ASSUME NEW to \in {s, "OPENED", "CLOSED"}, AccEffect(a, to, p, k, "none", "none")
        PROVE  Posted(a)
    <2>1. to \in AccStates
      BY <1>0 DEF AccStates
    <2> QED
      BY <1>0, <1>1, <1>6, <2>1
  <1> QED
    BY <1>2, <1>3, <1>4, <1>5, <1>6 DEF AccRow

TaskTypes ==
  /\ setIoObjs \in [IoTasks -> SUBSET IoObjs]
  /\ vecTmp    \in [IoTasks -> [IoObjs -> Nat]]
  /\ arrEvts   \in [IoTasks -> SUBSET IoObjs]
  /\ phase     \in [IoTasks -> Phases]
  /\ cur       \in [IoTasks -> IoObjs \cup {NoObj}]

LEMMA EpollTypes ==
  EpollTypeOK <=> CacheTypes /\ TaskTypes
  BY DEF EpollTypeOK, CacheTypes, TaskTypes, Counts

LEMMA AllNatural ==
  ASSUME CacheTypes, NEW o \in IoObjs
  PROVE  Natural(o)
  BY DEF CacheTypes, Counts, Natural

(* Once the object an event is for stands where it may, everything does.   *)
LEMMA PostKeeps ==
  ASSUME IInv, Alive, NEW o \in IoObjs, NEW evt, Row(o, evt), TaskTypes',
         \A u \in IoTasks : \A q \in IoObjs \ {o} : Rests(u, q),
         \A u \in IoTasks : armed'[u] \subseteq armed[u] => TaskHolds(u)',
         Alive' /\ o \in RmpEps /\ RmpRow(o, evt) /\ UNCHANGED accVars => RmpStands(o)',
         Alive' /\ o \in Acceptors /\ AccRow(o, evt) /\ UNCHANGED rmpVars => AccStands(o)'
  PROVE  IInv'
  <1>0. TypeOK /\ Holds
    BY DEF IInv
  <1>1. /\ RmpTypeOK' /\ AccTypeOK' /\ CacheTypes'
        /\ \A u \in IoTasks : armed'[u] \subseteq armed[u]
        /\ OthersKept(o)
    BY <1>0, RmpRowIs, AccRowIs DEF Row, Posted
  <1>2. TypeOK'
    BY <1>1 DEF TypeOK, EpollTypeOK, CacheTypes, TaskTypes, Counts
  <1>3. ASSUME NEW q \in IoObjs \ {o} PROVE Forward("OT", q) /\ Forward("IT", q)
    <2>1. Natural(q)
      BY <1>0, EpollTypes, AllNatural DEF TypeOK
    <2>2. /\ Counted("OT", q, 0, 0) /\ Counted("IT", q, 0, 0)
          /\ Rests("OT", q) /\ Rests("IT", q)
      BY <1>1, <1>3 DEF OthersKept
    <2> QED
      BY <2>1, <2>2, AtRest DEF Natural
  <1>4. ASSUME Alive', NEW e \in RmpEps PROVE RmpStands(e)'
    <2>1. CASE e = o
      BY <1>4, <2>1 DEF Row
    <2>2. CASE e # o
      <3>1. RmpStands(e) /\ RmpKept(e) /\ e \in IoObjs \ {o}
        BY <1>0, <1>1, <2>2 DEF Holds, OthersKept
      <3> QED
        BY <3>1, <1>3, RmpForward
    <2> QED
      BY <2>1, <2>2
  <1>5. ASSUME Alive', NEW a \in Acceptors PROVE AccStands(a)'
    <2>1. CASE a = o
      BY <1>5, <2>1 DEF Row
    <2>2. CASE a # o
      <3>1. AccStands(a) /\ AccKept(a) /\ a \in IoObjs \ {o}
        BY <1>0, <1>1, <2>2 DEF Holds, OthersKept
      <3> QED
        BY <3>1, <1>3, AccForward
    <2> QED
      BY <2>1, <2>2
  <1> QED
    BY <1>1, <1>2, <1>4, <1>5 DEF IInv, Holds

-----------------------------------------------------------------------------
(* The steps that post an event.                                           *)

(* Only task t's own variables change, of them only phase, cur and arrEvts, *)
(* and phase stays in the same loop.                                       *)
Advances(t, p, c, evts) ==
  /\ GoTo(t, p, c)
  /\ UNCHANGED <<setIoObjs, vecTmp>>
  /\ arrEvts' = [arrEvts EXCEPT ![t] = evts]
  /\ (p \in {"dels", "deled"} <=> Deleting(t))
  /\ Adding(t) => p \in {"adds", "addfailed", "added"}

LEMMA OthersRest ==
  ASSUME TaskTypes, NEW t \in IoTasks, NEW p \in Phases, NEW c \in IoObjs \cup {NoObj},
         NEW evts \in SUBSET IoObjs, Advances(t, p, c, evts)
  PROVE  /\ TaskTypes'
         /\ \A u \in IoTasks \ {t}, q \in IoObjs : Rests(u, q)
         /\ \A u \in IoTasks \ {t} : TaskHolds(u) /\ armed'[u] \subseteq armed[u] => TaskHolds(u)'
         /\ phase'[t] = p /\ cur'[t] = c /\ arrEvts'[t] = evts
         /\ setIoObjs'[t] = setIoObjs[t] /\ vecTmp'[t] = vecTmp[t]
  <1>1. /\ phase'[t] = p /\ cur'[t] = c /\ arrEvts'[t] = evts
        /\ setIoObjs'[t] = setIoObjs[t] /\ vecTmp'[t] = vecTmp[t]
    BY DEF Advances, GoTo, TaskTypes
  <1>2. \A u \in IoTasks \ {t} :
          /\ phase'[u] = phase[u] /\ cur'[u] = cur[u] /\ arrEvts'[u] = arrEvts[u]
          /\ setIoObjs'[u] = setIoObjs[u] /\ vecTmp'[u] = vecTmp[u]
    BY DEF Advances, GoTo, TaskTypes
  <1>3. TaskTypes'
    BY DEF Advances, GoTo, TaskTypes
  <1>4. \A u \in IoTasks \ {t}, q \in IoObjs : Rests(u, q)
    BY <1>2 DEF Rests, Has, Telling, Deleting, Adding
  <1>5. \A u \in IoTasks \ {t} : TaskHolds(u) /\ armed'[u] \subseteq armed[u] => TaskHolds(u)'
    BY <1>2 DEF TaskHolds
  <1> QED
    BY <1>1, <1>3, <1>4, <1>5

(* The same, of the task's own objects.                                    *)
LEMMA OwnRest ==
  ASSUME TaskTypes, NEW t \in IoTasks, NEW p \in Phases, NEW c \in IoObjs \cup {NoObj},
         NEW evts \in SUBSET IoObjs, Advances(t, p, c, evts),
         NEW q \in IoObjs, q # cur[t], q # c \/ p = "io"
  PROVE  Rests(t, q)
  <1>1. /\ phase'[t] = p /\ cur'[t] = c
        /\ setIoObjs'[t] = setIoObjs[t] /\ vecTmp'[t] = vecTmp[t]
    BY OthersRest
  <1>2. ~ Telling(t, q) /\ ~ Telling(t, q)'
    BY <1>1 DEF Telling
  <1> QED
    BY <1>1, <1>2 DEF Rests, Has, Deleting, Adding, Advances

LEMMA UserStep ==
  ASSUME IInv, Alive, NEW o \in IoObjs, Open(o) \/ Close(o)
  PROVE  IInv'
  <1>0. TypeOK /\ Holds /\ TaskTypes /\ Natural(o)
    BY EpollTypes, AllNatural DEF IInv, TypeOK
  <1>1. PICK evt \in {"OPEN", "CLOSE"} : PostEvt(o, evt)
    BY DEF Open, Close
  <1>2. Row(o, evt)
    BY <1>0, <1>1, PostsRow
  <1>3. UNCHANGED <<setIoObjs, vecTmp, arrEvts, phase, cur>>
    BY DEF Open, Close, taskVars
  <1>4. \A u \in IoTasks, q \in IoObjs : Rests(u, q)
    BY <1>3 DEF Rests, Has, Telling, Deleting, Adding
  <1>5. TaskTypes' /\ \A u \in IoTasks : armed'[u] \subseteq armed[u] => TaskHolds(u)'
    BY <1>0, <1>3 DEF TaskTypes, TaskHolds, Holds
  <1>6. Rests("OT", o) /\ Rests("IT", o)
    BY <1>4
  <1>7. Alive' /\ o \in RmpEps /\ RmpRow(o, evt) /\ UNCHANGED accVars => RmpStands(o)'
    BY <1>0, <1>6, RmpQuiet DEF Holds
  <1>8. Alive' /\ o \in Acceptors /\ AccRow(o, evt) /\ UNCHANGED rmpVars => AccStands(o)'
    BY <1>0, <1>6, AccQuiet DEF Holds
  <1> QED
    BY <1>2, <1>4, <1>5, <1>7, <1>8, PostKeeps

LEMMA AddFailedStep ==
  ASSUME IInv, Alive, NEW t \in IoTasks, HandleAddFailed(t)
  PROVE  IInv'
  <1>0. TypeOK /\ Holds /\ TaskTypes
    BY EpollTypes DEF IInv, TypeOK
  <1>1. PICK o \in IoObjs : o = cur[t]
    BY <1>0 DEF HandleAddFailed, NotifyAddFailed, Holds, TaskHolds
  <1>2. Row(o, "INTERNAL_ERR")
    BY <1>0, <1>1, PostsRow DEF HandleAddFailed
  <1>3. Advances(t, "added", o, arrEvts[t]) /\ phase[t] = "addfailed"
    BY <1>0, <1>1 DEF HandleAddFailed, NotifyAddFailed, Advances, TaskTypes, Deleting
  <1>4. "added" \in Phases /\ arrEvts[t] \in SUBSET IoObjs
    BY <1>0 DEF Phases, TaskTypes
  <1>5. /\ TaskTypes'
        /\ \A u \in IoTasks \ {t}, q \in IoObjs : Rests(u, q)
        /\ \A u \in IoTasks \ {t} : TaskHolds(u) /\ armed'[u] \subseteq armed[u] => TaskHolds(u)'
        /\ phase'[t] = "added" /\ cur'[t] = o /\ arrEvts'[t] = arrEvts[t]
        /\ setIoObjs'[t] = setIoObjs[t] /\ vecTmp'[t] = vecTmp[t]
    BY <1>0, <1>3, <1>4, OthersRest
  <1>6. \A q \in IoObjs \ {o} : Rests(t, q)
    BY <1>0, <1>1, <1>3, <1>4, OwnRest
  <1>7. ToldFailed(t, o)
    BY <1>1, <1>3, <1>5 DEF ToldFailed, Telling, Has
  <1>8. armed'[t] \subseteq armed[t] => TaskHolds(t)'
    BY <1>0, <1>3, <1>5 DEF TaskHolds, Holds
  <1>9. Natural(o)
    BY <1>0, EpollTypes, AllNatural DEF TypeOK
  <1>10. Alive' /\ o \in RmpEps /\ RmpRow(o, "INTERNAL_ERR") /\ UNCHANGED accVars => RmpStands(o)'
    BY <1>0, <1>5, <1>7, <1>9, RmpFailed DEF Holds
  <1>11. Alive' /\ o \in Acceptors /\ AccRow(o, "INTERNAL_ERR") /\ UNCHANGED rmpVars => AccStands(o)'
    BY <1>0, <1>5, <1>7, <1>9, AccFailed DEF Holds
  <1>12. \A u \in IoTasks : \A q \in IoObjs \ {o} : Rests(u, q)
    BY <1>5, <1>6
  <1>13. \A u \in IoTasks : armed'[u] \subseteq armed[u] => TaskHolds(u)'
    BY <1>0, <1>5, <1>8 DEF Holds
  <1> QED
    BY <1>2, <1>5, <1>10, <1>11, <1>12, <1>13, PostKeeps

LEMMA AddedStep ==
  ASSUME IInv, Alive, NEW t \in IoTasks, HandleAddedIntoIoTask(t)
  PROVE  IInv'
  <1> DEFINE evt == IF t = "OT" THEN "ADDED_INTO_OT" ELSE "ADDED_INTO_IT"
  <1>0. TypeOK /\ Holds /\ TaskTypes
    BY EpollTypes DEF IInv, TypeOK
  <1>1. PICK o \in IoObjs : o = cur[t]
    BY <1>0 DEF HandleAddedIntoIoTask, NotifyAdded, Holds, TaskHolds
  <1>2. Row(o, evt)
    BY <1>0, <1>1, PostsRow DEF HandleAddedIntoIoTask
  <1>3. Advances(t, "adds", NoObj, arrEvts[t]) /\ phase[t] = "added"
    BY <1>0, <1>1 DEF HandleAddedIntoIoTask, NotifyAdded, Advances, TaskTypes, Deleting
  <1>4. "adds" \in Phases /\ arrEvts[t] \in SUBSET IoObjs
    BY <1>0 DEF Phases, TaskTypes
  <1>5. /\ TaskTypes'
        /\ \A u \in IoTasks \ {t}, q \in IoObjs : Rests(u, q)
        /\ \A u \in IoTasks \ {t} : TaskHolds(u) /\ armed'[u] \subseteq armed[u] => TaskHolds(u)'
        /\ phase'[t] = "adds" /\ cur'[t] = NoObj /\ arrEvts'[t] = arrEvts[t]
        /\ setIoObjs'[t] = setIoObjs[t] /\ vecTmp'[t] = vecTmp[t]
    BY <1>0, <1>3, <1>4, OthersRest
  <1>6. \A q \in IoObjs \ {o} : Rests(t, q)
    BY <1>0, <1>1, <1>3, <1>4, OwnRest
  <1>7. ToldAdded(t, o)
    BY <1>1, <1>3, <1>5 DEF ToldAdded, Telling, Has
  <1>8. armed'[t] \subseteq armed[t] => TaskHolds(t)'
    BY <1>0, <1>3, <1>5 DEF TaskHolds, Holds
  <1>9. Natural(o)
    BY <1>0, EpollTypes, AllNatural DEF TypeOK
  <1>10. Alive' /\ o \in RmpEps /\ RmpRow(o, evt) /\ UNCHANGED accVars => RmpStands(o)'
    BY <1>0, <1>5, <1>7, <1>9, RmpAdded DEF Holds
  <1>11. Alive' /\ o \in Acceptors /\ AccRow(o, evt) /\ UNCHANGED rmpVars => AccStands(o)'
    BY <1>0, <1>5, <1>7, <1>9, AccAdded DEF Holds
  <1>12. \A u \in IoTasks : \A q \in IoObjs \ {o} : Rests(u, q)
    BY <1>5, <1>6
  <1>13. \A u \in IoTasks : armed'[u] \subseteq armed[u] => TaskHolds(u)'
    BY <1>0, <1>5, <1>8 DEF Holds
  <1> HIDE DEF evt
  <1> QED
    BY <1>2, <1>5, <1>10, <1>11, <1>12, <1>13, PostKeeps

LEMMA DeledStep ==
  ASSUME IInv, Alive, NEW t \in IoTasks, HandleDeledFromIoTask(t)
  PROVE  IInv'
  <1> DEFINE evt == IF t = "OT" THEN "DELED_FROM_OT" ELSE "DELED_FROM_IT"
  <1>0. TypeOK /\ Holds /\ TaskTypes
    BY EpollTypes DEF IInv, TypeOK
  <1>1. PICK o \in IoObjs : o = cur[t]
    BY <1>0 DEF HandleDeledFromIoTask, NotifyDeled, Holds, TaskHolds
  <1>2. Row(o, evt)
    BY <1>0, <1>1, PostsRow DEF HandleDeledFromIoTask
  <1>3. Advances(t, "dels", NoObj, arrEvts[t]) /\ phase[t] = "deled"
    BY <1>0, <1>1 DEF HandleDeledFromIoTask, NotifyDeled, Advances, TaskTypes, Deleting, Adding
  <1>4. "dels" \in Phases /\ arrEvts[t] \in SUBSET IoObjs
    BY <1>0 DEF Phases, TaskTypes
  <1>5. /\ TaskTypes'
        /\ \A u \in IoTasks \ {t}, q \in IoObjs : Rests(u, q)
        /\ \A u \in IoTasks \ {t} : TaskHolds(u) /\ armed'[u] \subseteq armed[u] => TaskHolds(u)'
        /\ phase'[t] = "dels" /\ cur'[t] = NoObj /\ arrEvts'[t] = arrEvts[t]
        /\ setIoObjs'[t] = setIoObjs[t] /\ vecTmp'[t] = vecTmp[t]
    BY <1>0, <1>3, <1>4, OthersRest
  <1>6. \A q \in IoObjs \ {o} : Rests(t, q)
    BY <1>0, <1>1, <1>3, <1>4, OwnRest
  <1>7. ToldDeled(t, o)
    BY <1>1, <1>3, <1>5 DEF ToldDeled, Telling, Has
  <1>8. armed'[t] \subseteq armed[t] => TaskHolds(t)'
    BY <1>0, <1>3, <1>5 DEF TaskHolds, Holds
  <1>9. Natural(o)
    BY <1>0, EpollTypes, AllNatural DEF TypeOK
  <1>10. Alive' /\ o \in RmpEps /\ RmpRow(o, evt) /\ UNCHANGED accVars => RmpStands(o)'
    BY <1>0, <1>5, <1>7, <1>9, RmpDeled DEF Holds
  <1>11. Alive' /\ o \in Acceptors /\ AccRow(o, evt) /\ UNCHANGED rmpVars => AccStands(o)'
    BY <1>0, <1>5, <1>7, <1>9, AccDeled DEF Holds
  <1>12. \A u \in IoTasks : \A q \in IoObjs \ {o} : Rests(u, q)
    BY <1>5, <1>6
  <1>13. \A u \in IoTasks : armed'[u] \subseteq armed[u] => TaskHolds(u)'
    BY <1>0, <1>5, <1>8 DEF Holds
  <1> HIDE DEF evt
  <1> QED
    BY <1>2, <1>5, <1>10, <1>11, <1>12, <1>13, PostKeeps

(* The task is past its additions and works on what epoll_wait gave it:    *)
(* every object it may still tell of an error is registered with it.       *)
LEMMA NotAddingIntoOt ==
  ASSUME Holds, NEW t \in IoTasks, NEW e \in RmpEps, Has(t, e), phase[t] \in {"events", "io"}
  PROVE  rmpState[e] # "ADDING_INTO_OT"
  BY WhoIsTold DEF Holds, RmpStands

LEMMA EventStep ==
  ASSUME IInv, Alive, NEW t \in IoTasks, NEW o \in IoObjs,
         phase[t] \in {"events", "io"}, Has(t, o),
         NEW p \in {"events", "io"}, NEW c \in IoObjs \cup {NoObj}, NEW evts \in SUBSET arrEvts[t],
         Advances(t, p, c, evts), p = "io" => c = o /\ o \in RmpEps, p = "events" => c = NoObj,
         NEW evt \in {"INTERNAL_ERR", "INPUT"}, Row(o, evt)
  PROVE  IInv'
  <1>0. TypeOK /\ Holds /\ TaskTypes
    BY EpollTypes DEF IInv, TypeOK
  <1>1. p \in Phases /\ evts \in SUBSET IoObjs
    BY <1>0 DEF Phases, TaskTypes
  <1>2. /\ TaskTypes'
        /\ \A u \in IoTasks \ {t}, q \in IoObjs : Rests(u, q)
        /\ \A u \in IoTasks \ {t} : TaskHolds(u) /\ armed'[u] \subseteq armed[u] => TaskHolds(u)'
        /\ phase'[t] = p /\ cur'[t] = c /\ arrEvts'[t] = evts
        /\ setIoObjs'[t] = setIoObjs[t] /\ vecTmp'[t] = vecTmp[t]
    BY <1>0, <1>1, OthersRest
  <1>3. \A q \in IoObjs : Rests(t, q)
    BY <1>0, <1>2 DEF Rests, Has, Telling, Deleting, Adding
  <1>4. armed'[t] \subseteq armed[t] => TaskHolds(t)'
    BY <1>0, <1>2 DEF TaskHolds, Holds, Has
  <1>5. \A u \in IoTasks : \A q \in IoObjs : Rests(u, q)
    BY <1>2, <1>3
  <1>6. \A u \in IoTasks : armed'[u] \subseteq armed[u] => TaskHolds(u)'
    BY <1>0, <1>2, <1>4 DEF Holds
  <1>7. Natural(o) /\ Rests("OT", o) /\ Rests("IT", o)
    BY <1>0, <1>5, EpollTypes, AllNatural DEF TypeOK
  <1>8. Alive' /\ o \in RmpEps /\ RmpRow(o, evt) /\ UNCHANGED accVars => RmpStands(o)'
    BY <1>0, <1>7, RmpQuiet, NotAddingIntoOt DEF Holds
  <1>9. Alive' /\ o \in Acceptors /\ AccRow(o, evt) /\ UNCHANGED rmpVars => AccStands(o)'
    BY <1>0, <1>7, AccQuiet DEF Holds
  <1> QED
    BY <1>2, <1>5, <1>6, <1>8, <1>9, PostKeeps

LEMMA IoStep ==
  ASSUME IInv, Alive, NEW t \in IoTasks,
         RmpIo(t) \/ \E o \in IoObjs : HandleIoError(t, o) \/ HandleIoEvt(t, o)
  PROVE  IInv'
  <1>0. TypeOK /\ Holds /\ TaskTypes
    BY EpollTypes DEF IInv, TypeOK
  <1>1. TaskHolds(t) /\ arrEvts[t] \in SUBSET IoObjs
    BY <1>0 DEF Holds, TaskTypes
  <1>2. ASSUME NEW o \in IoObjs, DispatchEvent(t, o)
        PROVE  /\ phase[t] = "events" /\ Has(t, o)
               /\ arrEvts[t] \ {o} \in SUBSET arrEvts[t]
               /\ \A p \in {"events", "io"} : \A c :
                    GoTo(t, p, c) => Advances(t, p, c, arrEvts[t] \ {o})
    BY <1>1, <1>2 DEF DispatchEvent, TaskHolds, Has, Advances, Deleting, Adding
  <1>3. ASSUME NEW o \in IoObjs, HandleIoError(t, o) PROVE IInv'
    <2>1. Row(o, "INTERNAL_ERR")
      BY <1>0, <1>3, PostsRow DEF HandleIoError
    <2>2. DispatchEvent(t, o) /\ GoTo(t, "events", NoObj)
      BY <1>3 DEF HandleIoError
    <2>3. /\ phase[t] = "events" /\ Has(t, o) /\ arrEvts[t] \ {o} \in SUBSET arrEvts[t]
          /\ Advances(t, "events", NoObj, arrEvts[t] \ {o})
      BY <1>2, <2>2
    <2> QED
      BY <2>1, <2>3, EventStep
  <1>4. ASSUME NEW e \in RmpEps, DispatchEvent(t, e), RmpHandlesIo(t, e), UNCHANGED accVars
        PROVE  IInv'
    <2>0. e \in IoObjs
      OBVIOUS
    <2>1. Row(e, "INPUT")
      BY <1>0, <1>4, RmpNoEvent DEF RmpHandlesIo, Row, TypeOK
    <2>2. PICK p \in {"events", "io"}, c \in IoObjs \cup {NoObj} :
             /\ GoTo(t, p, c) /\ (p = "io" => c = e) /\ (p = "events" => c = NoObj)
      BY <2>0, <1>4 DEF RmpHandlesIo
    <2>3. /\ phase[t] = "events" /\ Has(t, e) /\ arrEvts[t] \ {e} \in SUBSET arrEvts[t]
          /\ Advances(t, p, c, arrEvts[t] \ {e})
      BY <1>2, <1>4, <2>0, <2>2
    <2> QED
      BY <2>0, <2>1, <2>2, <2>3, EventStep
  <1>5. ASSUME NEW a \in Acceptors, DispatchEvent(t, a), AccHandlesInput(a),
               GoTo(t, "events", NoObj), UNCHANGED rmpVars
        PROVE  IInv'
    <2>0. a \in IoObjs
      OBVIOUS
    <2>1. Row(a, "INPUT")
      BY <1>0, <1>5, AccNoEvent DEF Row, TypeOK
    <2>2. /\ phase[t] = "events" /\ Has(t, a) /\ arrEvts[t] \ {a} \in SUBSET arrEvts[t]
          /\ Advances(t, "events", NoObj, arrEvts[t] \ {a})
      BY <1>2, <1>5, <2>0
    <2> QED
      BY <2>0, <2>1, <2>2, EventStep
  <1>6. CASE RmpIo(t)
    <2>1. PICK e \in RmpEps : e = cur[t] /\ e \in IoObjs /\ Has(t, e) /\ phase[t] = "io"
      BY <1>1, <1>6 DEF RmpIo, TaskHolds, Has
    <2>2. Row(e, "INPUT") \/ Row(e, "INTERNAL_ERR")
      BY <1>0, <1>6, <2>1, IoRow DEF RmpIo
    <2>3. Advances(t, "events", NoObj, arrEvts[t])
      BY <1>0, <1>6, <2>1 DEF RmpIo, Advances, TaskTypes, Deleting, Adding
    <2>4. arrEvts[t] \in SUBSET arrEvts[t]
      OBVIOUS
    <2> QED
      BY <2>1, <2>2, <2>3, <2>4, EventStep
  <1> QED
    BY <1>3, <1>4, <1>5, <1>6 DEF HandleIoEvt

-----------------------------------------------------------------------------
(* The steps of a task alone.                                              *)

(* Nothing of task u changes.                                              *)
Idle(u) ==
  /\ phase'[u] = phase[u] /\ cur'[u] = cur[u] /\ arrEvts'[u] = arrEvts[u]
  /\ setIoObjs'[u] = setIoObjs[u] /\ vecTmp'[u] = vecTmp[u] /\ armed'[u] = armed[u]
  /\ AddCache'[u] = AddCache[u] /\ DelCache'[u] = DelCache[u]

LEMMA IdleForward ==
  ASSUME CacheTypes, NEW u \in IoTasks, Idle(u)
  PROVE  /\ \A q \in IoObjs : Forward(u, q)
         /\ TaskHolds(u) => TaskHolds(u)'
  <1>1. TaskHolds(u) => TaskHolds(u)'
    BY DEF Idle, TaskHolds
  <1>2. ASSUME NEW q \in IoObjs PROVE Forward(u, q)
    <2>1. AddCache[u][q] \in Nat /\ DelCache[u][q] \in Nat
      BY DEF CacheTypes, Counts
    <2>2. Rests(u, q) /\ Counted(u, q, 0, 0)
      BY <2>1 DEF Idle, Rests, Has, Telling, Deleting, Adding, Counted
    <2> QED
      BY <2>1, <2>2, AtRest
  <1> QED
    BY <1>1, <1>2

LEMMA TaskKeeps ==
  ASSUME IInv, Alive, TaskOnly, CacheTypes', TaskTypes', NEW t \in IoTasks,
         \A u \in IoTasks \ {t} : Idle(u), TaskHolds(t)',
         Alive' => \A q \in IoObjs : Forward(t, q)
  PROVE  IInv'
  <1>0. TypeOK /\ Holds /\ CacheTypes
    BY EpollTypes DEF IInv, TypeOK
  <1>1. TypeOK'
    BY <1>0 DEF TypeOK, RmpTypeOK, AccTypeOK, EpollTypeOK, CacheTypes, TaskTypes, Counts,
                TaskOnly, rmpVars, accVars
  <1>2. \A u \in IoTasks \ {t} : (\A q \in IoObjs : Forward(u, q)) /\ TaskHolds(u)'
    BY <1>0, IdleForward DEF Holds
  <1>3. ASSUME Alive', NEW q \in IoObjs PROVE Forward("OT", q) /\ Forward("IT", q)
    BY <1>2, <1>3
  <1>4. /\ \A e \in RmpEps : RmpKept(e)
        /\ \A a \in Acceptors : AccKept(a)
    BY DEF TaskOnly, rmpVars, accVars, RmpKept, RmpIs, AccKept, AccIs
  <1>5. ASSUME Alive', NEW e \in RmpEps PROVE RmpStands(e)'
    BY <1>0, <1>3, <1>4, <1>5, RmpForward DEF Holds
  <1>6. ASSUME Alive', NEW a \in Acceptors PROVE AccStands(a)'
    BY <1>0, <1>3, <1>4, <1>6, AccForward DEF Holds
  <1> QED
    BY <1>1, <1>2, <1>5, <1>6 DEF IInv, Holds

LEMMA SwapDelStep ==
  ASSUME IInv, Alive, NEW t \in IoTasks, SwapDelCache(t), TaskOnly
  PROVE  IInv'
  <1>0. CacheTypes /\ TaskTypes /\ TaskHolds(t)
    BY EpollTypes DEF IInv, TypeOK, Holds
  <1>1. CacheTypes' /\ TaskTypes'
    BY <1>0 DEF SwapDelCache, GoTo, CacheTypes, TaskTypes, Counts, NoCopies, Phases
  <1>2. \A u \in IoTasks \ {t} : Idle(u)
    BY <1>0 DEF SwapDelCache, GoTo, CacheTypes, TaskTypes, Counts, Idle
  <1>3. /\ phase[t] = "top" /\ cur[t] = NoObj /\ arrEvts[t] = {}
        /\ phase'[t] = "dels" /\ cur'[t] = NoObj /\ arrEvts'[t] = arrEvts[t]
        /\ setIoObjs'[t] = setIoObjs[t] /\ armed'[t] = armed[t]
        /\ vecTmp'[t] = DelCache[t] /\ DelCache'[t] = NoCopies /\ AddCache'[t] = AddCache[t]
    BY <1>0 DEF SwapDelCache, GoTo, CacheTypes, TaskTypes, Counts, TaskHolds
  <1>4. TaskHolds(t)'
    BY <1>0, <1>3 DEF TaskHolds
  <1>5. ASSUME NEW q \in IoObjs PROVE Forward(t, q)
    <2>1. ~ Telling(t, q) /\ ~ Telling(t, q)' /\ (Has(t, q)' <=> Has(t, q))
      BY <1>3 DEF Telling, Has
    <2>2. /\ vecTmp'[t][q] = DelCache[t][q] /\ DelCache'[t][q] = 0
          /\ AddCache'[t][q] = AddCache[t][q]
      BY <1>3 DEF NoCopies
    <2> QED
      BY <1>3, <2>1, <2>2
      DEF Forward, Out, In, Queued, Taken, Failed, Added, Unadded, Leaving, Erasing, Deled,
          Doomed, Copies
  <1> QED
    BY <1>1, <1>2, <1>4, <1>5, TaskKeeps

LEMMA SwapAddStep ==
  ASSUME IInv, Alive, NEW t \in IoTasks, SwapAddCache(t), TaskOnly
  PROVE  IInv'
  <1>0. CacheTypes /\ TaskTypes /\ TaskHolds(t)
    BY EpollTypes DEF IInv, TypeOK, Holds
  <1>1. CacheTypes' /\ TaskTypes'
    BY <1>0 DEF SwapAddCache, GoTo, CacheTypes, TaskTypes, Counts, NoCopies, Phases
  <1>2. \A u \in IoTasks \ {t} : Idle(u)
    BY <1>0 DEF SwapAddCache, GoTo, CacheTypes, TaskTypes, Counts, Idle
  <1>3. /\ phase[t] = "dels" /\ cur[t] = NoObj /\ arrEvts[t] = {} /\ vecTmp[t] = NoCopies
        /\ phase'[t] = "adds" /\ cur'[t] = NoObj /\ arrEvts'[t] = arrEvts[t]
        /\ setIoObjs'[t] = setIoObjs[t] /\ armed'[t] = armed[t]
        /\ vecTmp'[t] = AddCache[t] /\ AddCache'[t] = NoCopies /\ DelCache'[t] = DelCache[t]
    BY <1>0 DEF SwapAddCache, GoTo, CacheTypes, TaskTypes, Counts, TaskHolds
  <1>4. TaskHolds(t)'
    BY <1>0, <1>3 DEF TaskHolds
  <1>5. ASSUME NEW q \in IoObjs PROVE Forward(t, q)
    <2>1. ~ Telling(t, q) /\ ~ Telling(t, q)' /\ (Has(t, q)' <=> Has(t, q))
      BY <1>3 DEF Telling, Has
    <2>2. /\ vecTmp'[t][q] = AddCache[t][q] /\ AddCache'[t][q] = 0 /\ vecTmp[t][q] = 0
          /\ DelCache'[t][q] = DelCache[t][q]
      BY <1>3 DEF NoCopies
    <2> QED
      BY <1>3, <2>1, <2>2
      DEF Forward, Out, In, Queued, Taken, Failed, Added, Unadded, Leaving, Erasing, Deled,
          Doomed, Copies
  <1> QED
    BY <1>1, <1>2, <1>4, <1>5, TaskKeeps

LEMMA WaitStep ==
  ASSUME IInv, Alive, NEW t \in IoTasks, EpollWait(t) \/ ExecReturns(t), TaskOnly
  PROVE  IInv'
  <1>0. CacheTypes /\ TaskTypes /\ TaskHolds(t)
    BY EpollTypes DEF IInv, TypeOK, Holds
  <1>1. PICK evts \in SUBSET armed[t], p \in {"top", "events"} :
          /\ arrEvts' = [arrEvts EXCEPT ![t] = evts] /\ GoTo(t, p, NoObj)
          /\ p = "top" => evts = {}
          /\ UNCHANGED <<AddCache, DelCache, armed, setIoObjs, vecTmp>>
          /\ phase[t] \in {"adds", "events"}
          /\ phase[t] = "adds" => vecTmp[t] = NoCopies
    <2>1. CASE EpollWait(t)
      BY <2>1 DEF EpollWait, sharedVars
    <2>2. CASE ExecReturns(t)
      <3>1. arrEvts' = [arrEvts EXCEPT ![t] = {}]
        BY <1>0, <2>2 DEF ExecReturns, TaskTypes
      <3> QED
        BY <2>2, <3>1 DEF ExecReturns, sharedVars
    <2> QED
      BY <2>1, <2>2
  <1>2. evts \subseteq IoObjs /\ p \in Phases
    BY <1>0 DEF CacheTypes, Phases
  <1>3. CacheTypes' /\ TaskTypes'
    BY <1>0, <1>1, <1>2 DEF GoTo, CacheTypes, TaskTypes
  <1>4. \A u \in IoTasks \ {t} : Idle(u)
    BY <1>0, <1>1 DEF GoTo, TaskTypes, Idle
  <1>5. /\ cur[t] = NoObj /\ phase'[t] = p /\ cur'[t] = NoObj /\ arrEvts'[t] = evts
        /\ setIoObjs'[t] = setIoObjs[t] /\ vecTmp'[t] = vecTmp[t] /\ armed'[t] = armed[t]
    BY <1>0, <1>1 DEF GoTo, TaskTypes, TaskHolds
  <1>6. TaskHolds(t)'
    BY <1>0, <1>1, <1>5 DEF TaskHolds
  <1>7. ASSUME NEW q \in IoObjs PROVE Forward(t, q)
    <2>1. AddCache[t][q] \in Nat /\ DelCache[t][q] \in Nat
      BY <1>0 DEF CacheTypes, Counts
    <2>2. phase[t] = "adds" => vecTmp[t][q] = 0
      BY <1>1 DEF NoCopies
    <2>3. Rests(t, q)
      BY <1>1, <1>5, <2>2 DEF Rests, Has, Telling, Deleting, Adding
    <2>4. Counted(t, q, 0, 0)
      BY <1>1, <2>1 DEF Counted
    <2> QED
      BY <2>1, <2>3, <2>4, AtRest
  <1> QED
    BY <1>3, <1>4, <1>6, <1>7, TaskKeeps

(* One object leaves the local vector.                                     *)
LEMMA TakeIs ==
  ASSUME TaskTypes, NEW t \in IoTasks, NEW p, NEW o \in IoObjs, TakeFrom(t, p, o)
  PROVE  /\ vecTmp' \in [IoTasks -> [IoObjs -> Nat]]
         /\ phase[t] = p
         /\ vecTmp[t][o] \in Nat \ {0} /\ vecTmp'[t][o] = vecTmp[t][o] - 1
         /\ \A q \in IoObjs \ {o} : vecTmp'[t][q] = vecTmp[t][q]
         /\ \A u \in IoTasks \ {t} : vecTmp'[u] = vecTmp[u]
  <1>1. vecTmp \in [IoTasks -> [IoObjs -> Nat]] /\ vecTmp[t] \in [IoObjs -> Nat]
    BY DEF TaskTypes
  <1>2. vecTmp[t][o] \in Nat /\ vecTmp[t][o] > 0
    BY <1>1 DEF TakeFrom
  <1>3. vecTmp[t][o] - 1 \in Nat
    BY <1>2
  <1>4. vecTmp' = [vecTmp EXCEPT ![t] = [vecTmp[t] EXCEPT ![o] = vecTmp[t][o] - 1]]
    BY <1>1 DEF TakeFrom
  <1>5. [vecTmp[t] EXCEPT ![o] = vecTmp[t][o] - 1] \in [IoObjs -> Nat]
    BY <1>1, <1>3
  <1> QED
    BY <1>1, <1>2, <1>3, <1>4, <1>5 DEF TakeFrom

LEMMA OneFewer ==
  ASSUME NEW n \in Nat \ {0}
  PROVE  n # 0 /\ (n = 1 => n - 1 = 0)
  OBVIOUS

LEMMA EraseStep ==
  ASSUME IInv, Alive, NEW t \in IoTasks, NEW o \in IoObjs, EraseIoObj(t, o), TaskOnly
  PROVE  IInv'
  <1>0. CacheTypes /\ TaskTypes /\ TaskHolds(t)
    BY EpollTypes DEF IInv, TypeOK, Holds
  <1>1. /\ vecTmp' \in [IoTasks -> [IoObjs -> Nat]]
        /\ phase[t] = "dels"
        /\ vecTmp[t][o] \in Nat \ {0} /\ vecTmp'[t][o] = vecTmp[t][o] - 1
        /\ \A q \in IoObjs \ {o} : vecTmp'[t][q] = vecTmp[t][q]
        /\ \A u \in IoTasks \ {t} : vecTmp'[u] = vecTmp[u]
    BY <1>0, TakeIs DEF EraseIoObj
  <1>2. CacheTypes' /\ TaskTypes'
    BY <1>0, <1>1 DEF EraseIoObj, GoTo, CacheTypes, TaskTypes, Phases
  <1>3. \A u \in IoTasks \ {t} : Idle(u)
    BY <1>0, <1>1 DEF EraseIoObj, GoTo, CacheTypes, TaskTypes, Idle
  <1>4. /\ cur[t] = NoObj /\ arrEvts[t] = {}
        /\ phase'[t] = "deled" /\ cur'[t] = o /\ arrEvts' = arrEvts
        /\ setIoObjs'[t] = setIoObjs[t] \ {o} /\ armed'[t] = armed[t] \ {o}
        /\ AddCache' = AddCache /\ DelCache' = DelCache
    BY <1>0, <1>1 DEF EraseIoObj, GoTo, CacheTypes, TaskTypes, TaskHolds
  <1>5. TaskHolds(t)'
    BY <1>0, <1>4 DEF TaskHolds
  <1>6. ASSUME NEW q \in IoObjs \ {o} PROVE Forward(t, q)
    <2>1. AddCache[t][q] \in Nat /\ DelCache[t][q] \in Nat
      BY <1>0 DEF CacheTypes, Counts
    <2>2. Rests(t, q) /\ Counted(t, q, 0, 0)
      BY <1>1, <1>4, <2>1 DEF Rests, Has, Telling, Deleting, Adding, Counted
    <2> QED
      BY <2>1, <2>2, AtRest
  <1>7. ASSUME Alive' PROVE Forward(t, o)
    <2>1. Has(t, o)
      BY <1>7 DEF EraseIoObj, Alive, Has
    <2>2. ~ Telling(t, o) /\ Telling(t, o)' /\ ~ Has(t, o)'
      BY <1>4 DEF Telling, Has
    <2>3. vecTmp[t][o] # 0 /\ (vecTmp[t][o] = 1 => vecTmp'[t][o] = 0)
      BY <1>1, OneFewer
    <2>4. Erasing(t, o) => Deled(t, o)'
      BY <1>4, <2>2, <2>3 DEF Erasing, Deled, Copies
    <2>5. /\ ~ Out(t, o) /\ ~ In(t, o) /\ ~ Queued(t, o) /\ ~ Leaving(t, o)
          /\ ~ Failed(t, o) /\ ~ Added(t, o) /\ ~ Deled(t, o)
          /\ \A a \in {0, 1} : ~ Unadded(t, o, a)
      BY <2>3 DEF Out, In, Queued, Leaving, Failed, Added, Unadded, Deled, Copies
    <2>6. ~ Taken(t, o) /\ ~ Doomed(t, o)
      BY <1>1, <2>1 DEF Taken, Doomed
    <2> QED
      BY <2>4, <2>5, <2>6 DEF Forward
  <1> QED
    BY <1>2, <1>3, <1>5, <1>6, <1>7, TaskKeeps

LEMMA InsertStep ==
  ASSUME IInv, Alive, NEW t \in IoTasks, NEW o \in IoObjs,
         TaskInserts(t, o) \/ TaskInsertFails(t, o)
  PROVE  IInv'
  <1>0. CacheTypes /\ TaskTypes /\ TaskHolds(t) /\ TaskOnly
    BY EpollTypes DEF IInv, TypeOK, Holds, TaskInserts, TaskInsertFails
  <1>1. PICK p \in {"added", "addfailed"}, new \in SUBSET {o} :
          /\ TakeFrom(t, "adds", o) /\ GoTo(t, p, o)
          /\ armed' = [armed EXCEPT ![t] = armed[t] \cup new]
          /\ setIoObjs' = [setIoObjs EXCEPT ![t] = setIoObjs[t] \cup new]
          /\ UNCHANGED <<AddCache, DelCache, arrEvts>>
          /\ p = "added" => new = {o} /\ Sock(o) = "open"
          /\ p = "addfailed" => new = {}
    <2>1. CASE TaskInserts(t, o)
      BY <1>0, <2>1 DEF TaskInserts, InsertIoObj, CacheTypes, TaskTypes
    <2>2. CASE TaskInsertFails(t, o)
      <3>1. /\ armed = [armed EXCEPT ![t] = armed[t] \cup {}]
            /\ setIoObjs = [setIoObjs EXCEPT ![t] = setIoObjs[t] \cup {}]
        BY <1>0 DEF CacheTypes, TaskTypes
      <3> QED
        BY <2>2, <3>1 DEF TaskInsertFails, InsertFails
    <2> QED
      BY <2>1, <2>2
  <1>2. /\ vecTmp' \in [IoTasks -> [IoObjs -> Nat]]
        /\ phase[t] = "adds"
        /\ vecTmp[t][o] \in Nat \ {0} /\ vecTmp'[t][o] = vecTmp[t][o] - 1
        /\ \A q \in IoObjs \ {o} : vecTmp'[t][q] = vecTmp[t][q]
        /\ \A u \in IoTasks \ {t} : vecTmp'[u] = vecTmp[u]
    BY <1>0, <1>1, TakeIs
  <1>3. CacheTypes' /\ TaskTypes'
    BY <1>0, <1>1, <1>2 DEF GoTo, CacheTypes, TaskTypes, Phases
  <1>4. \A u \in IoTasks \ {t} : Idle(u)
    BY <1>0, <1>1, <1>2 DEF GoTo, CacheTypes, TaskTypes, Idle
  <1>5. /\ cur[t] = NoObj /\ arrEvts[t] = {}
        /\ phase'[t] = p /\ cur'[t] = o /\ arrEvts' = arrEvts
        /\ setIoObjs'[t] = setIoObjs[t] \cup new /\ armed'[t] = armed[t] \cup new
        /\ AddCache' = AddCache /\ DelCache' = DelCache
    BY <1>0, <1>1, <1>2 DEF GoTo, CacheTypes, TaskTypes, TaskHolds
  <1>6. TaskHolds(t)'
    BY <1>0, <1>1, <1>5 DEF TaskHolds
  <1>7. ASSUME NEW q \in IoObjs \ {o} PROVE Forward(t, q)
    <2>1. AddCache[t][q] \in Nat /\ DelCache[t][q] \in Nat
      BY <1>0 DEF CacheTypes, Counts
    <2>2. Rests(t, q) /\ Counted(t, q, 0, 0)
      BY <1>2, <1>5, <2>1 DEF Rests, Has, Telling, Deleting, Adding, Counted
    <2> QED
      BY <2>1, <2>2, AtRest
  <1>8. Forward(t, o)
    <2>1. ~ Telling(t, o) /\ Telling(t, o)'
      BY <1>5 DEF Telling
    <2>2. vecTmp[t][o] # 0 /\ (vecTmp[t][o] = 1 => vecTmp'[t][o] = 0)
      BY <1>2, OneFewer
    <2>3. CASE p = "added"
      <3>1. Has(t, o)' /\ Sock(o) = "open"
        BY <1>1, <1>5, <2>3 DEF Has
      <3> QED
        BY <1>2, <1>5, <2>1, <2>2, <2>3, <3>1
        DEF Forward, Out, In, Queued, Taken, Failed, Added, Unadded, Leaving, Erasing, Deled,
            Doomed, Copies
    <2>4. CASE p = "addfailed"
      <3>1. Has(t, o)' <=> Has(t, o)
        BY <1>1, <1>5, <2>4 DEF Has
      <3> QED
        BY <1>2, <1>5, <2>1, <2>2, <2>4, <3>1
        DEF Forward, Out, In, Queued, Taken, Failed, Added, Unadded, Leaving, Erasing, Deled,
            Doomed, Copies
    <2> QED
      BY <2>3, <2>4
  <1> QED
    BY <1>0, <1>3, <1>4, <1>6, <1>7, <1>8, TaskKeeps

(* The task dies of the NULL pointer.                                      *)
LEMMA InsertNullStep ==
  ASSUME IInv, Alive, NEW t \in IoTasks, NEW o \in IoObjs, TaskInsertsNull(t, o)
  PROVE  IInv'
  <1>1. TypeOK /\ TaskTypes
    BY EpollTypes DEF IInv, TypeOK
  <1>2. vecTmp' \in [IoTasks -> [IoObjs -> Nat]]
    BY <1>1, TakeIs DEF TaskInsertsNull
  <1>3. TypeOK'
    BY <1>1, <1>2
    DEF TypeOK, EpollTypeOK, RmpTypeOK, AccTypeOK, TaskInsertsNull, TaskOnly, rmpVars, accVars
  <1>4. ~ Alive'
    BY DEF TaskInsertsNull, Alive
  <1> QED
    BY <1>3, <1>4 DEF IInv

-----------------------------------------------------------------------------
LEMMA InitInv ==
  Init => IInv
  <1> SUFFICES ASSUME Init PROVE IInv
    OBVIOUS
  <1>1. TypeOK
    BY DEF Init, EpollInit, RmpInit, AccInit, TypeOK, EpollTypeOK, RmpTypeOK, AccTypeOK,
           NoCopies, Phases, RmpStates
  <1>2. ASSUME NEW t \in IoTasks, NEW o \in IoObjs PROVE Out(t, o)
    BY <1>2 DEF Init, EpollInit, NoCopies, Out, Copies, Telling, Has
  <1>3. ASSUME NEW t \in IoTasks PROVE TaskHolds(t)
    BY <1>3 DEF Init, EpollInit, TaskHolds
  <1>4. ASSUME NEW e \in RmpEps PROVE RmpStands(e)
    BY <1>2, <1>4 DEF Init, RmpInit, RmpStands
  <1>5. ASSUME NEW a \in Acceptors PROVE AccStands(a)
    BY <1>2, <1>5 DEF Init, AccInit, AccStands
  <1> QED
    BY <1>1, <1>3, <1>4, <1>5 DEF IInv, Holds

LEMMA StepInv ==
  IInv /\ [Next]_vars => IInv'
  <1> SUFFICES ASSUME IInv, [Next]_vars PROVE IInv'
    OBVIOUS
  <1>1. CASE UNCHANGED vars
    <2>1. /\ UNCHANGED <<AddCache, DelCache, armed, aborted>>
          /\ UNCHANGED <<setIoObjs, vecTmp, arrEvts, phase, cur>>
          /\ UNCHANGED <<rmpState, rmpPending, rmpSock>>
          /\ UNCHANGED <<accState, accPending, listener>>
      BY <1>1 DEF vars, sharedVars, taskVars, rmpVars, accVars
    <2>2. TypeOK'
      BY <2>1 DEF IInv, TypeOK, EpollTypeOK, RmpTypeOK, AccTypeOK
    <2>3. Alive /\ TaskOnly /\ CacheTypes' /\ TaskTypes' /\ "OT" \in IoTasks => IInv'
      <3> SUFFICES ASSUME Alive, TaskOnly, CacheTypes', TaskTypes' PROVE IInv'
        OBVIOUS
      <3>1. \A u \in IoTasks : Idle(u)
        BY <2>1 DEF Idle
      <3>2. CacheTypes /\ TaskHolds("OT")
        BY EpollTypes DEF IInv, TypeOK, Holds
      <3>3. (\A q \in IoObjs : Forward("OT", q)) /\ TaskHolds("OT")'
        BY <3>1, <3>2, IdleForward
      <3> QED
        BY <3>1, <3>3, TaskKeeps
    <2>4. TaskOnly /\ CacheTypes' /\ TaskTypes'
      BY <1>1, <2>2 DEF vars, TaskOnly, TypeOK, EpollTypeOK, CacheTypes, TaskTypes, Counts
    <2> QED
      BY <2>1, <2>2, <2>3, <2>4 DEF IInv, Alive
  <1>2. CASE Next
    <2>0. Alive
      BY <1>2 DEF Next, Alive
    <2>1. ASSUME NEW o \in IoObjs, Open(o) \/ Close(o) PROVE IInv'
      BY <2>0, <2>1, UserStep
    <2>2. ASSUME NEW t \in IoTasks, TaskStep(t) PROVE IInv'
      <3>1. CASE SwapDelCache(t) /\ TaskOnly
        BY <2>0, <3>1, SwapDelStep
      <3>2. CASE SwapAddCache(t) /\ TaskOnly
        BY <2>0, <3>2, SwapAddStep
      <3>3. CASE (EpollWait(t) \/ ExecReturns(t)) /\ TaskOnly
        BY <2>0, <3>3, WaitStep
      <3>4. CASE HandleAddFailed(t)
        BY <2>0, <3>4, AddFailedStep
      <3>5. CASE HandleAddedIntoIoTask(t)
        BY <2>0, <3>5, AddedStep
      <3>6. CASE HandleDeledFromIoTask(t)
        BY <2>0, <3>6, DeledStep
      <3>7. CASE RmpIo(t) \/ \E o \in IoObjs : HandleIoError(t, o) \/ HandleIoEvt(t, o)
        BY <2>0, <3>7, IoStep
      <3>8. ASSUME NEW o \in IoObjs, EraseIoObj(t, o), TaskOnly PROVE IInv'
        BY <2>0, <3>8, EraseStep
      <3>9. ASSUME NEW o \in IoObjs, TaskInsertsNull(t, o) PROVE IInv'
        BY <2>0, <3>9, InsertNullStep
      <3>10. ASSUME NEW o \in IoObjs, TaskInserts(t, o) \/ TaskInsertFails(t, o) PROVE IInv'
        BY <2>0, <3>10, InsertStep
      <3> QED
        BY <2>2, <3>1, <3>2, <3>3, <3>4, <3>5, <3>6, <3>7, <3>8, <3>9, <3>10 DEF TaskStep
    <2> QED
      BY <1>2, <2>1, <2>2 DEF Next
  <1> QED
    BY <1>1, <1>2

LEMMA Invariance ==
  Spec => []IInv
  BY InitInv, StepInv, PTL DEF Spec

-----------------------------------------------------------------------------
(* The counts, sets and phases of the two tasks, and the states of the     *)
(* objects they serve, keep their types: no count goes below zero          *)
(* (CEpoll::exec and the handlers of CRmpEndpoint and CRupAcceptor).       *)
THEOREM TypeCorrect == Spec => []TypeOK
  <1>1. IInv => TypeOK
    BY DEF IInv
  <1> QED
    BY <1>1, Invariance, PTL

(* An object is with exactly the tasks its state says, and has the open    *)
(* descriptor its handlers assert, however the two tasks, the errors they  *)
(* report and the users interleave.                                        *)
THEOREM Agreement == Spec => []TasksAgree
  <1> SUFFICES ASSUME IInv, Alive PROVE TasksAgree
    BY Invariance, PTL DEF TasksAgree
  <1>1. Holds
    BY DEF IInv
  <1>2. \A t \in IoTasks, o \in IoObjs :
          /\ Out(t, o) \/ Unadded(t, o, 0) => o \notin setIoObjs[t] /\ DelCache[t][o] = 0
          /\ In(t, o) => o \in setIoObjs[t] /\ DelCache[t][o] = 0
    BY DEF Out, In, Unadded, Has, Copies
  <1>3. ASSUME NEW e \in RmpEps
        PROVE  /\ rmpState[e] = "OPENED" =>
                    /\ rmpSock[e] = "open"
                    /\ \A t \in {"OT", "IT"} : e \in setIoObjs[t] /\ DelCache[t][e] = 0
               /\ rmpState[e] = "CLOSED" =>
                    \A t \in {"OT", "IT"} : e \notin setIoObjs[t] /\ DelCache[t][e] = 0
               /\ rmpState[e] = "DELING_FROM_OT" => e \notin setIoObjs["IT"]
    BY <1>1, <1>2 DEF Holds, RmpStands
  <1>4. ASSUME NEW a \in Acceptors
        PROVE  /\ accState[a] = "OPENED" =>
                    a \in setIoObjs["IT"] /\ listener[a] = "open" /\ DelCache["IT"][a] = 0
               /\ accState[a] = "CLOSED" => a \notin setIoObjs["IT"] /\ DelCache["IT"][a] = 0
               /\ accState[a] = "ADDING_INTO_IT" => listener[a] = "open"
    BY <1>1, <1>2 DEF Holds, AccStands
  <1> QED
    BY <1>3, <1>4 DEF TasksAgree

(* Two of the assertions can never fail: that an object a task inserts is  *)
(* new to it (CEpoll::exec, pairRet.second), and that the listener of an   *)
(* acceptor is open when it is opened and when it is closed (CRupAcceptor, *)
(* is_opened).                                                             *)
SomeAssertsHold == aborted \notin {"insert", "is_opened"}

LEMMA AccNeverIsOpened ==
  ASSUME IInv, Alive, NEW a \in Acceptors, NEW evt, AccPostEvt(a, evt) \/ AccPostOrDie(a, evt)
  PROVE  SomeAssertsHold'
  <1>1. AccStands(a)
    BY DEF IInv, Holds
  <1>2. ASSUME accState[a] = "ADDING_INTO_IT", AccHandlingAddingIntoItToOpened(a)
        PROVE  SomeAssertsHold'
    BY <1>1, <1>2
    DEF AccHandlingAddingIntoItToOpened, AccLeave, AccStands, SomeAssertsHold, Alive, sharedVars
  <1>3. ASSUME accState[a] = "OPENED", AccHandlingCloseWhileOpened(a)
        PROVE  SomeAssertsHold'
    BY <1>1, <1>3 DEF AccHandlingCloseWhileOpened, AccLeave, AccStands, SomeAssertsHold, Alive
  <1>4. CASE AccPostEvt(a, evt)
    BY <1>2, <1>3, <1>4
    DEF AccPostEvt, HandlingClosedToAddingIntoIt, AccRemember, HandlingDelingFromItToClosed,
        AccAbort, SomeAssertsHold, Alive, sharedVars
  <1> QED
    BY <1>4 DEF AccPostOrDie, AccAbort, SomeAssertsHold

LEMMA RmpNeverAsserts ==
  ASSUME Alive, NEW e \in RmpEps, NEW evt, RmpPostEvt(e, evt)
  PROVE  SomeAssertsHold'
  BY DEF RmpPostEvt, HandlingClosedToAddingIntoOt, RmpRemember, RmpLeave,
         HandlingInternalErrWhileAddingIntoOt, HandlingAddingIntoOtToAddingIntoIt,
         HandlingAddingIntoItToOpened, HandlingCloseWhileOpened,
         HandlingDelingFromItToDelingFromOt, HandlingDelingFromOtToClosed,
         SomeAssertsHold, Alive, sharedVars

THEOREM AssertsHold == Spec => []SomeAssertsHold
  <1>1. Init => SomeAssertsHold
    BY DEF Init, EpollInit, SomeAssertsHold
  <1>2. ASSUME IInv, SomeAssertsHold, [Next]_vars PROVE SomeAssertsHold'
    <2>1. CASE UNCHANGED aborted
      BY <1>2, <2>1 DEF SomeAssertsHold
    <2>2. CASE UNCHANGED vars
      BY <2>1, <2>2 DEF vars, sharedVars
    <2>3. CASE Next
      <3>0. Alive /\ Holds
        BY <1>2, <2>3 DEF Next, Alive, IInv
      <3>1. ASSUME NEW o, NEW evt, PostEvt(o, evt) \/ PostOrDie(o, evt) PROVE SomeAssertsHold'
        BY <1>2, <3>0, <3>1, AccNeverIsOpened, RmpNeverAsserts DEF PostEvt, PostOrDie
      <3>2. ASSUME NEW o \in IoObjs, Open(o) \/ Close(o) PROVE SomeAssertsHold'
        BY <3>1, <3>2 DEF Open, Close
      <3>3. ASSUME NEW t \in IoTasks, TaskStep(t) PROVE SomeAssertsHold'
        <4>1. CASE HandleAddFailed(t) \/ HandleAddedIntoIoTask(t) \/ HandleDeledFromIoTask(t)
          BY <3>1, <4>1 DEF HandleAddFailed, HandleAddedIntoIoTask, HandleDeledFromIoTask
        <4>2. CASE RmpIo(t)
          <5>1. cur[t] \in RmpEps
            BY <3>0, <4>2 DEF RmpIo, Holds, TaskHolds
          <5> QED
            BY <2>1, <3>0, <4>2, <5>1, RmpNeverAsserts
            DEF RmpIo, RmpIoReturns, SomeAssertsHold, sharedVars
        <4>3. ASSUME NEW o \in IoObjs, HandleIoError(t, o) PROVE SomeAssertsHold'
          BY <3>1, <4>3 DEF HandleIoError
        <4>4. ASSUME NEW o \in IoObjs, HandleIoEvt(t, o) PROVE SomeAssertsHold'
          BY <2>1, <4>4
          DEF HandleIoEvt, RmpHandlesIo, AccHandlesInput, AccAbort, SomeAssertsHold, sharedVars
        <4>5. ASSUME NEW o \in IoObjs, InsertIoObj(t, o) PROVE SomeAssertsHold'
          <5>1. vecTmp[t][o] > 0 /\ phase[t] = "adds"
            BY <4>5 DEF InsertIoObj, TakeFrom
          <5>2. ~ Out(t, o) /\ ~ In(t, o) /\ ~ Queued(t, o) /\ ~ Leaving(t, o)
            BY <5>1 DEF Out, In, Queued, Leaving, Copies
          <5>3. ~ Failed(t, o) /\ ~ Added(t, o) /\ ~ Deled(t, o) /\ ~ Erasing(t, o)
            BY <5>1 DEF Failed, Added, Deled, Erasing
          <5>4. ~ Unadded(t, o, 0) /\ ~ Unadded(t, o, 1)
            BY <5>1 DEF Unadded
          <5>5. Taken(t, o) \/ Doomed(t, o) => ~ Has(t, o)
            BY DEF Taken, Doomed
          <5>6. ~ Has(t, o)
            <6>1. CASE o \in RmpEps
              <7>1. RmpStands(o) /\ rmpState[o] \in RmpStates /\ (t = "OT" \/ t = "IT")
                BY <1>2, <3>0, <6>1 DEF IInv, TypeOK, RmpTypeOK, Holds
              <7> QED
                BY <5>2, <5>3, <5>4, <5>5, <7>1 DEF RmpStands, RmpStates, GoingIn, GoingOut
            <6>2. CASE o \in Acceptors
              <7>1. AccStands(o) /\ accState[o] \in AccStates /\ (t = "OT" \/ t = "IT")
                BY <1>2, <3>0, <6>2 DEF IInv, TypeOK, AccTypeOK, AccStates, Holds
              <7> QED
                BY <5>2, <5>3, <5>4, <5>5, <7>1 DEF AccStands, AccStates, GoingIn, GoingOut
            <6> QED
              BY <6>1, <6>2
          <5> QED
            BY <1>2, <4>5, <5>6 DEF InsertIoObj, Has, SomeAssertsHold
        <4>6. ASSUME NEW o \in IoObjs, EraseIoObj(t, o) PROVE SomeAssertsHold'
          BY <1>2, <4>6 DEF EraseIoObj, SomeAssertsHold
        <4>7. ASSUME NEW o \in IoObjs, TaskInsertsNull(t, o) PROVE SomeAssertsHold'
          BY <4>7 DEF TaskInsertsNull, SomeAssertsHold
        <4>8. ASSUME NEW o \in IoObjs, TaskInsertFails(t, o) PROVE SomeAssertsHold'
          BY <2>1, <4>8 DEF TaskInsertFails, InsertFails
        <4>9. CASE SwapDelCache(t) \/ SwapAddCache(t) \/ EpollWait(t) \/ ExecReturns(t)
          BY <2>1, <4>9 DEF SwapDelCache, SwapAddCache, EpollWait, ExecReturns, sharedVars
        <4> QED
          BY <3>3, <4>1, <4>2, <4>3, <4>4, <4>5, <4>6, <4>7, <4>8, <4>9 DEF TaskStep, TaskInserts
      <3> QED
        BY <2>3, <3>2, <3>3 DEF Next
    <2> QED
      BY <1>2, <2>2, <2>3
  <1> QED
    BY <1>1, <1>2, Invariance, PTL DEF Spec

-----------------------------------------------------------------------------
(* The refinement of Connection.                                           *)

ConnOf(s) ==
  CASE s = "CLOSED" -> "closed"
    [] s \in {"ADDING_INTO_OT", "ADDING_INTO_IT"} -> "opening"
    [] s = "OPENED" -> "opened"
    [] s \in {"DELING_FROM_IT", "DELING_FROM_OT"} -> "closing"

AllowedMoves ==
  { <<"closed", "opening">>, <<"opening", "opened">>, <<"opening", "closing">>,
    <<"opened", "closing">>, <<"opening", "closed">>, <<"closing", "closed">>,
    <<"closing", "opening">> }

StateMoves(from, to) ==
  from = to \/ ConnOf(from) = ConnOf(to) \/ <<ConnOf(from), ConnOf(to)>> \in AllowedMoves

LEMMA ConnIs ==
  /\ conn = [o \in IoObjs |-> ConnOf(State(o))]
  /\ conn' = [o \in IoObjs |-> ConnOf(State(o)')]
  BY DEF conn, ConnOf

LEMMA MoveRefines ==
  ASSUME NEW o \in IoObjs, NEW s, StateMoves(State(o), s), State(o)' = s,
         \A q \in IoObjs \ {o} : State(q)' = State(q)
  PROVE  [Conn!Next]_conn
  <1> DEFINE from == ConnOf(State(o))
             to == ConnOf(s)
  <1>1. conn[o] = from /\ conn' = [conn EXCEPT ![o] = to]
    BY ConnIs
  <1>2. from = to \/ <<from, to>> \in AllowedMoves
    BY DEF StateMoves
  <1> HIDE DEF from, to
  <1>3. CASE from = to
    <2>1. conn' = conn
      BY <1>1, <1>3, ConnIs
    <2> QED
      BY <2>1
  <1>4. CASE <<from, to>> \in AllowedMoves
    <2>1. \/ from = "closed" /\ to = "opening"
          \/ from = "opening" /\ to = "opened"
          \/ from \in {"opening", "opened"} /\ to = "closing"
          \/ from \in {"opening", "closing"} /\ to = "closed"
          \/ from = "closing" /\ to = "opening"
      BY <1>4 DEF AllowedMoves
    <2>2. Conn!Next
      BY <1>1, <2>1
      DEF Conn!Next, Conn!Open, Conn!Opened, Conn!Closing, Conn!Closed, Conn!Reopened, Conn!Move
    <2> QED
      BY <2>2
  <1> QED
    BY <1>2, <1>3, <1>4

LEMMA RowMoves ==
  ASSUME TypeOK, NEW o \in IoObjs, NEW evt, Row(o, evt)
  PROVE  [Conn!Next]_conn
  <1>1. ASSUME NEW e \in RmpEps, RmpRow(e, evt), UNCHANGED accVars PROVE [Conn!Next]_conn
    <2>1. PICK s : StateMoves(rmpState[e], s) /\ rmpState' = [rmpState EXCEPT ![e] = s]
      BY <1>1 DEF RmpRow, RmpEffect, StateMoves, ConnOf, AllowedMoves
    <2>2. rmpState \in [RmpEps -> RmpStates] /\ accState' = accState
      BY <1>1 DEF TypeOK, RmpTypeOK, accVars
    <2>3. State(e) = rmpState[e] /\ State(e)' = s /\ e \in IoObjs
      BY <2>1, <2>2 DEF State
    <2>4. \A q \in IoObjs \ {e} : State(q)' = State(q)
      BY <2>1, <2>2 DEF State
    <2> QED
      BY <2>1, <2>3, <2>4, MoveRefines
  <1>2. ASSUME NEW a \in Acceptors, AccRow(a, evt), UNCHANGED rmpVars PROVE [Conn!Next]_conn
    <2>1. PICK s : StateMoves(accState[a], s) /\ accState' = [accState EXCEPT ![a] = s]
      BY <1>2 DEF AccRow, AccEffect, StateMoves, ConnOf, AllowedMoves
    <2>2. accState \in [Acceptors -> AccStates] /\ rmpState' = rmpState
      BY <1>2 DEF TypeOK, AccTypeOK, AccStates, rmpVars
    <2>3. State(a) = accState[a] /\ State(a)' = s /\ a \in IoObjs
      BY <2>1, <2>2 DEF State
    <2>4. \A q \in IoObjs \ {a} : State(q)' = State(q)
      BY <2>1, <2>2 DEF State
    <2> QED
      BY <2>1, <2>3, <2>4, MoveRefines
  <1> QED
    BY <1>1, <1>2 DEF Row

LEMMA StepRefines ==
  IInv /\ [Next]_vars => [Conn!Next]_conn
  <1> SUFFICES ASSUME IInv, [Next]_vars PROVE [Conn!Next]_conn
    OBVIOUS
  <1>1. ASSUME TaskOnly PROVE [Conn!Next]_conn
    <2>1. conn' = conn
      BY <1>1, ConnIs DEF TaskOnly, rmpVars, accVars, State
    <2> QED
      BY <2>1
  <1>2. CASE UNCHANGED vars
    BY <1>1, <1>2 DEF vars, TaskOnly
  <1>3. CASE Next
    <2>0. Alive /\ TypeOK
      BY <1>3 DEF Next, Alive, IInv
    <2>1. ASSUME NEW o, NEW evt, PostEvt(o, evt) \/ PostOrDie(o, evt) PROVE [Conn!Next]_conn
      <3>1. o \in IoObjs
        BY <2>1 DEF PostEvt, PostOrDie
      <3> QED
        BY <2>0, <2>1, <3>1, PostsRow, RowMoves
    <2>2. ASSUME NEW o \in IoObjs, Open(o) \/ Close(o) PROVE [Conn!Next]_conn
      BY <2>1, <2>2 DEF Open, Close
    <2>3. ASSUME NEW t \in IoTasks, TaskStep(t) PROVE [Conn!Next]_conn
      <3>1. CASE HandleAddFailed(t) \/ HandleAddedIntoIoTask(t) \/ HandleDeledFromIoTask(t)
        BY <2>1, <3>1 DEF HandleAddFailed, HandleAddedIntoIoTask, HandleDeledFromIoTask
      <3>2. CASE RmpIo(t)
        <4>1. PICK e \in RmpEps : e = cur[t]
          BY <2>0, <3>2 DEF RmpIo, IInv, Holds, TaskHolds
        <4>2. Row(e, "INPUT") \/ Row(e, "INTERNAL_ERR")
          BY <2>0, <3>2, <4>1, IoRow DEF RmpIo
        <4>3. e \in IoObjs
          BY <4>1
        <4> QED
          BY <2>0, <4>2, <4>3, RowMoves
      <3>3. ASSUME NEW o \in IoObjs, HandleIoError(t, o) PROVE [Conn!Next]_conn
        BY <2>1, <3>3 DEF HandleIoError
      <3>4. ASSUME NEW o \in IoObjs, HandleIoEvt(t, o) PROVE [Conn!Next]_conn
        <4>1. TaskOnly
          BY <3>4 DEF HandleIoEvt, RmpHandlesIo, AccHandlesInput, AccAbort, TaskOnly
        <4> QED
          BY <1>1, <4>1
      <3>5. CASE TaskOnly
        BY <1>1, <3>5
      <3> QED
        BY <2>3, <3>1, <3>2, <3>3, <3>4, <3>5
        DEF TaskStep, TaskInserts, TaskInsertFails, TaskInsertsNull
    <2> QED
      BY <1>3, <2>2, <2>3 DEF Next
  <1> QED
    BY <1>2, <1>3

(* Whatever the two tasks do to a multicast endpoint or an acceptor, and   *)
(* when, its user sees the phases of a connection in their order:          *)
(* on_opened() only while opening, and an opened one is closed only after  *)
(* its tasks have let go of it (CRmpEndpoint, CRupAcceptor: init_sm).      *)
THEOREM Refinement == Spec => ImplementsConnection
  <1>1. Init => Conn!Init
    <2> SUFFICES ASSUME Init PROVE Conn!Init
      OBVIOUS
    <2>1. \A o \in IoObjs : State(o) = "CLOSED"
      BY DEF Init, RmpInit, AccInit, State
    <2>2. \A o \in IoObjs : ConnOf(State(o)) = "closed"
      BY <2>1 DEF ConnOf
    <2> QED
      BY <2>2, ConnIs DEF Conn!Init
  <1> QED
    BY <1>1, InitInv, StepInv, StepRefines, PTL DEF Spec, ImplementsConnection, Conn!Spec
=============================================================================
