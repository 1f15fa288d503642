--------------------------- MODULE RupEndpointProofs ---------------------------
(***************************************************************************)
(* The types and the safety of RupEndpoint for any number of endpoints:    *)
(* IndInv is an inductive invariant.  At the end, that it implements       *)
(* Connection.                                                             *)
(***************************************************************************)
EXTENDS RupEndpoint, TLAPS, Integers

(* What the handlers of the state machine may change, and the rest.        *)
HandlerTypeOK ==
  /\ AddCache \in [IoTasks -> [IoObjs -> Nat]]
  /\ DelCache \in [IoTasks -> [IoObjs -> Nat]]
  /\ armed    \in [IoTasks -> SUBSET IoObjs]
  /\ state    \in [IoObjs -> States]
  /\ pending  \in [IoObjs -> {"NONE", "CLOSE", "INTERNAL_ERR"}]
  /\ sock     \in [IoObjs -> {"NULL", "open", "closed"}]
  /\ idle     \in [IoObjs -> Nat]
  /\ aborted  \in {"none", "erase", "insert", "del_endpoint", "m_pSock",
                   "send_data", "RECV_PENDING"}

USE IoTasksAssumption, NoObjAssumption

Counts == [IoTasks -> [IoObjs -> Nat]]

(* A cache with one entry changed.                                         *)
LEMMA EntryType ==
  ASSUME NEW f \in Counts, NEW t \in IoTasks, NEW o \in IoObjs, NEW n \in Nat
  PROVE  [f EXCEPT ![t][o] = n] \in Counts
  <1> DEFINE g == [f[t] EXCEPT ![o] = n]
  <1>1. f[t] \in [IoObjs -> Nat]
    BY DEF Counts
  <1>2. g \in [IoObjs -> Nat]
    BY <1>1
  <1>3. [f EXCEPT ![t] = g] \in Counts
    BY <1>2 DEF Counts
  <1> QED
    BY <1>3

LEMMA BumpType ==
  ASSUME NEW f \in Counts, NEW t \in IoTasks, NEW o \in IoObjs
  PROVE  [f EXCEPT ![t][o] = @ + 1] \in Counts
  <1>1. f[t] \in [IoObjs -> Nat]
    BY DEF Counts
  <1>2. f[t][o] \in Nat
    BY <1>1
  <1>3. f[t][o] + 1 \in Nat
    BY <1>2
  <1> QED
    BY <1>3, EntryType

LEMMA DecrementType ==
  ASSUME NEW f \in Counts, NEW t \in IoTasks, NEW o \in IoObjs, f[t][o] > 0
  PROVE  [f EXCEPT ![t][o] = @ - 1] \in Counts
  <1>1. f[t] \in [IoObjs -> Nat]
    BY DEF Counts
  <1>2. f[t][o] \in Nat
    BY <1>1
  <1>3. f[t][o] - 1 \in Nat
    BY <1>2
  <1> QED
    BY <1>3, EntryType

LEMMA NoCopiesType == NoCopies \in [IoObjs -> Nat]
  BY DEF NoCopies

LEMMA PostEvtType ==
  ASSUME HandlerTypeOK, NEW e \in IoObjs, NEW evt, PostEvt(e, evt)
  PROVE  HandlerTypeOK'
  <1> USE DEF HandlerTypeOK, States, Enter, AddIoObj, DelIoObj, Disarm, CloseSock,
      GiveUp, Abort, ClosedByUser, endpointVars, sharedVars
  <1>1. CASE UNCHANGED <<endpointVars, sharedVars>>
    BY <1>1
  <1>2. CASE HandlingClosedToAddedIntoHelper(e)
    BY <1>2 DEF HandlingClosedToAddedIntoHelper
  <1>3. CASE HandlingAddedIntoHelperToClosed(e)
    BY <1>3 DEF HandlingAddedIntoHelperToClosed
  <1>4. CASE HandlingAddedIntoHelperToAddingIntoOt(e)
    BY <1>4 DEF HandlingAddedIntoHelperToAddingIntoOt
  <1>5. CASE HandlingInternalErrWhileAddingIntoOt(e)
    BY <1>5 DEF HandlingInternalErrWhileAddingIntoOt
  <1>6. CASE evt \in {"CLOSE", "INTERNAL_ERR"} /\ RememberWhileAdding(e, evt)
    BY <1>6 DEF RememberWhileAdding
  <1>7. CASE HandlingAddedIntoOtToAddingIntoIt(e)
    BY <1>7 DEF HandlingAddedIntoOtToAddingIntoIt
  <1>8. CASE HandlingAddingIntoItToOpened(e)
    BY <1>8 DEF HandlingAddingIntoItToOpened
  <1>9. CASE HandlingCloseOrErrWhileOpened(e)
    BY <1>9, BumpType DEF Counts, HandlingCloseOrErrWhileOpened
  <1>10. CASE HandlingDelingFromItToDelingFromOt(e)
    BY <1>10, BumpType DEF Counts, HandlingDelingFromItToDelingFromOt
  <1>11. CASE HandlingDelingFromOtToClosed(e)
    BY <1>11 DEF HandlingDelingFromOtToClosed
  <1> QED
    BY <1>1, <1>2, <1>3, <1>4, <1>5, <1>6, <1>7, <1>8, <1>9, <1>10, <1>11 DEF PostEvt

-----------------------------------------------------------------------------
(* Type correctness.                                                       *)

LEMMA SharedTypes == TypeOK => HandlerTypeOK
  BY DEF TypeOK, EpollTypeOK, HandlerTypeOK

(* A call from a thread that is no io task.                                *)
LEMMA OutsideType ==
  ASSUME TypeOK, HandlerTypeOK',
         newSock' \in BOOLEAN, popped' \in IoObjs \cup {NoObj},
         sending' \in IoObjs \cup {NoObj}, UNCHANGED taskVars
  PROVE  TypeOK'
  BY DEF TypeOK, EpollTypeOK, HandlerTypeOK, taskVars

(* A callback from a task's thread.                                        *)
LEMMA CallbackType ==
  ASSUME TypeOK, HandlerTypeOK', UNCHANGED <<helperVars, sending>>,
         UNCHANGED <<setIoObjs, vecTmp>>,
         NEW t \in IoTasks, NEW p \in Phases, NEW o \in IoObjs \cup {NoObj},
         GoTo(t, p, o), arrEvts' \in [IoTasks -> SUBSET IoObjs]
  PROVE  TypeOK'
  BY DEF TypeOK, EpollTypeOK, HandlerTypeOK, helperVars, GoTo

(* A task that is in a callback is there for an object.                    *)
CallbackHasObj ==
  \A t \in IoTasks :
    phase[t] \in {"deled", "addfailed", "added", "io"} => cur[t] \in IoObjs

LEMMA TypeStep ==
  ASSUME TypeOK, CallbackHasObj, [Next]_vars
  PROVE  TypeOK'
  <1> USE SharedTypes
  <1>1. CASE UNCHANGED vars
    BY <1>1 DEF vars, endpointVars, helperVars, sharedVars, taskVars, TypeOK, EpollTypeOK
  <1>2. ASSUME NEW e \in IoObjs, Open(e) \/ Close(e) PROVE TypeOK'
    BY <1>2, PostEvtType, OutsideType DEF Open, Close, helperVars, TypeOK
  <1>3. ASSUME NEW e \in IoObjs, SendDataTests(e) PROVE TypeOK'
    BY <1>3 DEF SendDataTests, vars, endpointVars, helperVars, sharedVars, taskVars, TypeOK, EpollTypeOK
  <1>4. CASE SendDataSends
    BY <1>4 DEF SendDataSends, vars, endpointVars, helperVars, sharedVars, taskVars, TypeOK, EpollTypeOK
  <1>5. CASE HelperConnects \/ HelperGivesUp
    BY <1>5 DEF HelperConnects, HelperGivesUp, endpointVars, helperVars, sharedVars, taskVars, TypeOK, EpollTypeOK
  <1>6. ASSUME NEW e \in IoObjs, HelperPops(e) PROVE TypeOK'
    BY <1>6 DEF HelperPops, endpointVars, helperVars, sharedVars, taskVars, TypeOK, EpollTypeOK
  <1>7. CASE HelperHandsOver
    <2>1. popped \in IoObjs
      BY <1>7 DEF HelperHandsOver, TypeOK
    <2>2. HandlerTypeOK'
      BY <1>7, <2>1, PostEvtType DEF HelperHandsOver
    <2> QED
      BY <1>7, <2>2, OutsideType DEF HelperHandsOver, TypeOK
  <1>8. ASSUME NEW t \in IoTasks, TaskStep(t) PROVE TypeOK'
    <2> USE DEF Phases
    <2>1. CASE (SwapDelCache(t) \/ SwapAddCache(t)) /\ TaskOnly
      BY <1>8, <2>1, NoCopiesType DEF SwapDelCache, SwapAddCache, TaskOnly, endpointVars, helperVars, GoTo,
         TypeOK, EpollTypeOK
    <2>2. CASE (EpollWait(t) \/ ExecReturns(t)) /\ TaskOnly
      BY <2>2 DEF EpollWait, ExecReturns, TaskOnly, endpointVars, helperVars, sharedVars, GoTo,
         TypeOK, EpollTypeOK
    <2>3. CASE HandleDeledFromIoTask(t)
      BY <2>3, PostEvtType, CallbackType, CallbackHasObj
         DEF HandleDeledFromIoTask, NotifyDeled, TypeOK, EpollTypeOK, CallbackHasObj
    <2>4. CASE HandleAddFailed(t)
      BY <2>4, PostEvtType, CallbackType
         DEF HandleAddFailed, NotifyAddFailed, TypeOK, EpollTypeOK, CallbackHasObj
    <2>5. CASE HandleAddedIntoIoTask(t)
      BY <2>5, PostEvtType, CallbackType
         DEF HandleAddedIntoIoTask, NotifyAdded, TypeOK, EpollTypeOK, CallbackHasObj
    <2>6. CASE HandleIoEvtUsesSock(t)
      <3>1. HandlerTypeOK'
        BY <2>6, PostEvtType
           DEF HandleIoEvtUsesSock, CallbackHasObj, HandlerTypeOK, Abort, endpointVars, sharedVars
      <3> QED
        BY <2>6, <3>1, CallbackType DEF HandleIoEvtUsesSock, TypeOK, EpollTypeOK
    <2>7. ASSUME NEW e \in IoObjs, TaskErases(t, e) \/ TaskInserts(t, e) \/ TaskInsertFails(t, e)
          PROVE  TypeOK'
      <3>1. vecTmp' \in Counts
        BY <2>7, DecrementType DEF TaskErases, EraseIoObj, TaskInserts, InsertIoObj,
           TaskInsertFails, InsertFails, TakeFrom, TypeOK, EpollTypeOK, Counts
      <3> QED
        BY <2>7, <3>1 DEF TaskErases, EraseIoObj, TaskInserts, InsertIoObj, TaskInsertFails, InsertFails, TakeFrom,
           GoTo, TaskOnly, endpointVars, helperVars, TypeOK, EpollTypeOK, Counts
    <2>8. ASSUME NEW e \in IoObjs, HandleIoError(t, e) PROVE TypeOK'
      <3>1. HandlerTypeOK'
        BY <2>8, PostEvtType DEF HandleIoError
      <3>2. arrEvts' \in [IoTasks -> SUBSET IoObjs]
        BY <2>8 DEF HandleIoError, DispatchEvent, TypeOK, EpollTypeOK
      <3> QED
        BY <2>8, <3>1, <3>2, CallbackType DEF HandleIoError, DispatchEvent
    <2>9. ASSUME NEW e \in IoObjs, HandleIoEvtTests(t, e) PROVE TypeOK'
      <3>1. arrEvts' \in [IoTasks -> SUBSET IoObjs]
        BY <2>9 DEF HandleIoEvtTests, DispatchEvent, TypeOK, EpollTypeOK
      <3> QED
        BY <2>9, <3>1 DEF HandleIoEvtTests, DispatchEvent, GoTo, TypeOK, EpollTypeOK, endpointVars, helperVars, sharedVars
    <2> QED
      BY <1>8, <2>1, <2>2, <2>3, <2>4, <2>5, <2>6, <2>7, <2>8, <2>9 DEF TaskStep
  <1> QED
    BY <1>1, <1>2, <1>3, <1>4, <1>5, <1>6, <1>7, <1>8 DEF Next, UserStep, HelperStep

LEMMA CallbackHasObjStep ==
  ASSUME TypeOK, CallbackHasObj, [Next]_vars
  PROVE  CallbackHasObj'
  <1> USE DEF CallbackHasObj
  <1>1. CASE UNCHANGED taskVars
    BY <1>1 DEF taskVars
  <1>2. ASSUME NEW t \in IoTasks, NEW p, NEW o, GoTo(t, p, o),
               p \in {"deled", "addfailed", "added", "io"} => o \in IoObjs
        PROVE  CallbackHasObj'
    BY <1>2 DEF GoTo, TypeOK, EpollTypeOK
  <1>3. ASSUME NEW t \in IoTasks, TaskStep(t) PROVE CallbackHasObj'
    BY <1>2, <1>3 DEF TaskStep, SwapDelCache, SwapAddCache, EpollWait, ExecReturns,
       HandleDeledFromIoTask, NotifyDeled, HandleAddFailed, NotifyAddFailed,
       HandleAddedIntoIoTask, NotifyAdded, HandleIoEvtUsesSock, TaskErases, EraseIoObj,
       TaskInserts, InsertIoObj, TaskInsertFails, InsertFails, HandleIoError, HandleIoEvtTests
  <1>4. CASE UserStep \/ HelperStep
    BY <1>1, <1>4 DEF UserStep, HelperStep, Open, Close, SendDataTests, SendDataSends,
       HelperConnects, HelperGivesUp, HelperPops, HelperHandsOver
  <1> QED
    BY <1>1, <1>3, <1>4 DEF Next, vars

LEMMA InitType == Init => TypeOK /\ CallbackHasObj
  <1> SUFFICES ASSUME Init PROVE TypeOK /\ CallbackHasObj
    OBVIOUS
  <1> USE DEF Init
  <1>1. EpollTypeOK
    BY NoCopiesType DEF EpollInit, EpollTypeOK, Phases
  <1>2. aborted = "none"
    BY DEF EpollInit
  <1>3. TypeOK
    BY <1>1, <1>2 DEF TypeOK, States
  <1>4. CallbackHasObj
    BY DEF CallbackHasObj, EpollInit
  <1> QED
    BY <1>3, <1>4

(* Every variable keeps its type, whatever threads interleave: in          *)
(* particular no cache and no deque is ever asked for an endpoint it does  *)
(* not have (its count never drops below zero).                            *)
THEOREM TypeCorrect == Spec => []TypeOK
  <1>1. TypeOK /\ CallbackHasObj /\ [Next]_vars => (TypeOK /\ CallbackHasObj)'
    BY TypeStep, CallbackHasObjStep
  <1> QED
    BY <1>1, InitType, PTL DEF Spec

-----------------------------------------------------------------------------
LEMMA Tasks == "OT" \in IoTasks /\ "IT" \in IoTasks /\ "OT" # "IT"
  OBVIOUS

(* The part of IndInv about one endpoint.                                  *)
EndpointInv(e) ==
  /\ DueMatchesState(e)
  /\ HeldMatchesState(e)
  /\ SockMatchesState(e)
  /\ PendingMatchesState(e)
  /\ idle[e] + OneIf(popped = e) = OneIf(state[e] = "ADDED_INTO_HELPER")
  /\ phase["IT"] = "io" /\ cur["IT"] = e => state[e] \in {"OPENED", "DELING_FROM_IT"}
  /\ phase["OT"] = "io" /\ cur["OT"] = e
       => state[e] \in {"OPENED", "DELING_FROM_IT", "DELING_FROM_OT"}

Parts ==
  /\ \A t \in IoTasks : TaskInv(t)
  /\ \A e \in IoObjs : EndpointInv(e)

LEMMA IndInvParts ==
  IndInv <=> TypeOK /\ NoEraseMiss /\ (Alive => Parts)
  BY DEF IndInv, Parts, EndpointInv, IdleExact, IoKeepsEndpoint, Alive, OneIf

(* What a handler for one endpoint leaves as it is for another, x.         *)
SameFields(x) ==
  /\ state'[x] = state[x] /\ pending'[x] = pending[x]
  /\ sock'[x] = sock[x]   /\ idle'[x] = idle[x]
  /\ \A t \in IoTasks : (x \in armed'[t]) = (x \in armed[t])

Same(x) ==
  /\ SameFields(x)
  /\ \A t \in IoTasks : /\ AddCache'[t][x] = AddCache[t][x]
                        /\ DelCache'[t][x] = DelCache[t][x]

LEMMA EntryOther ==
  ASSUME NEW f \in Counts, NEW t \in IoTasks, NEW o \in IoObjs, NEW n,
         NEW s \in IoTasks, NEW x \in IoObjs, x # o
  PROVE  [f EXCEPT ![t][o] = n][s][x] = f[s][x]
  <1> f[t] \in [IoObjs -> Nat] /\ f[s] \in [IoObjs -> Nat]
    BY DEF Counts
  <1> QED
    BY DEF Counts

LEMMA EntrySame ==
  ASSUME NEW f \in Counts, NEW t \in IoTasks, NEW o \in IoObjs, NEW n,
         NEW s \in IoTasks
  PROVE  [f EXCEPT ![t][o] = n][s][o] = IF s = t THEN n ELSE f[s][o]
  <1> f[t] \in [IoObjs -> Nat] /\ f[s] \in [IoObjs -> Nat]
    BY DEF Counts
  <1> QED
    BY DEF Counts

LEMMA PostEvtFrame ==
  ASSUME HandlerTypeOK, NEW e \in IoObjs, NEW evt, PostEvt(e, evt),
         NEW x \in IoObjs, x # e
  PROVE  Same(x)
  <1> USE DEF HandlerTypeOK, Same, SameFields, Enter, Disarm, CloseSock, GiveUp, Abort, ClosedByUser, endpointVars, sharedVars
  <1>a. AddIoObj("OT", e) \/ AddIoObj("IT", e)
          => \A t \in IoTasks : AddCache'[t][x] = AddCache[t][x]
    <2>1. "OT" \in IoTasks /\ "IT" \in IoTasks /\ AddCache \in Counts
      BY DEF Counts
    <2> QED
      BY <2>1, EntryOther DEF AddIoObj
  <1>d. DelIoObj("OT", e) \/ DelIoObj("IT", e)
          => \A t \in IoTasks : DelCache'[t][x] = DelCache[t][x]
    <2>1. "OT" \in IoTasks /\ "IT" \in IoTasks /\ DelCache \in Counts
      BY DEF Counts
    <2> QED
      BY <2>1, EntryOther DEF DelIoObj
  <1>1. CASE UNCHANGED <<endpointVars, sharedVars>>
    BY <1>1
  <1>2. CASE HandlingClosedToAddedIntoHelper(e)
    BY <1>2 DEF HandlingClosedToAddedIntoHelper
  <1>3. CASE HandlingAddedIntoHelperToClosed(e)
    BY <1>3 DEF HandlingAddedIntoHelperToClosed
  <1>4. CASE HandlingAddedIntoHelperToAddingIntoOt(e)
    BY <1>4, <1>a DEF HandlingAddedIntoHelperToAddingIntoOt
  <1>5. CASE HandlingInternalErrWhileAddingIntoOt(e)
    BY <1>5 DEF HandlingInternalErrWhileAddingIntoOt
  <1>6. CASE RememberWhileAdding(e, evt)
    BY <1>6 DEF RememberWhileAdding
  <1>7. CASE HandlingAddedIntoOtToAddingIntoIt(e)
    BY <1>7, <1>a, <1>d DEF HandlingAddedIntoOtToAddingIntoIt
  <1>8. CASE HandlingAddingIntoItToOpened(e)
    BY <1>8, <1>d DEF HandlingAddingIntoItToOpened
  <1>9. CASE HandlingCloseOrErrWhileOpened(e)
    BY <1>9, <1>d DEF HandlingCloseOrErrWhileOpened
  <1>10. CASE HandlingDelingFromItToDelingFromOt(e)
    BY <1>10, <1>d DEF HandlingDelingFromItToDelingFromOt
  <1>11. CASE HandlingDelingFromOtToClosed(e)
    BY <1>11 DEF HandlingDelingFromOtToClosed
  <1> QED
    BY <1>1, <1>2, <1>3, <1>4, <1>5, <1>6, <1>7, <1>8, <1>9, <1>10, <1>11 DEF PostEvt

-----------------------------------------------------------------------------
(* The endpoints a step is not about.                                      *)

(* A task's view of an endpoint.                                           *)
At(t, p, x) == phase[t] = p /\ cur[t] = x

SameView(t, x) ==
  /\ AddsDue(t, x)' = AddsDue(t, x)
  /\ DelsDue(t, x)' = DelsDue(t, x)
  /\ \A p \in {"deled", "added"} : At(t, p, x)' = At(t, p, x)
  /\ At(t, "io", x)' => At(t, "io", x)
  /\ (x \in setIoObjs'[t]) = (x \in setIoObjs[t])
  /\ x \in arrEvts'[t] => x \in arrEvts[t] \cup armed[t]

LEMMA EndpointFrame ==
  ASSUME NEW x \in IoObjs, EndpointInv(x), SameFields(x), (popped' = x) = (popped = x),
         \A t \in IoTasks : SameView(t, x)
  PROVE  EndpointInv(x)'
  <1> USE Tasks
  <1>1. /\ state'[x] = state[x] /\ pending'[x] = pending[x]
        /\ sock'[x] = sock[x]   /\ idle'[x] = idle[x]
    BY DEF SameFields
  <1>2. /\ \A p \in {"deled", "added"} :
             /\ (phase'["OT"] = p /\ cur'["OT"] = x) = (phase["OT"] = p /\ cur["OT"] = x)
             /\ (phase'["IT"] = p /\ cur'["IT"] = x) = (phase["IT"] = p /\ cur["IT"] = x)
        /\ phase'["OT"] = "io" /\ cur'["OT"] = x => phase["OT"] = "io" /\ cur["OT"] = x
        /\ phase'["IT"] = "io" /\ cur'["IT"] = x => phase["IT"] = "io" /\ cur["IT"] = x
    BY DEF SameView, At
  <1>3. Stale(x)' = Stale(x)
    BY <1>1, <1>2 DEF Stale
  <1>4. DueMatchesState(x)'
    BY <1>1, <1>3 DEF DueMatchesState, SameView, EndpointInv, OneIf
  <1>5. HeldMatchesState(x)'
    BY <1>1, <1>2 DEF HeldMatchesState, SameView, EndpointInv, SameFields
  <1>6. SockMatchesState(x)'
    BY <1>1, <1>3 DEF SockMatchesState, EndpointInv
  <1> QED
    BY <1>1, <1>2, <1>4, <1>5, <1>6 DEF EndpointInv, PendingMatchesState, OneIf

AddPhases == {"adds", "addfailed", "added"}
DelPhases == {"dels", "deled"}

(* A task's step that works on one endpoint leaves its view of another.    *)
LEMMA ViewFrame ==
  ASSUME TypeOK, NEW t \in IoTasks, NEW x \in IoObjs, Same(x),
         NEW p \in Phases, NEW o \in IoObjs \cup {NoObj}, GoTo(t, p, o),
         cur[t] # x, o # x,
         (p \in AddPhases) = (phase[t] \in AddPhases),
         (p \in DelPhases) = (phase[t] \in DelPhases),
         \A s \in IoTasks : /\ vecTmp'[s][x] = vecTmp[s][x]
                            /\ (x \in setIoObjs'[s]) = (x \in setIoObjs[s])
                            /\ x \in arrEvts'[s] => x \in arrEvts[s]
  PROVE  \A s \in IoTasks : SameView(s, x)
  <1> SUFFICES ASSUME NEW s \in IoTasks PROVE SameView(s, x)
    OBVIOUS
  <1>1. phase \in [IoTasks -> Phases] /\ cur \in [IoTasks -> IoObjs \cup {NoObj}]
    BY DEF TypeOK, EpollTypeOK
  <1>2. /\ phase'[s] = IF s = t THEN p ELSE phase[s]
        /\ cur'[s] = IF s = t THEN o ELSE cur[s]
    BY <1>1 DEF GoTo
  <1>3. \A q : At(s, q, x)' = At(s, q, x)
    BY <1>2 DEF At
  <1>4. AddCache'[s][x] = AddCache[s][x] /\ DelCache'[s][x] = DelCache[s][x]
    BY DEF Same, SameFields
  <1>5. AddsDue(s, x)' = AddsDue(s, x)
    BY <1>2, <1>4 DEF AddsDue, AddsInHand, AddPhases
  <1>6. DelsDue(s, x)' = DelsDue(s, x)
    BY <1>2, <1>4 DEF DelsDue, DelsInHand, DelPhases
  <1> QED
    BY <1>3, <1>5, <1>6 DEF SameView

LEMMA OutsideFrame ==
  ASSUME NEW x \in IoObjs, EndpointInv(x), Same(x), (popped' = x) = (popped = x),
         UNCHANGED taskVars
  PROVE  EndpointInv(x)'
  <1>1. ASSUME NEW s \in IoTasks PROVE SameView(s, x)
    BY DEF SameView, Same, SameFields, At, AddsDue, DelsDue, AddsInHand, DelsInHand, taskVars
  <1> QED
    BY <1>1, EndpointFrame DEF Same

-----------------------------------------------------------------------------
(* What a handler does to its own endpoint.                                *)

LEMMA AddEffect ==
  ASSUME TypeOK, NEW e \in IoObjs, NEW t \in IoTasks, AddIoObj(t, e), NEW s \in IoTasks
  PROVE  AddCache'[s][e] = AddCache[s][e] + OneIf(s = t)
  <1>1. AddCache \in Counts
    BY DEF TypeOK, EpollTypeOK, Counts
  <1>2. AddCache'[s][e] = IF s = t THEN AddCache[t][e] + 1 ELSE AddCache[s][e]
    BY <1>1, EntrySame DEF AddIoObj
  <1>3. AddCache[s] \in [IoObjs -> Nat]
    BY <1>1 DEF Counts
  <1>4. AddCache[s][e] \in Nat
    BY <1>3
  <1> QED
    BY <1>2, <1>4 DEF OneIf

LEMMA DelEffect ==
  ASSUME TypeOK, NEW e \in IoObjs, NEW t \in IoTasks, DelIoObj(t, e), NEW s \in IoTasks
  PROVE  DelCache'[s][e] = DelCache[s][e] + OneIf(s = t)
  <1>1. DelCache \in Counts
    BY DEF TypeOK, EpollTypeOK, Counts
  <1>2. DelCache'[s][e] = IF s = t THEN DelCache[t][e] + 1 ELSE DelCache[s][e]
    BY <1>1, EntrySame DEF DelIoObj
  <1>3. DelCache[s] \in [IoObjs -> Nat]
    BY <1>1 DEF Counts
  <1>4. DelCache[s][e] \in Nat
    BY <1>3
  <1> QED
    BY <1>2, <1>4 DEF OneIf

LEMMA CountsAreNat ==
  ASSUME TypeOK, NEW e \in IoObjs, NEW t \in IoTasks
  PROVE  AddCache[t][e] \in Nat /\ DelCache[t][e] \in Nat /\ vecTmp[t][e] \in Nat
  <1>1. AddCache[t] \in [IoObjs -> Nat] /\ DelCache[t] \in [IoObjs -> Nat]
        /\ vecTmp[t] \in [IoObjs -> Nat]
    BY DEF TypeOK, EpollTypeOK
  <1> QED
    BY <1>1

LEMMA PostEvtArms ==
  ASSUME NEW e \in IoObjs, NEW evt, PostEvt(e, evt), NEW t \in IoTasks, TypeOK
  PROVE  armed'[t] \subseteq armed[t]
  BY DEF PostEvt, sharedVars, HandlingClosedToAddedIntoHelper,
     HandlingAddedIntoHelperToClosed, HandlingAddedIntoHelperToAddingIntoOt,
     HandlingInternalErrWhileAddingIntoOt, RememberWhileAdding,
     HandlingAddedIntoOtToAddingIntoIt, HandlingAddingIntoItToOpened,
     HandlingCloseOrErrWhileOpened, HandlingDelingFromItToDelingFromOt,
     HandlingDelingFromOtToClosed, Disarm, CloseSock, GiveUp, Abort, TypeOK, EpollTypeOK

(* The fields of e after a handler that puts it into state s; at and dt    *)
(* are the tasks it has been added to the add and delete cache of, or "none".   *)
Effect(e, s, p, k, i, at, dt) ==
  /\ state'[e] = s /\ pending'[e] = p /\ sock'[e] = k /\ idle'[e] = i
  /\ \A t \in IoTasks : /\ AddCache'[t][e] = AddCache[t][e] + OneIf(t = at)
                        /\ DelCache'[t][e] = DelCache[t][e] + OneIf(t = dt)
                        /\ e \in armed'[t] => e \in armed[t]
                        /\ s = "DELING_FROM_IT" => e \notin armed'[t]

(* The handlers, seen from the endpoint they run for.                      *)
Outcome(e, evt) ==
  \/ <<state[e], evt>> \notin Handled /\ Same(e)
  \/ /\ state[e] = "CLOSED" /\ evt = "OPEN"
     /\ Effect(e, "ADDED_INTO_HELPER", "NONE", sock[e], idle[e] + 1, "none", "none")
  \/ /\ state[e] = "ADDED_INTO_HELPER" /\ evt = "CLOSE"
     /\ sock[e] = "NULL" /\ idle[e] > 0
     /\ \/ Effect(e, "CLOSED", pending[e], "NULL", idle[e] - 1, "none", "none")
        \/ Effect(e, "ADDED_INTO_HELPER", "NONE", "NULL", idle[e], "none", "none")
  \/ /\ state[e] = "ADDED_INTO_HELPER" /\ evt = "CONNECTED" /\ sock[e] = "NULL"
     /\ Effect(e, "ADDING_INTO_OT", pending[e], "open", idle[e], "OT", "none")
  \/ /\ state[e] = "ADDING_INTO_OT" /\ evt = "INTERNAL_ERR"
     /\ Effect(e, "CLOSED", "INTERNAL_ERR", sock[e], idle[e], "none", "none")
  \/ /\ \/ state[e] = "ADDING_INTO_OT" /\ evt = "CLOSE"
        \/ state[e] = "ADDING_INTO_IT" /\ evt \in {"CLOSE", "INTERNAL_ERR"}
     /\ Effect(e, state[e], evt, sock[e], idle[e], "none", "none")
  \/ /\ \/ /\ state[e] = "ADDING_INTO_OT" /\ evt = "ADDED_INTO_OT"
           /\ pending[e] = "CLOSE"
        \/ /\ state[e] = "ADDING_INTO_IT" /\ evt = "ADDED_INTO_IT"
           /\ pending[e] # "NONE"
     /\ Effect(e, "DELING_FROM_OT", pending[e], "closed", idle[e], "none", "OT")
     /\ \A t \in IoTasks : e \notin armed'[t]
  \/ /\ state[e] = "ADDING_INTO_OT" /\ evt = "ADDED_INTO_OT" /\ pending[e] # "CLOSE"
     /\ Effect(e, "ADDING_INTO_IT", pending[e], sock[e], idle[e], "IT", "none")
  \/ /\ state[e] = "ADDING_INTO_IT" /\ evt = "ADDED_INTO_IT" /\ pending[e] = "NONE"
     /\ \E p \in {"NONE", "CLOSE"} :
          Effect(e, "OPENED", p, sock[e], idle[e], "none", "none")
  \/ /\ state[e] = "OPENED" /\ evt \in {"CLOSE", "INTERNAL_ERR"}
     /\ Effect(e, "DELING_FROM_IT", pending[e], "closed", idle[e], "none", "IT")
  \/ /\ state[e] = "DELING_FROM_IT" /\ evt = "DELED_FROM_IT"
     /\ Effect(e, "DELING_FROM_OT", pending[e], sock[e], idle[e], "none", "OT")
  \/ /\ state[e] = "DELING_FROM_OT" /\ evt = "DELED_FROM_OT"
     /\ \/ Effect(e, "CLOSED", pending[e], "NULL", idle[e], "none", "none")
        \/ Effect(e, "ADDED_INTO_HELPER", "NONE", "NULL", idle[e] + 1, "none", "none")

LEMMA HandlerOutcome ==
  ASSUME TypeOK, NEW e \in IoObjs, NEW evt, PostEvt(e, evt), aborted' = "none"
  PROVE  Outcome(e, evt)
  <1> USE Tasks, CountsAreNat, AddEffect, DelEffect
  <1> USE DEF OneIf
  <1>t. /\ state \in [IoObjs -> States] /\ idle \in [IoObjs -> Nat]
        /\ pending \in [IoObjs -> {"NONE", "CLOSE", "INTERNAL_ERR"}]
        /\ sock \in [IoObjs -> {"NULL", "open", "closed"}]
        /\ armed \in [IoTasks -> SUBSET IoObjs]
    BY DEF TypeOK, EpollTypeOK
  <1>1. CASE <<state[e], evt>> \notin Handled /\ UNCHANGED <<endpointVars, sharedVars>>
    BY <1>1 DEF endpointVars, sharedVars, Outcome, Same, SameFields
  <1>2. CASE state[e] = "CLOSED" /\ evt = "OPEN" /\ HandlingClosedToAddedIntoHelper(e)
    <2>1. Effect(e, "ADDED_INTO_HELPER", "NONE", sock[e], idle[e] + 1, "none", "none")
      BY <1>2, <1>t DEF HandlingClosedToAddedIntoHelper, Enter, sharedVars, Effect
    <2> QED
      BY <1>2, <2>1 DEF Outcome
  <1>3. CASE state[e] = "ADDED_INTO_HELPER" /\ evt = "CLOSE" /\ HandlingAddedIntoHelperToClosed(e)
    <2>1. sock[e] = "NULL" /\ idle[e] > 0 /\ ClosedByUser(e, [idle EXCEPT ![e] = @ - 1]) /\ UNCHANGED sharedVars
      BY <1>3 DEF HandlingAddedIntoHelperToClosed, Abort
    <2>2. \/ Effect(e, "CLOSED", pending[e], "NULL", idle[e] - 1, "none", "none")
          \/ Effect(e, "ADDED_INTO_HELPER", "NONE", "NULL", idle[e], "none", "none")
      BY <2>1, <1>t DEF ClosedByUser, Enter, sharedVars, Effect
    <2> QED
      BY <1>3, <2>1, <2>2 DEF Outcome
  <1>4. CASE state[e] = "ADDED_INTO_HELPER" /\ evt = "CONNECTED" /\ HandlingAddedIntoHelperToAddingIntoOt(e)
    <2>1. sock[e] = "NULL" /\ Effect(e, "ADDING_INTO_OT", pending[e], "open", idle[e], "OT", "none")
      BY <1>4, <1>t DEF HandlingAddedIntoHelperToAddingIntoOt, Abort, Enter, Effect
    <2> QED
      BY <1>4, <2>1 DEF Outcome
  <1>5. CASE state[e] = "ADDING_INTO_OT" /\ evt = "INTERNAL_ERR" /\ HandlingInternalErrWhileAddingIntoOt(e)
    <2>1. Effect(e, "CLOSED", "INTERNAL_ERR", sock[e], idle[e], "none", "none")
      BY <1>5, <1>t DEF HandlingInternalErrWhileAddingIntoOt, Enter, sharedVars, Effect
    <2> QED
      BY <1>5, <2>1 DEF Outcome
  <1>6. CASE /\ \/ state[e] = "ADDING_INTO_OT" /\ evt = "CLOSE"
                \/ state[e] = "ADDING_INTO_IT" /\ evt \in {"CLOSE", "INTERNAL_ERR"}
             /\ RememberWhileAdding(e, evt)
    <2>1. Effect(e, state[e], evt, sock[e], idle[e], "none", "none")
      BY <1>6, <1>t DEF RememberWhileAdding, sharedVars, Effect
    <2> QED
      BY <1>6, <2>1 DEF Outcome
  <1>g. ASSUME GiveUp(e)
        PROVE  /\ Effect(e, "DELING_FROM_OT", pending[e], "closed", idle[e], "none", "OT")
               /\ \A t \in IoTasks : e \notin armed'[t]
    BY <1>g, <1>t DEF GiveUp, CloseSock, Disarm, Enter, Effect
  <1>7. CASE state[e] = "ADDING_INTO_OT" /\ evt = "ADDED_INTO_OT" /\ HandlingAddedIntoOtToAddingIntoIt(e)
    <2>1. pending[e] # "CLOSE" => Effect(e, "ADDING_INTO_IT", pending[e], sock[e], idle[e], "IT", "none")
      BY <1>7, <1>t DEF HandlingAddedIntoOtToAddingIntoIt, Enter, Effect
    <2> QED
      BY <1>7, <1>g, <2>1 DEF Outcome, HandlingAddedIntoOtToAddingIntoIt
  <1>8. CASE state[e] = "ADDING_INTO_IT" /\ evt = "ADDED_INTO_IT" /\ HandlingAddingIntoItToOpened(e)
    <2>1. pending[e] = "NONE" => \E p \in {"NONE", "CLOSE"} : Effect(e, "OPENED", p, sock[e], idle[e], "none", "none")
      BY <1>8, <1>t DEF HandlingAddingIntoItToOpened, Enter, Effect, sharedVars
    <2> QED
      BY <1>8, <1>g, <2>1 DEF Outcome, HandlingAddingIntoItToOpened
  <1>9. CASE state[e] = "OPENED" /\ evt \in {"CLOSE", "INTERNAL_ERR"} /\ HandlingCloseOrErrWhileOpened(e)
    <2>1. Effect(e, "DELING_FROM_IT", pending[e], "closed", idle[e], "none", "IT")
      BY <1>9, <1>t DEF HandlingCloseOrErrWhileOpened, CloseSock, Disarm, Enter, Effect
    <2> QED
      BY <1>9, <2>1 DEF Outcome
  <1>10. CASE state[e] = "DELING_FROM_IT" /\ evt = "DELED_FROM_IT" /\ HandlingDelingFromItToDelingFromOt(e)
    <2>1. Effect(e, "DELING_FROM_OT", pending[e], sock[e], idle[e], "none", "OT")
      BY <1>10, <1>t DEF HandlingDelingFromItToDelingFromOt, Enter, Effect
    <2> QED
      BY <1>10, <2>1 DEF Outcome
  <1>11. CASE state[e] = "DELING_FROM_OT" /\ evt = "DELED_FROM_OT" /\ HandlingDelingFromOtToClosed(e)
    <2>1. \/ Effect(e, "CLOSED", pending[e], "NULL", idle[e], "none", "none")
          \/ Effect(e, "ADDED_INTO_HELPER", "NONE", "NULL", idle[e] + 1, "none", "none")
      BY <1>11, <1>t DEF HandlingDelingFromOtToClosed, ClosedByUser, Enter, sharedVars, Effect
    <2> QED
      BY <1>11, <2>1 DEF Outcome
  <1> QED
    BY <1>1, <1>2, <1>3, <1>4, <1>5, <1>6, <1>7, <1>8, <1>9, <1>10, <1>11 DEF PostEvt

-----------------------------------------------------------------------------
(* The endpoint a step is about.                                           *)

LEMMA InHandType ==
  ASSUME TypeOK, NEW e \in IoObjs, NEW t \in IoTasks
  PROVE  AddsInHand(t, e) \in Nat /\ DelsInHand(t, e) \in Nat
  BY CountsAreNat DEF AddsInHand, DelsInHand

LEMMA DueEffect ==
  ASSUME TypeOK, NEW e \in IoObjs, NEW t \in IoTasks,
         NEW s, NEW p, NEW k, NEW i, NEW at, NEW dt,
         Effect(e, s, p, k, i, at, dt),
         NEW a \in Int, AddsInHand(t, e)' = AddsInHand(t, e) + a,
         NEW d \in Int, DelsInHand(t, e)' = DelsInHand(t, e) + d
  PROVE  /\ AddsDue(t, e)' = AddsDue(t, e) + a + OneIf(t = at)
         /\ DelsDue(t, e)' = DelsDue(t, e) + d + OneIf(t = dt)
         /\ AddsDue(t, e) \in Nat /\ DelsDue(t, e) \in Nat
  <1>1. /\ AddCache'[t][e] = AddCache[t][e] + OneIf(t = at)
        /\ DelCache'[t][e] = DelCache[t][e] + OneIf(t = dt)
    BY DEF Effect
  <1>2. /\ AddCache[t][e] \in Nat /\ AddsInHand(t, e) \in Nat /\ OneIf(t = at) \in Nat
        /\ DelCache[t][e] \in Nat /\ DelsInHand(t, e) \in Nat /\ OneIf(t = dt) \in Nat
    BY CountsAreNat, InHandType DEF OneIf
  <1> QED
    BY <1>1, <1>2 DEF AddsDue, DelsDue

(* A task is in a callback for e only if the state of e says so.           *)
LEMMA WorksOn ==
  ASSUME TypeOK, NEW e \in IoObjs, EndpointInv(e)
  PROVE  /\ phase["OT"] = "deled" /\ cur["OT"] = e => state[e] = "DELING_FROM_OT"
         /\ phase["IT"] = "deled" /\ cur["IT"] = e => state[e] = "DELING_FROM_IT"
         /\ phase["OT"] = "added" /\ cur["OT"] = e => state[e] = "ADDING_INTO_OT" \/ Stale(e)
         /\ phase["OT"] = "addfailed" /\ cur["OT"] = e => state[e] = "ADDING_INTO_OT"
         /\ phase["IT"] \in {"addfailed", "added"} /\ cur["IT"] = e => state[e] = "ADDING_INTO_IT"
  <1> USE Tasks
  <1>1. ASSUME NEW t \in IoTasks, phase[t] = "deled", cur[t] = e PROVE DelsDue(t, e) > 0
    BY <1>1, CountsAreNat DEF DelsDue, DelsInHand
  <1>2. ASSUME NEW t \in IoTasks, phase[t] \in {"addfailed", "added"}, cur[t] = e PROVE AddsDue(t, e) > 0
    BY <1>2, CountsAreNat DEF AddsDue, AddsInHand
  <1>3. phase["OT"] = "deled" /\ cur["OT"] = e => state[e] = "DELING_FROM_OT"
    BY <1>1 DEF EndpointInv, DueMatchesState, OneIf
  <1>4. phase["IT"] = "deled" /\ cur["IT"] = e => state[e] = "DELING_FROM_IT"
    BY <1>1 DEF EndpointInv, DueMatchesState, OneIf
  <1>5. phase["OT"] \in {"addfailed", "added"} /\ cur["OT"] = e => state[e] = "ADDING_INTO_OT" \/ Stale(e)
    BY <1>2 DEF EndpointInv, DueMatchesState, OneIf
  <1>6. phase["IT"] \in {"addfailed", "added"} /\ cur["IT"] = e => state[e] = "ADDING_INTO_IT"
    BY <1>2 DEF EndpointInv, DueMatchesState, OneIf
  <1> QED
    BY <1>3, <1>4, <1>5, <1>6 DEF Stale

(* close(), open() and handle_connected: no task moves.                    *)
LEMMA OutsideCall ==
  ASSUME TypeOK, NEW e \in IoObjs, EndpointInv(e), UNCHANGED taskVars,
         NEW evt, Outcome(e, evt),
         \/ evt \in {"OPEN", "CLOSE"} /\ popped' = popped
         \/ evt = "CONNECTED" /\ popped = e /\ popped' = NoObj
  PROVE  EndpointInv(e)'
  <1> USE Tasks
  <1>t. idle[e] \in Nat /\ e # NoObj
    BY DEF TypeOK
  <1>u. phase' = phase /\ cur' = cur /\ setIoObjs' = setIoObjs /\ arrEvts' = arrEvts /\ vecTmp' = vecTmp
    BY DEF taskVars
  <1>f. ASSUME NEW s, NEW p, NEW k, NEW i, NEW at, NEW dt, Effect(e, s, p, k, i, at, dt)
        PROVE  /\ AddsDue("OT", e)' = AddsDue("OT", e) + OneIf("OT" = at)
               /\ AddsDue("IT", e)' = AddsDue("IT", e) + OneIf("IT" = at)
               /\ DelsDue("OT", e)' = DelsDue("OT", e) + OneIf("OT" = dt)
               /\ DelsDue("IT", e)' = DelsDue("IT", e) + OneIf("IT" = dt)
    <2>1. ASSUME NEW t \in IoTasks
          PROVE  /\ AddsDue(t, e)' = AddsDue(t, e) + OneIf(t = at)
                 /\ DelsDue(t, e)' = DelsDue(t, e) + OneIf(t = dt)
      <3>1. AddsInHand(t, e)' = AddsInHand(t, e) + 0 /\ DelsInHand(t, e)' = DelsInHand(t, e) + 0
        BY <1>u, CountsAreNat DEF AddsInHand, DelsInHand
      <3> QED
        BY <1>f, <3>1, DueEffect DEF OneIf
    <2> QED
      BY <2>1
  <1>1. CASE Same(e) /\ evt # "CONNECTED"
    BY <1>1, OutsideFrame
  <1>n. /\ AddsDue("OT", e) \in Nat /\ AddsDue("IT", e) \in Nat
        /\ DelsDue("OT", e) \in Nat /\ DelsDue("IT", e) \in Nat
    BY DEF EndpointInv, DueMatchesState, OneIf
  <1> DEFINE Moves(s, p, k, i, at, dt) ==
        /\ state'[e] = s /\ pending'[e] = p /\ sock'[e] = k /\ idle'[e] = i
        /\ AddsDue("OT", e)' = AddsDue("OT", e) + OneIf("OT" = at)
        /\ AddsDue("IT", e)' = AddsDue("IT", e) + OneIf("IT" = at)
        /\ DelsDue("OT", e)' = DelsDue("OT", e) + OneIf("OT" = dt)
        /\ DelsDue("IT", e)' = DelsDue("IT", e) + OneIf("IT" = dt)
        /\ e \in armed'["IT"] => e \in armed["IT"]
  <1>m. ASSUME NEW s, NEW p, NEW k, NEW i, NEW at, NEW dt, Effect(e, s, p, k, i, at, dt)
        PROVE  Moves(s, p, k, i, at, dt)
    <2>1. /\ state'[e] = s /\ pending'[e] = p /\ sock'[e] = k /\ idle'[e] = i
          /\ e \in armed'["IT"] => e \in armed["IT"]
      BY <1>m DEF Effect
    <2> QED
      BY <1>m, <1>f, <2>1
  <1> HIDE DEF Moves
  <1> USE <1>t, <1>u, <1>n DEF Moves, OneIf
  <1>2. CASE /\ state[e] = "CLOSED" /\ evt = "OPEN"
             /\ Effect(e, "ADDED_INTO_HELPER", "NONE", sock[e], idle[e] + 1, "none", "none")
    <2> Moves("ADDED_INTO_HELPER", "NONE", sock[e], idle[e] + 1, "none", "none")
      BY <1>2, <1>m
    <2>1. DueMatchesState(e)'
      BY <1>2 DEF EndpointInv, DueMatchesState, Stale
    <2>2. HeldMatchesState(e)'
      BY <1>2, WorksOn DEF EndpointInv, HeldMatchesState
    <2>3. SockMatchesState(e)'
      BY <1>2 DEF EndpointInv, SockMatchesState, Stale
    <2> QED
      BY <1>2, <2>1, <2>2, <2>3 DEF EndpointInv, PendingMatchesState
  <1>3. CASE /\ state[e] = "ADDED_INTO_HELPER" /\ evt = "CLOSE" /\ idle[e] > 0 /\ sock[e] = "NULL"
             /\ Effect(e, "CLOSED", pending[e], "NULL", idle[e] - 1, "none", "none")
    <2> Moves("CLOSED", pending[e], "NULL", idle[e] - 1, "none", "none")
      BY <1>3, <1>m
    <2>1. DueMatchesState(e)'
      BY <1>3 DEF EndpointInv, DueMatchesState, Stale
    <2>2. HeldMatchesState(e)'
      BY <1>3, WorksOn DEF EndpointInv, HeldMatchesState
    <2>3. SockMatchesState(e)'
      BY <1>3 DEF EndpointInv, SockMatchesState, Stale
    <2> QED
      BY <1>3, <2>1, <2>2, <2>3 DEF EndpointInv, PendingMatchesState
  <1>4. CASE /\ state[e] = "ADDED_INTO_HELPER" /\ evt = "CLOSE" /\ idle[e] > 0 /\ sock[e] = "NULL"
             /\ Effect(e, "ADDED_INTO_HELPER", "NONE", "NULL", idle[e], "none", "none")
    <2> Moves("ADDED_INTO_HELPER", "NONE", "NULL", idle[e], "none", "none")
      BY <1>4, <1>m
    <2>1. DueMatchesState(e)'
      BY <1>4 DEF EndpointInv, DueMatchesState, Stale
    <2>2. HeldMatchesState(e)'
      BY <1>4, WorksOn DEF EndpointInv, HeldMatchesState
    <2>3. SockMatchesState(e)'
      BY <1>4 DEF EndpointInv, SockMatchesState, Stale
    <2> QED
      BY <1>4, <2>1, <2>2, <2>3 DEF EndpointInv, PendingMatchesState
  <1>5. CASE /\ state[e] = "ADDED_INTO_HELPER" /\ evt = "CONNECTED" /\ sock[e] = "NULL"
             /\ Effect(e, "ADDING_INTO_OT", pending[e], "open", idle[e], "OT", "none")
    <2> Moves("ADDING_INTO_OT", pending[e], "open", idle[e], "OT", "none")
      BY <1>5, <1>m
    <2> ~ Stale(e)
      BY <1>5 DEF EndpointInv, SockMatchesState
    <2>1. DueMatchesState(e)'
      BY <1>5 DEF EndpointInv, DueMatchesState, Stale
    <2>2. HeldMatchesState(e)'
      BY <1>5, WorksOn DEF EndpointInv, HeldMatchesState, Stale
    <2>3. SockMatchesState(e)'
      BY <1>5 DEF EndpointInv, SockMatchesState, Stale
    <2> QED
      BY <1>5, <2>1, <2>2, <2>3 DEF EndpointInv, PendingMatchesState
  <1>6. CASE /\ state[e] \in {"ADDING_INTO_OT", "ADDING_INTO_IT"} /\ evt = "CLOSE"
             /\ Effect(e, state[e], evt, sock[e], idle[e], "none", "none")
    <2> Moves(state[e], evt, sock[e], idle[e], "none", "none")
      BY <1>6, <1>m
    <2>1. DueMatchesState(e)'
      BY <1>6 DEF EndpointInv, DueMatchesState, Stale
    <2>2. HeldMatchesState(e)'
      BY <1>6, WorksOn DEF EndpointInv, HeldMatchesState
    <2>3. SockMatchesState(e)'
      BY <1>6 DEF EndpointInv, SockMatchesState, Stale
    <2> QED
      BY <1>6, <2>1, <2>2, <2>3 DEF EndpointInv, PendingMatchesState
  <1>7. CASE /\ state[e] = "OPENED" /\ evt = "CLOSE"
             /\ Effect(e, "DELING_FROM_IT", pending[e], "closed", idle[e], "none", "IT")
    <2> Moves("DELING_FROM_IT", pending[e], "closed", idle[e], "none", "IT")
      BY <1>7, <1>m
    <2>1. DueMatchesState(e)'
      BY <1>7 DEF EndpointInv, DueMatchesState, Stale
    <2>2. HeldMatchesState(e)'
      BY <1>7, WorksOn DEF EndpointInv, HeldMatchesState
    <2>3. SockMatchesState(e)'
      BY <1>7 DEF EndpointInv, SockMatchesState, Stale
    <2> QED
      BY <1>7, <2>1, <2>2, <2>3 DEF EndpointInv, PendingMatchesState
  <1>8. CASE Same(e) /\ evt = "CONNECTED" /\ <<state[e], evt>> \notin Handled
    <2>1. state[e] = "ADDED_INTO_HELPER"
      BY <1>8 DEF EndpointInv
    <2> QED
      BY <1>8, <2>1 DEF Handled
  <1> QED
    BY <1>1, <1>2, <1>3, <1>4, <1>5, <1>6, <1>7, <1>8 DEF Outcome

(* A callback moves the task it runs in, and its handler the endpoint:     *)
(* what changes of the endpoint, dues included.                            *)
Moves(e, s, p, k, i, addsOt, addsIt, delsOt, delsIt) ==
  /\ state'[e] = s /\ pending'[e] = p /\ sock'[e] = k /\ idle'[e] = i
  /\ AddsDue("OT", e)' = AddsDue("OT", e) + addsOt
  /\ AddsDue("IT", e)' = AddsDue("IT", e) + addsIt
  /\ DelsDue("OT", e)' = DelsDue("OT", e) + delsOt
  /\ DelsDue("IT", e)' = DelsDue("IT", e) + delsIt
  /\ AddsDue("OT", e) \in Nat /\ AddsDue("IT", e) \in Nat
  /\ DelsDue("OT", e) \in Nat /\ DelsDue("IT", e) \in Nat
  /\ e \in armed'["IT"] => e \in armed["IT"]
  /\ s = "DELING_FROM_IT" => e \notin armed'["IT"]

LEMMA CallbackMoves ==
  ASSUME TypeOK, NEW e \in IoObjs, NEW s, NEW p, NEW k, NEW i, NEW at, NEW dt,
         Effect(e, s, p, k, i, at, dt),
         NEW ao \in Int, AddsInHand("OT", e)' = AddsInHand("OT", e) + ao,
         NEW ai \in Int, AddsInHand("IT", e)' = AddsInHand("IT", e) + ai,
         NEW do \in Int, DelsInHand("OT", e)' = DelsInHand("OT", e) + do,
         NEW di \in Int, DelsInHand("IT", e)' = DelsInHand("IT", e) + di
  PROVE  Moves(e, s, p, k, i, ao + OneIf("OT" = at), ai + OneIf("IT" = at),
                              do + OneIf("OT" = dt), di + OneIf("IT" = dt))
  <1> USE Tasks
  <1>1. /\ AddsDue("OT", e)' = AddsDue("OT", e) + ao + OneIf("OT" = at)
        /\ DelsDue("OT", e)' = DelsDue("OT", e) + do + OneIf("OT" = dt)
        /\ AddsDue("OT", e) \in Nat /\ DelsDue("OT", e) \in Nat
    BY DueEffect
  <1>2. /\ AddsDue("IT", e)' = AddsDue("IT", e) + ai + OneIf("IT" = at)
        /\ DelsDue("IT", e)' = DelsDue("IT", e) + di + OneIf("IT" = dt)
        /\ AddsDue("IT", e) \in Nat /\ DelsDue("IT", e) \in Nat
    BY DueEffect
  <1>3. /\ state'[e] = s /\ pending'[e] = p /\ sock'[e] = k /\ idle'[e] = i
        /\ e \in armed'["IT"] => e \in armed["IT"]
        /\ s = "DELING_FROM_IT" => e \notin armed'["IT"]
    BY DEF Effect
  <1>4. OneIf("OT" = at) \in Nat /\ OneIf("IT" = at) \in Nat /\ OneIf("OT" = dt) \in Nat /\ OneIf("IT" = dt) \in Nat
    BY DEF OneIf
  <1> QED
    BY <1>1, <1>2, <1>3, <1>4 DEF Moves

LEMMA DeledOt ==
  ASSUME TypeOK, NEW e \in IoObjs, EndpointInv(e), popped' = popped,
         phase["OT"] = "deled", cur["OT"] = e, GoTo("OT", "dels", NoObj),
         UNCHANGED <<setIoObjs, vecTmp, arrEvts>>, Outcome(e, "DELED_FROM_OT")
  PROVE  EndpointInv(e)'
  <1> USE Tasks
  <1>p. /\ phase'["OT"] = "dels" /\ cur'["OT"] = NoObj
        /\ phase'["IT"] = phase["IT"] /\ cur'["IT"] = cur["IT"]
        /\ idle[e] \in Nat /\ e # NoObj
        /\ setIoObjs' = setIoObjs /\ vecTmp' = vecTmp /\ arrEvts' = arrEvts
    BY DEF GoTo, TypeOK, EpollTypeOK
  <1>h. /\ AddsInHand("OT", e)' = AddsInHand("OT", e) + 0
        /\ AddsInHand("IT", e)' = AddsInHand("IT", e) + 0
        /\ DelsInHand("OT", e)' = DelsInHand("OT", e) + (0 - 1)
        /\ DelsInHand("IT", e)' = DelsInHand("IT", e) + 0
        /\ DelsInHand("OT", e) > 0
    BY <1>p, CountsAreNat DEF AddsInHand, DelsInHand
  <1>s. state[e] = "DELING_FROM_OT"
    BY <1>h, InHandType, CountsAreNat DEF EndpointInv, DueMatchesState, DelsDue, OneIf
  <1>m. ASSUME NEW s, NEW p, NEW k, NEW i, NEW at, NEW dt, Effect(e, s, p, k, i, at, dt)
        PROVE  Moves(e, s, p, k, i, 0 + OneIf("OT" = at), 0 + OneIf("IT" = at),
                                    (0 - 1) + OneIf("OT" = dt), 0 + OneIf("IT" = dt))
    BY <1>m, <1>h, CallbackMoves
  <1>1. CASE Effect(e, "CLOSED", pending[e], "NULL", idle[e], "none", "none")
    <2> Moves(e, "CLOSED", pending[e], "NULL", idle[e], 0, 0, 0 - 1, 0)
      BY <1>1, <1>m DEF OneIf
    <2>1. DueMatchesState(e)'
      BY <1>p, <1>s DEF EndpointInv, DueMatchesState, Stale, Moves, OneIf
    <2>2. HeldMatchesState(e)'
      BY <1>p, <1>s, WorksOn DEF EndpointInv, HeldMatchesState, Stale, Moves
    <2>3. SockMatchesState(e)'
      BY <1>p, <1>s DEF EndpointInv, SockMatchesState, Stale, Moves
    <2> QED
      BY <1>p, <1>s, <2>1, <2>2, <2>3 DEF EndpointInv, PendingMatchesState, Moves, OneIf
  <1>2. CASE Effect(e, "ADDED_INTO_HELPER", "NONE", "NULL", idle[e] + 1, "none", "none")
    <2> Moves(e, "ADDED_INTO_HELPER", "NONE", "NULL", idle[e] + 1, 0, 0, 0 - 1, 0)
      BY <1>2, <1>m DEF OneIf
    <2>1. DueMatchesState(e)'
      BY <1>p, <1>s DEF EndpointInv, DueMatchesState, Stale, Moves, OneIf
    <2>2. HeldMatchesState(e)'
      BY <1>p, <1>s, WorksOn DEF EndpointInv, HeldMatchesState, Stale, Moves
    <2>3. SockMatchesState(e)'
      BY <1>p, <1>s DEF EndpointInv, SockMatchesState, Stale, Moves
    <2> QED
      BY <1>p, <1>s, <2>1, <2>2, <2>3 DEF EndpointInv, PendingMatchesState, Moves, OneIf
  <1> QED
    BY <1>s, <1>1, <1>2 DEF Outcome, Handled

LEMMA DeledIt ==
  ASSUME TypeOK, NEW e \in IoObjs, EndpointInv(e), popped' = popped,
         TaskInv("OT"), TaskInv("IT"),
         phase["IT"] = "deled", cur["IT"] = e, GoTo("IT", "dels", NoObj),
         UNCHANGED <<setIoObjs, vecTmp, arrEvts>>, Outcome(e, "DELED_FROM_IT")
  PROVE  EndpointInv(e)'
  <1> USE Tasks
  <1>p. /\ phase'["IT"] = "dels" /\ cur'["IT"] = NoObj
        /\ phase'["OT"] = phase["OT"] /\ cur'["OT"] = cur["OT"]
        /\ idle[e] \in Nat /\ e # NoObj
        /\ setIoObjs' = setIoObjs /\ vecTmp' = vecTmp /\ arrEvts' = arrEvts
    BY DEF GoTo, TypeOK, EpollTypeOK
  <1>h. /\ AddsInHand("OT", e)' = AddsInHand("OT", e) + 0
        /\ AddsInHand("IT", e)' = AddsInHand("IT", e) + 0
        /\ DelsInHand("OT", e)' = DelsInHand("OT", e) + 0
        /\ DelsInHand("IT", e)' = DelsInHand("IT", e) + (0 - 1)
        /\ DelsInHand("IT", e) > 0
    BY <1>p, CountsAreNat DEF AddsInHand, DelsInHand
  <1>s. state[e] = "DELING_FROM_IT"
    BY WorksOn DEF Stale
  <1>m. ASSUME NEW s, NEW p, NEW k, NEW i, NEW at, NEW dt, Effect(e, s, p, k, i, at, dt)
        PROVE  Moves(e, s, p, k, i, 0 + OneIf("OT" = at), 0 + OneIf("IT" = at),
                                    0 + OneIf("OT" = dt), (0 - 1) + OneIf("IT" = dt))
    BY <1>m, <1>h, CallbackMoves
  <1>1. CASE Effect(e, "DELING_FROM_OT", pending[e], sock[e], idle[e], "none", "OT")
    <2> Moves(e, "DELING_FROM_OT", pending[e], sock[e], idle[e], 0, 0, 1, 0 - 1)
      BY <1>1, <1>m DEF OneIf
    <2>1. DueMatchesState(e)'
      BY <1>p, <1>s, <1>1 DEF EndpointInv, DueMatchesState, Stale, Moves, OneIf
    <2>2. HeldMatchesState(e)'
      BY <1>p, <1>s, <1>1, WorksOn DEF EndpointInv, HeldMatchesState, Stale, Moves
    <2>3. SockMatchesState(e)'
      BY <1>p, <1>s, <1>1 DEF EndpointInv, SockMatchesState, Stale, Moves
    <2> QED
      BY <1>p, <1>s, <1>1, <2>1, <2>2, <2>3 DEF EndpointInv, PendingMatchesState, Moves, OneIf
  <1> QED
    BY <1>s, <1>1 DEF Outcome, Handled

LEMMA AddFailedOt ==
  ASSUME TypeOK, NEW e \in IoObjs, EndpointInv(e), popped' = popped,
         TaskInv("OT"), TaskInv("IT"),
         phase["OT"] = "addfailed", cur["OT"] = e, GoTo("OT", "added", e),
         UNCHANGED <<setIoObjs, vecTmp, arrEvts>>, Outcome(e, "INTERNAL_ERR")
  PROVE  EndpointInv(e)'
  <1> USE Tasks
  <1>p. /\ phase'["OT"] = "added" /\ cur'["OT"] = e
        /\ phase'["IT"] = phase["IT"] /\ cur'["IT"] = cur["IT"]
        /\ idle[e] \in Nat /\ e # NoObj
        /\ setIoObjs' = setIoObjs /\ vecTmp' = vecTmp /\ arrEvts' = arrEvts
    BY DEF GoTo, TypeOK, EpollTypeOK
  <1>h. /\ AddsInHand("OT", e)' = AddsInHand("OT", e) + 0
        /\ AddsInHand("IT", e)' = AddsInHand("IT", e) + 0
        /\ DelsInHand("OT", e)' = DelsInHand("OT", e) + 0
        /\ DelsInHand("IT", e)' = DelsInHand("IT", e) + 0
        /\ AddsInHand("OT", e) > 0
    BY <1>p, CountsAreNat DEF AddsInHand, DelsInHand
  <1>s. state[e] = "ADDING_INTO_OT"
    BY WorksOn DEF Stale
  <1>m. ASSUME NEW s, NEW p, NEW k, NEW i, NEW at, NEW dt, Effect(e, s, p, k, i, at, dt)
        PROVE  Moves(e, s, p, k, i, 0 + OneIf("OT" = at), 0 + OneIf("IT" = at),
                                    0 + OneIf("OT" = dt), 0 + OneIf("IT" = dt))
    BY <1>m, <1>h, CallbackMoves
  <1>1. CASE Effect(e, "CLOSED", "INTERNAL_ERR", sock[e], idle[e], "none", "none")
    <2> Moves(e, "CLOSED", "INTERNAL_ERR", sock[e], idle[e], 0, 0, 0, 0)
      BY <1>1, <1>m DEF OneIf
    <2>1. DueMatchesState(e)'
      BY <1>p, <1>s, <1>1 DEF EndpointInv, DueMatchesState, Stale, Moves, OneIf
    <2>2. HeldMatchesState(e)'
      BY <1>p, <1>s, <1>1, WorksOn DEF EndpointInv, HeldMatchesState, Stale, Moves
    <2>3. SockMatchesState(e)'
      BY <1>p, <1>s, <1>1 DEF EndpointInv, SockMatchesState, Stale, Moves
    <2> QED
      BY <1>p, <1>s, <1>1, <2>1, <2>2, <2>3 DEF EndpointInv, PendingMatchesState, Moves, OneIf
  <1> QED
    BY <1>s, <1>1 DEF Outcome, Handled

LEMMA AddFailedIt ==
  ASSUME TypeOK, NEW e \in IoObjs, EndpointInv(e), popped' = popped,
         TaskInv("OT"), TaskInv("IT"),
         phase["IT"] = "addfailed", cur["IT"] = e, GoTo("IT", "added", e),
         UNCHANGED <<setIoObjs, vecTmp, arrEvts>>, Outcome(e, "INTERNAL_ERR")
  PROVE  EndpointInv(e)'
  <1> USE Tasks
  <1>p. /\ phase'["IT"] = "added" /\ cur'["IT"] = e
        /\ phase'["OT"] = phase["OT"] /\ cur'["OT"] = cur["OT"]
        /\ idle[e] \in Nat /\ e # NoObj
        /\ setIoObjs' = setIoObjs /\ vecTmp' = vecTmp /\ arrEvts' = arrEvts
    BY DEF GoTo, TypeOK, EpollTypeOK
  <1>h. /\ AddsInHand("OT", e)' = AddsInHand("OT", e) + 0
        /\ AddsInHand("IT", e)' = AddsInHand("IT", e) + 0
        /\ DelsInHand("OT", e)' = DelsInHand("OT", e) + 0
        /\ DelsInHand("IT", e)' = DelsInHand("IT", e) + 0
        /\ AddsInHand("IT", e) > 0
    BY <1>p, CountsAreNat DEF AddsInHand, DelsInHand
  <1>s. state[e] = "ADDING_INTO_IT"
    BY WorksOn DEF Stale
  <1>m. ASSUME NEW s, NEW p, NEW k, NEW i, NEW at, NEW dt, Effect(e, s, p, k, i, at, dt)
        PROVE  Moves(e, s, p, k, i, 0 + OneIf("OT" = at), 0 + OneIf("IT" = at),
                                    0 + OneIf("OT" = dt), 0 + OneIf("IT" = dt))
    BY <1>m, <1>h, CallbackMoves
  <1>1. CASE Effect(e, state[e], "INTERNAL_ERR", sock[e], idle[e], "none", "none")
    <2> Moves(e, state[e], "INTERNAL_ERR", sock[e], idle[e], 0, 0, 0, 0)
      BY <1>1, <1>m DEF OneIf
    <2>1. DueMatchesState(e)'
      BY <1>p, <1>s, <1>1 DEF EndpointInv, DueMatchesState, Stale, Moves, OneIf
    <2>2. HeldMatchesState(e)'
      BY <1>p, <1>s, <1>1, WorksOn DEF EndpointInv, HeldMatchesState, Stale, Moves
    <2>3. SockMatchesState(e)'
      BY <1>p, <1>s, <1>1 DEF EndpointInv, SockMatchesState, Stale, Moves
    <2> QED
      BY <1>p, <1>s, <1>1, <2>1, <2>2, <2>3 DEF EndpointInv, PendingMatchesState, Moves, OneIf
  <1> QED
    BY <1>s, <1>1 DEF Outcome, Handled

LEMMA AddedOt ==
  ASSUME TypeOK, NEW e \in IoObjs, EndpointInv(e), popped' = popped,
         TaskInv("OT"), TaskInv("IT"),
         phase["OT"] = "added", cur["OT"] = e, GoTo("OT", "adds", NoObj),
         UNCHANGED <<setIoObjs, vecTmp, arrEvts>>, Outcome(e, "ADDED_INTO_OT")
  PROVE  EndpointInv(e)'
  <1> USE Tasks
  <1>p. /\ phase'["OT"] = "adds" /\ cur'["OT"] = NoObj
        /\ phase'["IT"] = phase["IT"] /\ cur'["IT"] = cur["IT"]
        /\ idle[e] \in Nat /\ e # NoObj
        /\ setIoObjs' = setIoObjs /\ vecTmp' = vecTmp /\ arrEvts' = arrEvts
    BY DEF GoTo, TypeOK, EpollTypeOK
  <1>h. /\ AddsInHand("OT", e)' = AddsInHand("OT", e) + (0 - 1)
        /\ AddsInHand("IT", e)' = AddsInHand("IT", e) + 0
        /\ DelsInHand("OT", e)' = DelsInHand("OT", e) + 0
        /\ DelsInHand("IT", e)' = DelsInHand("IT", e) + 0
        /\ AddsInHand("OT", e) > 0
    BY <1>p, CountsAreNat DEF AddsInHand, DelsInHand
  <1>s. state[e] = "ADDING_INTO_OT" \/ state[e] \in {"CLOSED", "ADDED_INTO_HELPER"}
    BY WorksOn DEF Stale
  <1>m. ASSUME NEW s, NEW p, NEW k, NEW i, NEW at, NEW dt, Effect(e, s, p, k, i, at, dt)
        PROVE  Moves(e, s, p, k, i, (0 - 1) + OneIf("OT" = at), 0 + OneIf("IT" = at),
                                    0 + OneIf("OT" = dt), 0 + OneIf("IT" = dt))
    BY <1>m, <1>h, CallbackMoves
  <1>1. CASE Same(e) /\ state[e] \in {"CLOSED", "ADDED_INTO_HELPER"}
    <2> Moves(e, state[e], pending[e], sock[e], idle[e], 0 - 1, 0, 0, 0)
      <3>1. Effect(e, state[e], pending[e], sock[e], idle[e], "none", "none") \/ state[e] = "DELING_FROM_IT"
        BY <1>1, CountsAreNat DEF Same, SameFields, Effect, OneIf
      <3> QED
        BY <1>1, <1>s, <3>1, <1>m DEF OneIf
    <2>1. DueMatchesState(e)'
      <3>1. /\ AddsDue("OT", e) = 1 /\ AddsDue("IT", e) = 0
            /\ DelsDue("OT", e) = 0 /\ DelsDue("IT", e) = 0
        BY <1>p, <1>1 DEF EndpointInv, DueMatchesState, Stale, OneIf
      <3>2. /\ AddsDue("OT", e)' = 0 /\ AddsDue("IT", e)' = 0
            /\ DelsDue("OT", e)' = 0 /\ DelsDue("IT", e)' = 0
        BY <3>1 DEF Moves
      <3>3. ~ Stale(e)' /\ state'[e] \in {"CLOSED", "ADDED_INTO_HELPER"}
        BY <1>p, <1>1 DEF Stale, Moves
      <3> QED
        BY <3>2, <3>3 DEF DueMatchesState, OneIf
    <2>2. HeldMatchesState(e)'
      BY <1>p, <1>1, WorksOn DEF EndpointInv, HeldMatchesState, Stale, Moves
    <2>3. SockMatchesState(e)'
      BY <1>p, <1>1 DEF EndpointInv, SockMatchesState, Stale, Moves
    <2> QED
      BY <1>p, <1>1, <2>1, <2>2, <2>3 DEF EndpointInv, PendingMatchesState, Moves, OneIf
  <1>2. CASE state[e] = "ADDING_INTO_OT" /\ Effect(e, "DELING_FROM_OT", pending[e], "closed", idle[e], "none", "OT")
    <2> Moves(e, "DELING_FROM_OT", pending[e], "closed", idle[e], 0 - 1, 0, 1, 0)
      BY <1>2, <1>m DEF OneIf
    <2>1. DueMatchesState(e)'
      BY <1>p, <1>s, <1>2 DEF EndpointInv, DueMatchesState, Stale, Moves, OneIf
    <2>2. HeldMatchesState(e)'
      BY <1>p, <1>s, <1>2, WorksOn DEF EndpointInv, HeldMatchesState, Stale, Moves
    <2>3. SockMatchesState(e)'
      BY <1>p, <1>s, <1>2 DEF EndpointInv, SockMatchesState, Stale, Moves
    <2> QED
      BY <1>p, <1>s, <1>2, <2>1, <2>2, <2>3 DEF EndpointInv, PendingMatchesState, Moves, OneIf
  <1>3. CASE state[e] = "ADDING_INTO_OT" /\ pending[e] # "CLOSE" /\ Effect(e, "ADDING_INTO_IT", pending[e], sock[e], idle[e], "IT", "none")
    <2> Moves(e, "ADDING_INTO_IT", pending[e], sock[e], idle[e], 0 - 1, 1, 0, 0)
      BY <1>3, <1>m DEF OneIf
    <2>1. DueMatchesState(e)'
      BY <1>p, <1>s, <1>3 DEF EndpointInv, DueMatchesState, Stale, Moves, OneIf
    <2>2. HeldMatchesState(e)'
      BY <1>p, <1>s, <1>3, WorksOn DEF EndpointInv, HeldMatchesState, Stale, Moves
    <2>3. SockMatchesState(e)'
      BY <1>p, <1>s, <1>3 DEF EndpointInv, SockMatchesState, Stale, Moves
    <2> QED
      BY <1>p, <1>s, <1>3, <2>1, <2>2, <2>3 DEF EndpointInv, PendingMatchesState, Moves, OneIf
  <1> QED
    BY <1>s, <1>1, <1>2, <1>3 DEF Outcome, Handled

LEMMA AddedIt ==
  ASSUME TypeOK, NEW e \in IoObjs, EndpointInv(e), popped' = popped,
         TaskInv("OT"), TaskInv("IT"),
         phase["IT"] = "added", cur["IT"] = e, GoTo("IT", "adds", NoObj),
         UNCHANGED <<setIoObjs, vecTmp, arrEvts>>, Outcome(e, "ADDED_INTO_IT")
  PROVE  EndpointInv(e)'
  <1> USE Tasks
  <1>p. /\ phase'["IT"] = "adds" /\ cur'["IT"] = NoObj
        /\ phase'["OT"] = phase["OT"] /\ cur'["OT"] = cur["OT"]
        /\ idle[e] \in Nat /\ e # NoObj
        /\ setIoObjs' = setIoObjs /\ vecTmp' = vecTmp /\ arrEvts' = arrEvts
    BY DEF GoTo, TypeOK, EpollTypeOK
  <1>h. /\ AddsInHand("OT", e)' = AddsInHand("OT", e) + 0
        /\ AddsInHand("IT", e)' = AddsInHand("IT", e) + (0 - 1)
        /\ DelsInHand("OT", e)' = DelsInHand("OT", e) + 0
        /\ DelsInHand("IT", e)' = DelsInHand("IT", e) + 0
        /\ AddsInHand("IT", e) > 0
    BY <1>p, CountsAreNat DEF AddsInHand, DelsInHand
  <1>s. state[e] = "ADDING_INTO_IT"
    BY WorksOn DEF Stale
  <1>q. arrEvts["IT"] = {}
    BY DEF TaskInv
  <1>m. ASSUME NEW s, NEW p, NEW k, NEW i, NEW at, NEW dt, Effect(e, s, p, k, i, at, dt)
        PROVE  Moves(e, s, p, k, i, 0 + OneIf("OT" = at), (0 - 1) + OneIf("IT" = at),
                                    0 + OneIf("OT" = dt), 0 + OneIf("IT" = dt))
    BY <1>m, <1>h, CallbackMoves
  <1>1. CASE (\A t \in IoTasks : e \notin armed'[t]) /\ Effect(e, "DELING_FROM_OT", pending[e], "closed", idle[e], "none", "OT")
    <2> Moves(e, "DELING_FROM_OT", pending[e], "closed", idle[e], 0, 0 - 1, 1, 0)
      BY <1>1, <1>m DEF OneIf
    <2>1. DueMatchesState(e)'
      BY <1>p, <1>s, <1>q, <1>1 DEF EndpointInv, DueMatchesState, Stale, Moves, OneIf
    <2>2. HeldMatchesState(e)'
      BY <1>p, <1>s, <1>q, <1>1, WorksOn DEF EndpointInv, HeldMatchesState, Stale, Moves
    <2>3. SockMatchesState(e)'
      BY <1>p, <1>s, <1>q, <1>1 DEF EndpointInv, SockMatchesState, Stale, Moves
    <2> QED
      BY <1>p, <1>s, <1>q, <1>1, <2>1, <2>2, <2>3 DEF EndpointInv, PendingMatchesState, Moves, OneIf
  <1>2. CASE pending[e] = "NONE" /\ Effect(e, "OPENED", "NONE", sock[e], idle[e], "none", "none")
    <2> Moves(e, "OPENED", "NONE", sock[e], idle[e], 0, 0 - 1, 0, 0)
      BY <1>2, <1>m DEF OneIf
    <2>1. DueMatchesState(e)'
      BY <1>p, <1>s, <1>q, <1>2 DEF EndpointInv, DueMatchesState, Stale, Moves, OneIf
    <2>2. HeldMatchesState(e)'
      BY <1>p, <1>s, <1>q, <1>2, WorksOn DEF EndpointInv, HeldMatchesState, Stale, Moves
    <2>3. SockMatchesState(e)'
      BY <1>p, <1>s, <1>q, <1>2 DEF EndpointInv, SockMatchesState, Stale, Moves
    <2> QED
      BY <1>p, <1>s, <1>q, <1>2, <2>1, <2>2, <2>3 DEF EndpointInv, PendingMatchesState, Moves, OneIf
  <1>3. CASE pending[e] = "NONE" /\ Effect(e, "OPENED", "CLOSE", sock[e], idle[e], "none", "none")
    <2> Moves(e, "OPENED", "CLOSE", sock[e], idle[e], 0, 0 - 1, 0, 0)
      BY <1>3, <1>m DEF OneIf
    <2>1. DueMatchesState(e)'
      BY <1>p, <1>s, <1>q, <1>3 DEF EndpointInv, DueMatchesState, Stale, Moves, OneIf
    <2>2. HeldMatchesState(e)'
      BY <1>p, <1>s, <1>q, <1>3, WorksOn DEF EndpointInv, HeldMatchesState, Stale, Moves
    <2>3. SockMatchesState(e)'
      BY <1>p, <1>s, <1>q, <1>3 DEF EndpointInv, SockMatchesState, Stale, Moves
    <2> QED
      BY <1>p, <1>s, <1>q, <1>3, <2>1, <2>2, <2>3 DEF EndpointInv, PendingMatchesState, Moves, OneIf
  <1> QED
    BY <1>s, <1>1, <1>2, <1>3 DEF Outcome, Handled

(* An io error, or a failed use of the socket, in the task's own callback. *)
LEMMA IoFails ==
  ASSUME TypeOK, NEW e \in IoObjs, EndpointInv(e), popped' = popped,
         NEW t \in IoTasks, phase[t] \in {"events", "io"}, GoTo(t, "events", NoObj),
         state[e] \in {"ADDING_INTO_IT", "OPENED", "DELING_FROM_IT", "DELING_FROM_OT"},
         UNCHANGED <<setIoObjs, vecTmp>>,
         \A s \in IoTasks : e \in arrEvts'[s] => e \in arrEvts[s],
         Outcome(e, "INTERNAL_ERR")
  PROVE  EndpointInv(e)'
  <1> USE Tasks
  <1>t. /\ \A s \in IoTasks : /\ phase'[s] = IF s = t THEN "events" ELSE phase[s]
                              /\ cur'[s] = IF s = t THEN NoObj ELSE cur[s]
        /\ idle[e] \in Nat /\ e # NoObj
        /\ setIoObjs' = setIoObjs /\ vecTmp' = vecTmp
    BY DEF GoTo, TypeOK, EpollTypeOK
  <1>p. /\ \A q \in {"deled", "added"} :
             /\ (phase'["OT"] = q /\ cur'["OT"] = e) = (phase["OT"] = q /\ cur["OT"] = e)
             /\ (phase'["IT"] = q /\ cur'["IT"] = e) = (phase["IT"] = q /\ cur["IT"] = e)
        /\ phase'["OT"] = "io" /\ cur'["OT"] = e => phase["OT"] = "io" /\ cur["OT"] = e
        /\ phase'["IT"] = "io" /\ cur'["IT"] = e => phase["IT"] = "io" /\ cur["IT"] = e
        /\ e \in arrEvts'["IT"] => e \in arrEvts["IT"]
    BY <1>t
  <1>h. ASSUME NEW s \in IoTasks
        PROVE  AddsInHand(s, e)' = AddsInHand(s, e) /\ DelsInHand(s, e)' = DelsInHand(s, e)
    BY <1>t DEF AddsInHand, DelsInHand
  <1>i. /\ AddsInHand("OT", e)' = AddsInHand("OT", e) + 0
        /\ AddsInHand("IT", e)' = AddsInHand("IT", e) + 0
        /\ DelsInHand("OT", e)' = DelsInHand("OT", e) + 0
        /\ DelsInHand("IT", e)' = DelsInHand("IT", e) + 0
    BY <1>h, InHandType
  <1>m. ASSUME NEW s, NEW p, NEW k, NEW i, NEW at, NEW dt, Effect(e, s, p, k, i, at, dt)
        PROVE  Moves(e, s, p, k, i, 0 + OneIf("OT" = at), 0 + OneIf("IT" = at),
                                    0 + OneIf("OT" = dt), 0 + OneIf("IT" = dt))
    BY <1>m, <1>i, CallbackMoves
  <1>1. CASE Same(e)
    <2>1. ASSUME NEW s \in IoTasks PROVE SameView(s, e)
      <3>1. AddCache'[s][e] = AddCache[s][e] /\ DelCache'[s][e] = DelCache[s][e]
        BY <1>1 DEF Same, SameFields
      <3>2. AddsDue(s, e)' = AddsDue(s, e) /\ DelsDue(s, e)' = DelsDue(s, e)
        BY <1>h, <3>1 DEF AddsDue, DelsDue
      <3>3. e \in arrEvts'[s] => e \in arrEvts[s]
        OBVIOUS
      <3>4. \A q \in {"deled", "added"} : At(s, q, e)' = At(s, q, e)
        BY <1>t DEF At
      <3>5. At(s, "io", e)' => At(s, "io", e)
        BY <1>t DEF At
      <3> QED
        BY <1>t, <3>2, <3>3, <3>4, <3>5 DEF SameView
    <2> QED
      BY <1>1, <2>1, EndpointFrame DEF Same
  <1>2. CASE state[e] = "OPENED" /\ Effect(e, "DELING_FROM_IT", pending[e], "closed", idle[e], "none", "IT")
    <2> Moves(e, "DELING_FROM_IT", pending[e], "closed", idle[e], 0, 0, 0, 1)
      BY <1>2, <1>m DEF OneIf
    <2>1. DueMatchesState(e)'
      BY <1>p, <1>2 DEF EndpointInv, DueMatchesState, Stale, Moves, OneIf
    <2>2. HeldMatchesState(e)'
      BY <1>t, <1>p, <1>2, WorksOn DEF EndpointInv, HeldMatchesState, Stale, Moves
    <2>3. SockMatchesState(e)'
      BY <1>p, <1>2 DEF EndpointInv, SockMatchesState, Stale, Moves
    <2> QED
      BY <1>t, <1>p, <1>2, <2>1, <2>2, <2>3 DEF EndpointInv, PendingMatchesState, Moves, OneIf
  <1>3. CASE state[e] = "ADDING_INTO_IT" /\ Effect(e, "ADDING_INTO_IT", "INTERNAL_ERR", sock[e], idle[e], "none", "none")
    <2> Moves(e, "ADDING_INTO_IT", "INTERNAL_ERR", sock[e], idle[e], 0, 0, 0, 0)
      BY <1>3, <1>m DEF OneIf
    <2>1. DueMatchesState(e)'
      BY <1>p, <1>3 DEF EndpointInv, DueMatchesState, Stale, Moves, OneIf
    <2>2. HeldMatchesState(e)'
      BY <1>t, <1>p, <1>3, WorksOn DEF EndpointInv, HeldMatchesState, Stale, Moves
    <2>3. SockMatchesState(e)'
      BY <1>p, <1>3 DEF EndpointInv, SockMatchesState, Stale, Moves
    <2> QED
      BY <1>t, <1>p, <1>3, <2>1, <2>2, <2>3 DEF EndpointInv, PendingMatchesState, Moves, OneIf
  <1> QED
    BY <1>1, <1>2, <1>3 DEF Outcome

-----------------------------------------------------------------------------
(* The steps of a task that call no handler.                               *)

Callbacks == {"deled", "addfailed", "added", "io"}

LEMMA TaskInvFrame ==
  ASSUME TypeOK, \A s \in IoTasks : TaskInv(s),
         NEW t \in IoTasks, NEW p \in Phases, NEW o \in IoObjs \cup {NoObj}, GoTo(t, p, o),
         (o \in IoObjs) = (p \in Callbacks),
         UNCHANGED <<setIoObjs, vecTmp>>,
         p \in {"top", "events", "io"} => phase[t] \in {"events", "io"},
         \A s \in IoTasks : armed'[s] \subseteq armed[s] /\ arrEvts'[s] \subseteq arrEvts[s],
         p \notin {"events", "io"} => arrEvts'[t] = {}
  PROVE  \A s \in IoTasks : TaskInv(s)'
  <1> SUFFICES ASSUME NEW s \in IoTasks PROVE TaskInv(s)'
    OBVIOUS
  <1>1. /\ phase'[s] = IF s = t THEN p ELSE phase[s]
        /\ cur'[s] = IF s = t THEN o ELSE cur[s]
    BY DEF GoTo, TypeOK, EpollTypeOK
  <1>2. TaskInv(s) /\ armed'[s] \subseteq armed[s] /\ arrEvts'[s] \subseteq arrEvts[s]
        /\ setIoObjs' = setIoObjs /\ vecTmp' = vecTmp
    OBVIOUS
  <1>3. arrEvts'[s] \subseteq setIoObjs'[s] /\ armed'[s] \subseteq setIoObjs'[s]
    BY <1>2 DEF TaskInv
  <1>4. phase'[s] \in {"top", "events", "io"} => vecTmp'[s] = NoCopies
    BY <1>1, <1>2 DEF TaskInv
  <1>5. (cur'[s] \in IoObjs) = (phase'[s] \in {"deled", "addfailed", "added", "io"})
    BY <1>1, <1>2 DEF TaskInv, Callbacks
  <1>6. phase'[s] \notin {"events", "io"} => arrEvts'[s] = {}
    BY <1>1, <1>2 DEF TaskInv
  <1> QED
    BY <1>3, <1>4, <1>5, <1>6 DEF TaskInv

(* A cache is swapped into vecTmp, epoll_wait returns, exec() returns.     *)
LEMMA QuietStep ==
  ASSUME TypeOK, Parts, NEW t \in IoTasks, TaskOnly,
         SwapDelCache(t) \/ SwapAddCache(t) \/ EpollWait(t) \/ ExecReturns(t)
  PROVE  Parts'
  <1> USE Tasks DEF Phases
  <1>t. /\ phase \in [IoTasks -> Phases] /\ cur \in [IoTasks -> IoObjs \cup {NoObj}]
        /\ vecTmp \in Counts /\ AddCache \in Counts /\ DelCache \in Counts
        /\ arrEvts \in [IoTasks -> SUBSET IoObjs] /\ armed \in [IoTasks -> SUBSET IoObjs]
    BY DEF TypeOK, EpollTypeOK, Counts
  <1>a. /\ state' = state /\ pending' = pending /\ sock' = sock /\ idle' = idle
        /\ popped' = popped /\ armed' = armed /\ setIoObjs' = setIoObjs
    BY DEF TaskOnly, endpointVars, helperVars, sharedVars, SwapDelCache, SwapAddCache, EpollWait, ExecReturns
  <1>g. \E q \in {"dels", "adds", "events", "top"} :
          /\ \A s \in IoTasks : /\ phase'[s] = IF s = t THEN q ELSE phase[s]
                                /\ cur'[s] = IF s = t THEN NoObj ELSE cur[s]
          /\ q = "dels"   <=> phase[t] = "top"
          /\ q = "adds"   <=> phase[t] = "dels"
          /\ q = "events" <=> phase[t] = "adds"
          /\ q = "top"    <=> phase[t] = "events"
    BY <1>t DEF SwapDelCache, SwapAddCache, EpollWait, ExecReturns, GoTo
  <1>v. /\ phase[t] = "top" => /\ vecTmp' = [vecTmp EXCEPT ![t] = DelCache[t]]
                               /\ DelCache' = [DelCache EXCEPT ![t] = NoCopies]
                               /\ AddCache' = AddCache /\ arrEvts' = arrEvts
        /\ phase[t] = "dels" => /\ vecTmp[t] = NoCopies
                                /\ vecTmp' = [vecTmp EXCEPT ![t] = AddCache[t]]
                                /\ AddCache' = [AddCache EXCEPT ![t] = NoCopies]
                                /\ DelCache' = DelCache /\ arrEvts' = arrEvts
        /\ phase[t] = "adds" => /\ vecTmp[t] = NoCopies /\ vecTmp' = vecTmp
                                /\ AddCache' = AddCache /\ DelCache' = DelCache
                                /\ \E r \in SUBSET armed[t] : arrEvts' = [arrEvts EXCEPT ![t] = r]
        /\ phase[t] = "events" => /\ vecTmp' = vecTmp /\ AddCache' = AddCache
                                  /\ DelCache' = DelCache /\ arrEvts' = arrEvts /\ arrEvts[t] = {}
    BY DEF SwapDelCache, SwapAddCache, EpollWait, ExecReturns, sharedVars
  <1>1. ASSUME NEW s \in IoTasks PROVE TaskInv(s)'
    <2>1. TaskInv(s) /\ TaskInv(t)
      BY DEF Parts
    <2>2. armed'[s] \subseteq setIoObjs'[s] /\ arrEvts'[s] \subseteq setIoObjs'[s]
      BY <1>t, <1>a, <1>g, <1>v, <2>1 DEF TaskInv
    <2>3. phase'[s] \in {"top", "events", "io"} => vecTmp'[s] = NoCopies
      BY <1>t, <1>g, <1>v, <2>1 DEF TaskInv, Counts
    <2>4. (cur'[s] \in IoObjs) = (phase'[s] \in {"deled", "addfailed", "added", "io"})
      BY <1>g, <2>1 DEF TaskInv
    <2>5. phase'[s] \notin {"events", "io"} => arrEvts'[s] = {}
      BY <1>t, <1>g, <1>v, <2>1 DEF TaskInv
    <2> QED
      BY <2>2, <2>3, <2>4, <2>5 DEF TaskInv
  <1>2. ASSUME NEW x \in IoObjs PROVE EndpointInv(x)'
    <2>1. EndpointInv(x)
      BY DEF Parts
    <2>2. ASSUME NEW s \in IoTasks PROVE SameView(s, x)
      <3>1. NoCopies[x] = 0
        BY DEF NoCopies
      <3>c. /\ AddCache[t][x] \in Nat /\ DelCache[t][x] \in Nat /\ vecTmp[t][x] \in Nat
            /\ phase[t] \in {"top", "events"} => vecTmp[t] = NoCopies
        BY CountsAreNat DEF Parts, TaskInv
      <3>d. AddsDue(s, x)' = AddsDue(s, x) /\ DelsDue(s, x)' = DelsDue(s, x)
        <4>1. CASE s # t
          BY <1>t, <1>g, <1>v, <4>1 DEF AddsDue, DelsDue, AddsInHand, DelsInHand, Counts
        <4>2. CASE s = t /\ phase[t] = "top"
          <5>1. phase'[t] = "dels" /\ vecTmp'[t] = DelCache[t] /\ DelCache'[t] = NoCopies /\ AddCache' = AddCache
            BY <1>t, <1>g, <1>v, <4>2 DEF Counts
          <5> QED
            BY <3>1, <3>c, <4>2, <5>1 DEF AddsDue, DelsDue, AddsInHand, DelsInHand
        <4>3. CASE s = t /\ phase[t] = "dels"
          <5>1. phase'[t] = "adds" /\ vecTmp'[t] = AddCache[t] /\ AddCache'[t] = NoCopies /\ DelCache' = DelCache
                /\ vecTmp[t] = NoCopies
            BY <1>t, <1>g, <1>v, <4>3 DEF Counts
          <5> QED
            BY <3>1, <3>c, <4>3, <5>1 DEF AddsDue, DelsDue, AddsInHand, DelsInHand
        <4>4. CASE s = t /\ phase[t] \in {"adds", "events"}
          <5>1. phase'[t] \in {"events", "top"} /\ AddCache' = AddCache /\ DelCache' = DelCache
                /\ vecTmp[t] = NoCopies
            BY <1>t, <1>g, <1>v, <3>c, <4>4
          <5> QED
            BY <3>1, <3>c, <4>4, <5>1 DEF AddsDue, DelsDue, AddsInHand, DelsInHand
        <4> QED
          BY <1>g, <4>1, <4>2, <4>3, <4>4
      <3>4. \A q \in {"deled", "added"} : At(s, q, x)' = At(s, q, x)
        BY <1>g DEF At
      <3>5. At(s, "io", x)' => At(s, "io", x)
        BY <1>g DEF At
      <3>6. x \in arrEvts'[s] => x \in arrEvts[s] \cup armed[s]
        BY <1>t, <1>g, <1>v
      <3> QED
        BY <1>a, <3>d, <3>4, <3>5, <3>6 DEF SameView
    <2>3. SameFields(x)
      BY <1>a DEF SameFields
    <2> QED
      BY <1>a, <2>1, <2>2, <2>3, EndpointFrame
  <1> QED
    BY <1>1, <1>2 DEF Parts

(* exec() takes one object out of the vector it works through.             *)
LEMMA TakeView ==
  ASSUME TypeOK, NEW t \in IoTasks, NEW e \in IoObjs,
         NEW q \in {"dels", "adds"}, NEW p \in {"deled", "addfailed", "added"},
         (q = "dels") = (p = "deled"),
         TakeFrom(t, q, e), GoTo(t, p, e), UNCHANGED <<AddCache, DelCache>>
  PROVE  /\ \A s \in IoTasks, x \in IoObjs : x # e => vecTmp'[s][x] = vecTmp[s][x]
         /\ \A s \in IoTasks : AddsDue(s, e)' = AddsDue(s, e) /\ DelsDue(s, e)' = DelsDue(s, e)
         /\ q = "dels" => DelsDue(t, e) > 0
         /\ q = "adds" => AddsDue(t, e) > 0
  <1>t. vecTmp \in Counts
    BY DEF TypeOK, EpollTypeOK, Counts
  <1>1. ASSUME NEW s \in IoTasks, NEW x \in IoObjs, x # e PROVE vecTmp'[s][x] = vecTmp[s][x]
    BY <1>t, <1>1, EntryOther DEF TakeFrom
  <1>2. ASSUME NEW s \in IoTasks PROVE vecTmp'[s][e] = IF s = t THEN vecTmp[t][e] - 1 ELSE vecTmp[s][e]
    BY <1>t, EntrySame DEF TakeFrom
  <1>3. \A s \in IoTasks : /\ phase'[s] = IF s = t THEN p ELSE phase[s]
                           /\ cur'[s] = IF s = t THEN e ELSE cur[s]
    BY DEF GoTo, TypeOK, EpollTypeOK
  <1>4. phase[t] = q /\ vecTmp[t][e] > 0 /\ AddCache' = AddCache /\ DelCache' = DelCache
    BY DEF TakeFrom
  <1>5. ASSUME NEW s \in IoTasks
        PROVE  AddsInHand(s, e)' = AddsInHand(s, e) /\ DelsInHand(s, e)' = DelsInHand(s, e)
    BY <1>2, <1>3, <1>4, CountsAreNat DEF AddsInHand, DelsInHand
  <1>6. ASSUME NEW s \in IoTasks PROVE AddsDue(s, e)' = AddsDue(s, e) /\ DelsDue(s, e)' = DelsDue(s, e)
    BY <1>4, <1>5 DEF AddsDue, DelsDue
  <1>7. q = "dels" => DelsDue(t, e) > 0
    BY <1>4, CountsAreNat DEF DelsDue, DelsInHand
  <1>8. q = "adds" => AddsDue(t, e) > 0
    BY <1>4, CountsAreNat DEF AddsDue, AddsInHand
  <1> QED
    BY <1>1, <1>6, <1>7, <1>8

(* A task that takes e out of its vector works on it alone.                *)
LEMMA TakeStep ==
  ASSUME TypeOK, Parts, NEW t \in IoTasks, NEW e \in IoObjs,
         TaskErases(t, e) \/ TaskInserts(t, e) \/ TaskInsertFails(t, e),
         aborted' = "none"
  PROVE  Parts'
  <1> USE Tasks
  <1>a. /\ state' = state /\ pending' = pending /\ sock' = sock /\ idle' = idle
        /\ popped' = popped /\ AddCache' = AddCache /\ DelCache' = DelCache /\ arrEvts' = arrEvts
    BY DEF TaskErases, TaskInserts, TaskInsertFails, EraseIoObj, InsertIoObj, InsertFails,
       TaskOnly, endpointVars, helperVars
  <1> DEFINE Takes(q, p) == /\ q \in {"dels", "adds"} /\ p \in {"deled", "addfailed", "added"}
                            /\ (q = "dels") = (p = "deled")
                            /\ TakeFrom(t, q, e) /\ GoTo(t, p, e)
             Sets(p) ==
               \/ /\ p = "deled"
                  /\ armed' = [armed EXCEPT ![t] = @ \ {e}]
                  /\ setIoObjs' = [setIoObjs EXCEPT ![t] = @ \ {e}]
               \/ /\ p = "added"
                  /\ armed' = [armed EXCEPT ![t] = @ \cup {e}]
                  /\ setIoObjs' = [setIoObjs EXCEPT ![t] = @ \cup {e}]
               \/ p = "addfailed" /\ armed' = armed /\ setIoObjs' = setIoObjs
  <1>b. PICK q, p : Takes(q, p) /\ Sets(p)
    <2>1. CASE TaskErases(t, e)
      <3>1. Takes("dels", "deled") /\ Sets("deled")
        BY <2>1 DEF TaskErases, EraseIoObj
      <3> QED
        BY <3>1
    <2>2. CASE TaskInserts(t, e)
      <3>1. Takes("adds", "added") /\ Sets("added")
        BY <2>2 DEF TaskInserts, InsertIoObj
      <3> QED
        BY <3>1
    <2>3. CASE TaskInsertFails(t, e)
      <3>1. Takes("adds", "addfailed") /\ Sets("addfailed")
        BY <2>3 DEF TaskInsertFails, InsertFails
      <3> QED
        BY <3>1
    <2> QED
      BY <2>1, <2>2, <2>3
  <1>c. /\ \A s \in IoTasks, x \in IoObjs : x # e => vecTmp'[s][x] = vecTmp[s][x]
        /\ \A s \in IoTasks : AddsDue(s, e)' = AddsDue(s, e) /\ DelsDue(s, e)' = DelsDue(s, e)
        /\ q = "dels" => DelsDue(t, e) > 0
        /\ q = "adds" => AddsDue(t, e) > 0
    BY <1>a, <1>b, TakeView
  <1>g. \A s \in IoTasks : /\ phase'[s] = IF s = t THEN p ELSE phase[s]
                           /\ cur'[s] = IF s = t THEN e ELSE cur[s]
    BY <1>b DEF GoTo, TypeOK, EpollTypeOK
  <1>q. phase[t] = q /\ TaskInv(t) /\ EndpointInv(e)
    BY <1>b DEF TakeFrom, Parts
  <1>s. \A s \in IoTasks, x \in IoObjs :
          /\ s # t \/ x # e \/ p = "addfailed" => /\ (x \in armed'[s]) = (x \in armed[s])
                                                 /\ (x \in setIoObjs'[s]) = (x \in setIoObjs[s])
          /\ s = t /\ x = e /\ p = "deled" => x \notin armed'[s] /\ x \notin setIoObjs'[s]
          /\ s = t /\ x = e /\ p = "added" => x \in armed'[s] /\ x \in setIoObjs'[s]
    BY <1>b DEF TypeOK, EpollTypeOK
  <1>1. ASSUME NEW s \in IoTasks PROVE TaskInv(s)'
    <2>1. TaskInv(s) /\ (s = t => arrEvts[s] = {})
      BY <1>q, <1>b DEF Parts, TaskInv
    <2>2. armed'[s] \subseteq setIoObjs'[s]
      BY <1>b, <2>1 DEF TaskInv, TypeOK, EpollTypeOK
    <2>3. arrEvts'[s] \subseteq setIoObjs'[s]
      BY <1>a, <1>b, <2>1 DEF TaskInv, TypeOK, EpollTypeOK
    <2>4. phase'[s] \in {"top", "events", "io"} => vecTmp'[s] = NoCopies
      <3>1. CASE s = t
        BY <1>g, <1>b, <3>1
      <3>2. CASE s # t
        <4>1. vecTmp'[s] = vecTmp[s]
          BY <1>b, <3>2 DEF TakeFrom, TypeOK, EpollTypeOK
        <4> QED
          BY <1>g, <2>1, <3>2, <4>1 DEF TaskInv
      <3> QED
        BY <3>1, <3>2
    <2>5. (cur'[s] \in IoObjs) = (phase'[s] \in {"deled", "addfailed", "added", "io"})
      BY <1>b, <1>g, <2>1 DEF TaskInv
    <2>6. phase'[s] \notin {"events", "io"} => arrEvts'[s] = {}
      BY <1>a, <1>g, <2>1 DEF TaskInv
    <2> QED
      BY <2>2, <2>3, <2>4, <2>5, <2>6 DEF TaskInv
  <1>2. ASSUME NEW x \in IoObjs, x # e PROVE EndpointInv(x)'
    <2>1. EndpointInv(x) /\ cur[t] # x
      BY <1>b, <1>q DEF Parts, TaskInv
    <2>2. Same(x)
      BY <1>2, <1>a, <1>s DEF Same, SameFields
    <2>3. /\ p \in Phases /\ (p \in AddPhases) = (phase[t] \in AddPhases)
          /\ (p \in DelPhases) = (phase[t] \in DelPhases)
      BY <1>b, <1>q DEF Phases, AddPhases, DelPhases
    <2>4. \A s \in IoTasks : SameView(s, x)
      BY <1>2, <1>a, <1>b, <1>c, <1>s, <2>1, <2>2, <2>3, ViewFrame
    <2> QED
      BY <1>a, <2>1, <2>2, <2>4, EndpointFrame DEF Same
  <1>3. EndpointInv(e)'
    <2>1. /\ q = "dels" /\ t = "OT" => state[e] = "DELING_FROM_OT"
          /\ q = "dels" /\ t = "IT" => state[e] = "DELING_FROM_IT"
          /\ q = "adds" /\ t = "OT" => state[e] = "ADDING_INTO_OT"
          /\ q = "adds" /\ t = "IT" => state[e] = "ADDING_INTO_IT"
      BY <1>c, <1>q DEF EndpointInv, DueMatchesState, OneIf, Stale
    <2>2. Stale(e)' = Stale(e)
      BY <1>a, <1>b, <1>g, <1>q, <2>1 DEF Stale
    <2>3. DueMatchesState(e)'
      BY <1>a, <1>c, <1>q, <2>2 DEF EndpointInv, DueMatchesState, OneIf
    <2>4. HeldMatchesState(e)'
      <3>1. CASE t = "OT"
        <4>1. /\ (e \in armed'["IT"]) = (e \in armed["IT"])
              /\ phase'["IT"] = phase["IT"] /\ cur'["IT"] = cur["IT"]
              /\ phase'["OT"] = p /\ cur'["OT"] = e
              /\ state[e] \in {"DELING_FROM_OT", "ADDING_INTO_OT"}
          BY <1>b, <1>g, <1>q, <1>s, <2>1, <3>1
        <4>2. CASE p = "deled"
          BY <1>a, <1>b, <1>q, <1>s, <2>1, <3>1, <4>1, <4>2 DEF EndpointInv, HeldMatchesState
        <4>3. CASE p = "added"
          BY <1>a, <1>b, <1>q, <1>s, <2>1, <3>1, <4>1, <4>3 DEF EndpointInv, HeldMatchesState
        <4>4. CASE p = "addfailed"
          BY <1>a, <1>b, <1>q, <1>s, <2>1, <3>1, <4>1, <4>4 DEF EndpointInv, HeldMatchesState
        <4> QED
          BY <1>b, <4>2, <4>3, <4>4
      <3>2. CASE t = "IT"
        <4>1. /\ (e \in setIoObjs'["OT"]) = (e \in setIoObjs["OT"])
              /\ phase'["OT"] = phase["OT"] /\ cur'["OT"] = cur["OT"]
              /\ phase'["IT"] = p /\ cur'["IT"] = e /\ arrEvts'["IT"] = {}
          BY <1>a, <1>b, <1>g, <1>q, <1>s, <3>2 DEF TaskInv
        <4>2. CASE p = "deled"
          BY <1>a, <1>b, <1>q, <1>s, <2>1, <3>2, <4>1, <4>2 DEF EndpointInv, HeldMatchesState
        <4>3. CASE p = "added"
          BY <1>a, <1>b, <1>q, <1>s, <2>1, <3>2, <4>1, <4>3 DEF EndpointInv, HeldMatchesState
        <4>4. CASE p = "addfailed"
          BY <1>a, <1>b, <1>q, <1>s, <2>1, <3>2, <4>1, <4>4 DEF EndpointInv, HeldMatchesState
        <4> QED
          BY <1>b, <4>2, <4>3, <4>4
      <3> QED
        BY <3>1, <3>2
    <2>5. SockMatchesState(e)'
      BY <1>a, <1>q, <2>2 DEF EndpointInv, SockMatchesState
    <2> QED
      BY <1>a, <1>b, <1>g, <1>q, <2>3, <2>4, <2>5 DEF EndpointInv, PendingMatchesState, OneIf
  <1> QED
    BY <1>1, <1>2, <1>3 DEF Parts

-----------------------------------------------------------------------------
(* The steps of the threads that are no io task.                           *)

LEMMA OutsideTasks ==
  ASSUME \A s \in IoTasks : TaskInv(s), UNCHANGED taskVars,
         \A s \in IoTasks : armed'[s] \subseteq armed[s]
  PROVE  \A s \in IoTasks : TaskInv(s)'
  BY DEF TaskInv, taskVars

(* open(), close(), and the hand-over of a socket by the helper.           *)
LEMMA OutsidePost ==
  ASSUME TypeOK, Parts, NEW e \in IoObjs, NEW evt, PostEvt(e, evt), aborted' = "none",
         UNCHANGED taskVars,
         \/ evt \in {"OPEN", "CLOSE"} /\ popped' = popped
         \/ evt = "CONNECTED" /\ popped = e /\ popped' = NoObj
  PROVE  Parts'
  <1>1. \A s \in IoTasks : TaskInv(s)'
    BY PostEvtArms, OutsideTasks DEF Parts
  <1>2. EndpointInv(e)'
    BY HandlerOutcome, OutsideCall DEF Parts
  <1>3. ASSUME NEW x \in IoObjs, x # e PROVE EndpointInv(x)'
    <2>1. Same(x)
      BY <1>3, SharedTypes, PostEvtFrame
    <2>2. (popped' = x) = (popped = x)
      BY <1>3
    <2> QED
      BY <2>1, <2>2, OutsideFrame DEF Parts
  <1> QED
    BY <1>1, <1>2, <1>3 DEF Parts

(* The helper's deque gives up one copy of e to the helper.                *)
LEMMA PopStep ==
  ASSUME TypeOK, Parts, NEW e \in IoObjs, HelperPops(e)
  PROVE  Parts'
  <1>u. /\ UNCHANGED taskVars /\ state' = state /\ pending' = pending /\ sock' = sock
        /\ AddCache' = AddCache /\ DelCache' = DelCache /\ armed' = armed
        /\ popped = NoObj /\ popped' = e
        /\ e # NoObj /\ idle[e] \in Nat
        /\ idle'[e] = idle[e] - 1 /\ \A x \in IoObjs : x # e => idle'[x] = idle[x]
    BY DEF HelperPops, sharedVars, TypeOK
  <1>1. \A s \in IoTasks : TaskInv(s)'
    BY <1>u, OutsideTasks DEF Parts
  <1>2. ASSUME NEW x \in IoObjs, x # e PROVE EndpointInv(x)'
    <2>1. Same(x) /\ (popped' = x) = (popped = x)
      BY <1>2, <1>u DEF Same, SameFields
    <2> QED
      BY <1>u, <2>1, OutsideFrame DEF Parts
  <1>3. EndpointInv(e)'
    <2>1. EndpointInv(e)
      BY DEF Parts
    <2>2. /\ phase' = phase /\ cur' = cur /\ vecTmp' = vecTmp /\ setIoObjs' = setIoObjs
          /\ arrEvts' = arrEvts
      BY <1>u DEF taskVars
    <2>3. Stale(e)' = Stale(e)
      BY <1>u, <2>2 DEF Stale
    <2>4. DueMatchesState(e)'
      BY <1>u, <2>1, <2>2, <2>3
         DEF EndpointInv, DueMatchesState, AddsDue, DelsDue, AddsInHand, DelsInHand, OneIf
    <2>5. HeldMatchesState(e)'
      BY <1>u, <2>1, <2>2 DEF EndpointInv, HeldMatchesState
    <2>6. SockMatchesState(e)' /\ PendingMatchesState(e)'
      BY <1>u, <2>1, <2>3 DEF EndpointInv, SockMatchesState, PendingMatchesState
    <2>7. idle'[e] + OneIf(popped' = e) = OneIf(state'[e] = "ADDED_INTO_HELPER")
      BY <1>u, <2>1 DEF EndpointInv, OneIf
    <2> QED
      BY <1>u, <2>1, <2>2, <2>4, <2>5, <2>6, <2>7 DEF EndpointInv
  <1> QED
    BY <1>1, <1>2, <1>3 DEF Parts

(* Steps that touch nothing of an endpoint: send_data(), a new socket.     *)
LEMMA AsideStep ==
  ASSUME Parts, UNCHANGED <<endpointVars, popped, AddCache, DelCache, armed, taskVars>>
  PROVE  Parts'
  <1>1. \A s \in IoTasks : TaskInv(s)'
    BY OutsideTasks DEF Parts
  <1>2. ASSUME NEW x \in IoObjs PROVE EndpointInv(x)'
    <2>1. Same(x)
      BY DEF Same, SameFields, endpointVars
    <2> QED
      BY <2>1, OutsideFrame DEF Parts
  <1> QED
    BY <1>1, <1>2 DEF Parts

-----------------------------------------------------------------------------
(* The callbacks.                                                          *)

(* The endpoints a callback is not about.                                  *)
LEMMA CallbackFrame ==
  ASSUME TypeOK, Parts, NEW e \in IoObjs, NEW x \in IoObjs, x # e, Same(x),
         NEW t \in IoTasks, NEW p \in Phases, NEW o \in {e, NoObj}, GoTo(t, p, o),
         cur[t] \in {e, NoObj},
         (p \in AddPhases) = (phase[t] \in AddPhases),
         (p \in DelPhases) = (phase[t] \in DelPhases),
         UNCHANGED <<setIoObjs, vecTmp, popped>>,
         \A s \in IoTasks : arrEvts'[s] \subseteq arrEvts[s]
  PROVE  EndpointInv(x)'
  <1>1. x # NoObj
    OBVIOUS
  <1>2. cur[t] # x /\ o # x /\ o \in IoObjs \cup {NoObj}
    BY <1>1
  <1>3. \A s \in IoTasks : SameView(s, x)
    BY <1>2, ViewFrame
  <1> QED
    BY <1>3, EndpointFrame DEF Same, Parts

(* A callback that runs a handler for e and keeps EndpointInv(e).          *)
LEMMA CallbackStep ==
  ASSUME TypeOK, Parts, NEW e \in IoObjs, NEW evt, PostEvt(e, evt), EndpointInv(e)',
         NEW t \in IoTasks, NEW p \in Phases, NEW o \in {e, NoObj}, GoTo(t, p, o),
         cur[t] \in {e, NoObj}, (o \in IoObjs) = (p \in Callbacks),
         (p \in AddPhases) = (phase[t] \in AddPhases),
         (p \in DelPhases) = (phase[t] \in DelPhases),
         p \in {"top", "events", "io"} => phase[t] \in {"events", "io"},
         UNCHANGED <<setIoObjs, vecTmp, popped>>,
         \A s \in IoTasks : arrEvts'[s] \subseteq arrEvts[s],
         p \notin {"events", "io"} => arrEvts'[t] = {}
  PROVE  Parts'
  <1>1. \A s \in IoTasks : TaskInv(s)'
    <2>1. \A s \in IoTasks : armed'[s] \subseteq armed[s] /\ arrEvts'[s] \subseteq arrEvts[s]
      BY PostEvtArms
    <2>2. o \in IoObjs \cup {NoObj} /\ \A s \in IoTasks : TaskInv(s)
      BY DEF Parts
    <2> QED
      BY <2>1, <2>2, TaskInvFrame
  <1>2. ASSUME NEW x \in IoObjs, x # e PROVE EndpointInv(x)'
    <2>1. Same(x)
      BY <1>2, SharedTypes, PostEvtFrame
    <2> QED
      BY <1>2, <2>1, CallbackFrame
  <1> QED
    BY <1>1, <1>2 DEF Parts

LEMMA DeledStep ==
  ASSUME TypeOK, Parts, NEW t \in IoTasks, HandleDeledFromIoTask(t), aborted' = "none"
  PROVE  Parts'
  <1>1. TaskInv("OT") /\ TaskInv("IT") /\ TaskInv(t)
    BY Tasks DEF Parts
  <1>2. PICK e \in IoObjs : cur[t] = e
    BY <1>1 DEF TaskInv, HandleDeledFromIoTask, NotifyDeled
  <1>3. /\ phase[t] = "deled" /\ GoTo(t, "dels", NoObj) /\ PostEvt(e, Deled(t))
        /\ UNCHANGED <<setIoObjs, vecTmp, arrEvts, popped>> /\ arrEvts[t] = {}
    BY <1>1, <1>2 DEF HandleDeledFromIoTask, NotifyDeled, helperVars, TaskInv
  <1>4. EndpointInv(e) /\ Outcome(e, Deled(t)) /\ cur[t] = e
    BY <1>3, <1>2, HandlerOutcome DEF Parts
  <1>5. EndpointInv(e)'
    <2>1. CASE t = "OT"
      BY <1>3, <1>2, <1>4, <2>1, DeledOt DEF Deled
    <2>2. CASE t = "IT"
      BY <1>3, <1>1, <1>2, <1>4, <2>2, DeledIt DEF Deled
    <2> QED
      BY <2>1, <2>2
  <1>6. /\ "dels" \in Phases /\ (NoObj \in IoObjs) = ("dels" \in Callbacks)
        /\ ("dels" \in AddPhases) = (phase[t] \in AddPhases)
        /\ ("dels" \in DelPhases) = (phase[t] \in DelPhases)
    BY <1>3 DEF Phases, Callbacks, AddPhases, DelPhases
  <1> QED
    BY <1>3, <1>2, <1>4, <1>5, <1>6, CallbackStep

LEMMA AddFailedStep ==
  ASSUME TypeOK, Parts, NEW t \in IoTasks, HandleAddFailed(t), aborted' = "none"
  PROVE  Parts'
  <1>1. TaskInv("OT") /\ TaskInv("IT") /\ TaskInv(t)
    BY Tasks DEF Parts
  <1>2. PICK e \in IoObjs : cur[t] = e
    BY <1>1 DEF TaskInv, HandleAddFailed, NotifyAddFailed
  <1>3. /\ phase[t] = "addfailed" /\ GoTo(t, "added", e) /\ PostEvt(e, "INTERNAL_ERR")
        /\ UNCHANGED <<setIoObjs, vecTmp, arrEvts, popped>> /\ arrEvts[t] = {}
    BY <1>1, <1>2 DEF HandleAddFailed, NotifyAddFailed, helperVars, TaskInv
  <1>4. EndpointInv(e) /\ Outcome(e, "INTERNAL_ERR") /\ cur[t] = e
    BY <1>3, <1>2, HandlerOutcome DEF Parts
  <1>5. EndpointInv(e)'
    <2>1. CASE t = "OT"
      BY <1>3, <1>1, <1>2, <1>4, <2>1, AddFailedOt
    <2>2. CASE t = "IT"
      BY <1>3, <1>1, <1>2, <1>4, <2>2, AddFailedIt
    <2> QED
      BY <2>1, <2>2
  <1>6. /\ "added" \in Phases /\ (e \in IoObjs) = ("added" \in Callbacks)
        /\ ("added" \in AddPhases) = (phase[t] \in AddPhases)
        /\ ("added" \in DelPhases) = (phase[t] \in DelPhases)
    BY <1>3, <1>2 DEF Phases, Callbacks, AddPhases, DelPhases
  <1> QED
    BY <1>3, <1>2, <1>4, <1>5, <1>6, CallbackStep

LEMMA AddedStep ==
  ASSUME TypeOK, Parts, NEW t \in IoTasks, HandleAddedIntoIoTask(t), aborted' = "none"
  PROVE  Parts'
  <1>1. TaskInv("OT") /\ TaskInv("IT") /\ TaskInv(t)
    BY Tasks DEF Parts
  <1>2. PICK e \in IoObjs : cur[t] = e
    BY <1>1 DEF TaskInv, HandleAddedIntoIoTask, NotifyAdded
  <1>3. /\ phase[t] = "added" /\ GoTo(t, "adds", NoObj) /\ PostEvt(e, Added(t))
        /\ UNCHANGED <<setIoObjs, vecTmp, arrEvts, popped>> /\ arrEvts[t] = {}
    BY <1>1, <1>2 DEF HandleAddedIntoIoTask, NotifyAdded, helperVars, TaskInv
  <1>4. EndpointInv(e) /\ Outcome(e, Added(t)) /\ cur[t] = e
    BY <1>3, <1>2, HandlerOutcome DEF Parts
  <1>5. EndpointInv(e)'
    <2>1. CASE t = "OT"
      BY <1>3, <1>1, <1>2, <1>4, <2>1, AddedOt DEF Added
    <2>2. CASE t = "IT"
      BY <1>3, <1>1, <1>2, <1>4, <2>2, AddedIt DEF Added
    <2> QED
      BY <2>1, <2>2
  <1>6. /\ "adds" \in Phases /\ (NoObj \in IoObjs) = ("adds" \in Callbacks)
        /\ ("adds" \in AddPhases) = (phase[t] \in AddPhases)
        /\ ("adds" \in DelPhases) = (phase[t] \in DelPhases)
    BY <1>3 DEF Phases, Callbacks, AddPhases, DelPhases
  <1> QED
    BY <1>3, <1>2, <1>4, <1>5, <1>6, CallbackStep

(* An io error, seen by epoll or by the use of the socket.                 *)
LEMMA IoErrorStep ==
  ASSUME TypeOK, Parts, NEW t \in IoTasks, NEW e \in IoObjs,
         PostEvt(e, "INTERNAL_ERR"), aborted' = "none",
         GoTo(t, "events", NoObj), UNCHANGED <<setIoObjs, vecTmp, popped>>,
         \A s \in IoTasks : arrEvts'[s] \subseteq arrEvts[s],
         \/ phase[t] = "events" /\ e \in arrEvts[t]
         \/ phase[t] = "io" /\ cur[t] = e
  PROVE  Parts'
  <1>1. TaskInv(t) /\ EndpointInv(e) /\ Outcome(e, "INTERNAL_ERR")
    BY HandlerOutcome DEF Parts
  <1>2. cur[t] \in {e, NoObj} /\ phase[t] \in {"events", "io"}
    BY <1>1 DEF TaskInv, TypeOK, EpollTypeOK
  <1>3. state[e] \in {"ADDING_INTO_IT", "OPENED", "DELING_FROM_IT", "DELING_FROM_OT"}
    <2>1. CASE phase[t] = "io" /\ cur[t] = e
      BY <1>1, <2>1 DEF EndpointInv
    <2>2. CASE phase[t] = "events" /\ e \in arrEvts[t]
      <3>1. CASE t = "OT"
        BY <1>1, <2>2, <3>1 DEF EndpointInv, HeldMatchesState, TaskInv
      <3>2. CASE t = "IT"
        BY <1>1, <2>2, <3>2 DEF EndpointInv, HeldMatchesState
      <3> QED
        BY <3>1, <3>2
    <2> QED
      BY <2>1, <2>2
  <1>4. EndpointInv(e)'
    BY <1>1, <1>2, <1>3, IoFails
  <1>5. /\ "events" \in Phases /\ (NoObj \in IoObjs) = ("events" \in Callbacks)
        /\ ("events" \in AddPhases) = (phase[t] \in AddPhases)
        /\ ("events" \in DelPhases) = (phase[t] \in DelPhases)
    BY <1>2 DEF Phases, Callbacks, AddPhases, DelPhases
  <1> QED
    BY <1>2, <1>4, <1>5, CallbackStep

(* An io callback starts or ends without an event for the state machine.   *)
LEMMA IoMoves ==
  ASSUME TypeOK, Parts, NEW t \in IoTasks, phase[t] \in {"events", "io"},
         NEW p \in {"events", "io"}, NEW o \in IoObjs \cup {NoObj}, GoTo(t, p, o),
         p = "io" => o \in IoObjs /\ state[o] = "OPENED", p = "events" => o = NoObj,
         UNCHANGED <<endpointVars, sharedVars, popped, setIoObjs, vecTmp>>,
         \A s \in IoTasks : arrEvts'[s] \subseteq arrEvts[s]
  PROVE  Parts'
  <1> USE Tasks
  <1>g. \A s \in IoTasks : /\ phase'[s] = IF s = t THEN p ELSE phase[s]
                           /\ cur'[s] = IF s = t THEN o ELSE cur[s]
    BY DEF GoTo, TypeOK, EpollTypeOK
  <1>u. /\ state' = state /\ pending' = pending /\ sock' = sock /\ idle' = idle
        /\ AddCache' = AddCache /\ DelCache' = DelCache /\ armed' = armed
        /\ popped' = popped /\ setIoObjs' = setIoObjs /\ vecTmp' = vecTmp
    BY DEF endpointVars, sharedVars
  <1>1. \A s \in IoTasks : TaskInv(s)'
    <2>1. p \in Phases /\ (o \in IoObjs) = (p \in Callbacks)
      BY DEF Phases, Callbacks
    <2>2. \A s \in IoTasks : TaskInv(s) /\ armed'[s] \subseteq armed[s]
      BY <1>u DEF Parts
    <2> QED
      BY <2>1, <2>2, TaskInvFrame
  <1>2. ASSUME NEW x \in IoObjs PROVE EndpointInv(x)'
    <2>1. EndpointInv(x)
      BY DEF Parts
    <2>2. /\ \A s \in IoTasks : \A q \in {"deled", "added"} : At(s, q, x)' = At(s, q, x)
          /\ \A s \in IoTasks : AddsInHand(s, x)' = AddsInHand(s, x)
          /\ \A s \in IoTasks : DelsInHand(s, x)' = DelsInHand(s, x)
      BY <1>g, <1>u DEF At, AddsInHand, DelsInHand
    <2>3. Stale(x)' = Stale(x)
      BY <1>u, <2>2 DEF Stale, At
    <2>4. DueMatchesState(x)'
      BY <1>u, <2>1, <2>2, <2>3 DEF EndpointInv, DueMatchesState, AddsDue, DelsDue
    <2>5. HeldMatchesState(x)'
      <3>1. arrEvts'["IT"] \subseteq arrEvts["IT"]
        OBVIOUS
      <3>2. /\ At("OT", "deled", x)' = At("OT", "deled", x)
            /\ At("OT", "added", x)' = At("OT", "added", x)
            /\ At("IT", "deled", x)' = At("IT", "deled", x)
            /\ At("IT", "added", x)' = At("IT", "added", x)
        BY <2>2
      <3> QED
        BY <1>u, <2>1, <3>1, <3>2 DEF EndpointInv, HeldMatchesState, At
    <2>6. SockMatchesState(x)' /\ PendingMatchesState(x)'
      BY <1>u, <2>1, <2>3 DEF EndpointInv, SockMatchesState, PendingMatchesState
    <2>7. /\ phase'["IT"] = "io" /\ cur'["IT"] = x => state'[x] \in {"OPENED", "DELING_FROM_IT"}
          /\ phase'["OT"] = "io" /\ cur'["OT"] = x
               => state'[x] \in {"OPENED", "DELING_FROM_IT", "DELING_FROM_OT"}
      BY <1>g, <1>u, <2>1 DEF EndpointInv
    <2> QED
      BY <1>u, <2>1, <2>4, <2>5, <2>6, <2>7 DEF EndpointInv, OneIf
  <1> QED
    BY <1>1, <1>2 DEF Parts

-----------------------------------------------------------------------------
(* IndInv is inductive.                                                    *)

LEMMA PostEvtAborts ==
  ASSUME NEW e \in IoObjs, NEW evt, PostEvt(e, evt)
  PROVE  aborted' \in {aborted, "m_pSock", "del_endpoint"}
  BY DEF PostEvt, sharedVars, HandlingClosedToAddedIntoHelper,
     HandlingAddedIntoHelperToClosed, HandlingAddedIntoHelperToAddingIntoOt,
     HandlingInternalErrWhileAddingIntoOt, RememberWhileAdding,
     HandlingAddedIntoOtToAddingIntoIt, HandlingAddingIntoItToOpened,
     HandlingCloseOrErrWhileOpened, HandlingDelingFromItToDelingFromOt,
     HandlingDelingFromOtToClosed, GiveUp, Abort

(* The endpoint a task is about to erase is one it holds: a deletion is    *)
(* due only in the states DELING_FROM_..., where the task holds it.        *)
LEMMA EraseHits ==
  ASSUME TypeOK, Parts, NEW t \in IoTasks, NEW e \in IoObjs, EraseIoObj(t, e)
  PROVE  e \in setIoObjs[t]
  <1>1. phase[t] = "dels" /\ vecTmp[t][e] > 0 /\ EndpointInv(e)
    BY DEF EraseIoObj, TakeFrom, Parts
  <1>2. DelsDue(t, e) > 0
    BY <1>1, CountsAreNat DEF DelsDue, DelsInHand
  <1>3. CASE t = "OT"
    <2>1. state[e] = "DELING_FROM_OT"
      BY <1>1, <1>2, <1>3 DEF EndpointInv, DueMatchesState, OneIf
    <2> QED
      BY <1>1, <1>3, <2>1 DEF EndpointInv, HeldMatchesState
  <1>4. CASE t = "IT"
    <2>1. state[e] = "DELING_FROM_IT"
      BY <1>1, <1>2, <1>4 DEF EndpointInv, DueMatchesState, OneIf
    <2> QED
      BY <1>1, <1>4, <2>1 DEF EndpointInv, HeldMatchesState
  <1> QED
    BY <1>3, <1>4

LEMMA NoEraseMissStep ==
  ASSUME TypeOK, Parts, CallbackHasObj, Next
  PROVE  NoEraseMiss'
  <1>0. aborted = "none"
    BY DEF Next
  <1> USE DEF NoEraseMiss
  <1>1. ASSUME NEW e \in IoObjs, NEW evt, PostEvt(e, evt) PROVE NoEraseMiss'
    BY <1>0, <1>1, PostEvtAborts
  <1>2. CASE UNCHANGED aborted
    BY <1>0, <1>2
  <1>3. CASE UserStep
    BY <1>0, <1>1, <1>2, <1>3 DEF UserStep, Open, Close, SendDataTests, SendDataSends, sharedVars
  <1>4. CASE HelperStep
    <2>1. popped # NoObj => popped \in IoObjs
      BY DEF TypeOK
    <2> QED
      BY <1>1, <1>2, <1>4, <2>1
         DEF HelperStep, HelperConnects, HelperGivesUp, HelperHandsOver, HelperPops, sharedVars
  <1>5. ASSUME NEW t \in IoTasks, TaskStep(t) PROVE NoEraseMiss'
    <2>1. ASSUME NEW e \in IoObjs, TaskErases(t, e) PROVE NoEraseMiss'
      BY <1>0, <2>1, EraseHits DEF TaskErases, EraseIoObj
    <2>2. ASSUME NEW e \in IoObjs,
                 \/ TaskInserts(t, e) \/ TaskInsertFails(t, e)
                 \/ HandleIoError(t, e) \/ HandleIoEvtTests(t, e)
          PROVE  NoEraseMiss'
      BY <1>0, <1>1, <2>2 DEF TaskInserts, InsertIoObj, TaskInsertFails, InsertFails,
         HandleIoError, HandleIoEvtTests, sharedVars
    <2>3. CASE SwapDelCache(t) \/ SwapAddCache(t) \/ EpollWait(t) \/ ExecReturns(t)
      BY <1>2, <2>3 DEF SwapDelCache, SwapAddCache, EpollWait, ExecReturns, sharedVars
    <2>4. CASE \/ HandleDeledFromIoTask(t) \/ HandleAddFailed(t)
               \/ HandleAddedIntoIoTask(t) \/ HandleIoEvtUsesSock(t)
      <3>1. cur[t] \in IoObjs
        BY <2>4 DEF CallbackHasObj, HandleDeledFromIoTask, NotifyDeled, HandleAddFailed,
           NotifyAddFailed, HandleAddedIntoIoTask, NotifyAdded, HandleIoEvtUsesSock
      <3> QED
        BY <1>1, <1>2, <2>4, <3>1 DEF HandleDeledFromIoTask, HandleAddFailed,
           HandleAddedIntoIoTask, HandleIoEvtUsesSock, Abort, sharedVars
    <2> QED
      BY <1>5, <2>1, <2>2, <2>3, <2>4 DEF TaskStep
  <1> QED
    BY <1>3, <1>4, <1>5 DEF Next

LEMMA PartsStep ==
  ASSUME TypeOK, Parts, Next, aborted' = "none"
  PROVE  Parts'
  <1>1. ASSUME NEW e \in IoObjs, Open(e) \/ Close(e) PROVE Parts'
    BY <1>1, OutsidePost DEF Open, Close, helperVars
  <1>2. CASE \/ SendDataSends \/ HelperConnects \/ HelperGivesUp
             \/ \E e \in IoObjs : SendDataTests(e)
    <2>1. UNCHANGED <<endpointVars, popped, AddCache, DelCache, armed, taskVars>>
      BY <1>2 DEF SendDataSends, SendDataTests, HelperConnects, HelperGivesUp, helperVars, sharedVars
    <2> QED
      BY <2>1, AsideStep
  <1>3. ASSUME NEW e \in IoObjs, HelperPops(e) PROVE Parts'
    BY <1>3, PopStep
  <1>4. CASE HelperHandsOver
    <2>1. PICK e \in IoObjs : popped = e
      BY <1>4 DEF HelperHandsOver, TypeOK
    <2>2. PostEvt(e, "CONNECTED") /\ popped' = NoObj /\ UNCHANGED taskVars
      BY <1>4, <2>1 DEF HelperHandsOver
    <2> QED
      BY <2>1, <2>2, OutsidePost
  <1>5. ASSUME NEW t \in IoTasks, TaskStep(t) PROVE Parts'
    <2>1. CASE (SwapDelCache(t) \/ SwapAddCache(t) \/ EpollWait(t) \/ ExecReturns(t)) /\ TaskOnly
      BY <2>1, QuietStep
    <2>2. CASE HandleDeledFromIoTask(t) \/ HandleAddFailed(t) \/ HandleAddedIntoIoTask(t)
      BY <2>2, DeledStep, AddFailedStep, AddedStep
    <2>3. CASE HandleIoEvtUsesSock(t)
      <3>1. PICK e \in IoObjs : cur[t] = e
        BY <2>3 DEF HandleIoEvtUsesSock, Parts, TaskInv
      <3>2. /\ phase[t] = "io" /\ GoTo(t, "events", NoObj)
            /\ UNCHANGED <<setIoObjs, vecTmp, popped>>
            /\ \A s \in IoTasks : arrEvts'[s] \subseteq arrEvts[s]
        BY <2>3 DEF HandleIoEvtUsesSock, helperVars
      <3>3. CASE PostEvt(e, "INTERNAL_ERR")
        BY <3>1, <3>2, <3>3, IoErrorStep
      <3>4. CASE UNCHANGED <<endpointVars, sharedVars>>
        BY <3>2, <3>4, IoMoves
      <3> QED
        BY <2>3, <3>1, <3>3, <3>4 DEF HandleIoEvtUsesSock, Abort
    <2>4. ASSUME NEW e \in IoObjs, TaskErases(t, e) \/ TaskInserts(t, e) \/ TaskInsertFails(t, e)
          PROVE  Parts'
      BY <2>4, TakeStep
    <2>5. ASSUME NEW e \in IoObjs, HandleIoError(t, e) \/ HandleIoEvtTests(t, e) PROVE Parts'
      <3>1. /\ phase[t] = "events" /\ e \in arrEvts[t]
            /\ UNCHANGED <<setIoObjs, vecTmp, popped>>
            /\ \A s \in IoTasks : arrEvts'[s] \subseteq arrEvts[s]
        BY <2>5 DEF HandleIoError, HandleIoEvtTests, DispatchEvent, helperVars, TypeOK, EpollTypeOK
      <3>2. CASE HandleIoError(t, e)
        BY <3>1, <3>2, IoErrorStep DEF HandleIoError
      <3>3. CASE HandleIoEvtTests(t, e)
        <4>1. UNCHANGED <<endpointVars, sharedVars>>
          BY <3>3 DEF HandleIoEvtTests
        <4>2. CASE state[e] = "OPENED" /\ GoTo(t, "io", e)
          BY <3>1, <4>1, <4>2, IoMoves
        <4>3. CASE GoTo(t, "events", NoObj)
          BY <3>1, <4>1, <4>3, IoMoves
        <4> QED
          BY <3>3, <4>2, <4>3 DEF HandleIoEvtTests
      <3> QED
        BY <2>5, <3>2, <3>3
    <2> QED
      BY <1>5, <2>1, <2>2, <2>3, <2>4, <2>5 DEF TaskStep
  <1> QED
    BY <1>1, <1>2, <1>3, <1>4, <1>5 DEF Next, UserStep, HelperStep

LEMMA InitInv == Init => IndInv /\ CallbackHasObj
  <1> SUFFICES ASSUME Init PROVE IndInv /\ CallbackHasObj
    OBVIOUS
  <1> USE Tasks DEF Init, EpollInit
  <1>1. TypeOK /\ CallbackHasObj
    BY InitType
  <1>n. /\ NoCopies \in [IoObjs -> Nat] /\ \A o \in IoObjs : NoCopies[o] = 0
    BY DEF NoCopies
  <1>2. ASSUME NEW t \in IoTasks PROVE TaskInv(t)
    BY DEF TaskInv
  <1>3. ASSUME NEW e \in IoObjs PROVE EndpointInv(e)
    <2>1. ~Stale(e)
      BY DEF Stale
    <2>2. DueMatchesState(e)
      BY <2>1, <1>n DEF DueMatchesState, AddsDue, DelsDue, AddsInHand, DelsInHand, OneIf
    <2>3. HeldMatchesState(e)
      BY DEF HeldMatchesState
    <2>4. SockMatchesState(e) /\ PendingMatchesState(e)
      BY <2>1 DEF SockMatchesState, PendingMatchesState
    <2>5. popped # e
      OBVIOUS
    <2> QED
      BY <2>2, <2>3, <2>4, <2>5 DEF EndpointInv, OneIf
  <1> QED
    BY <1>1, <1>2, <1>3, IndInvParts DEF Parts, NoEraseMiss

LEMMA InductiveStep ==
  ASSUME IndInv, CallbackHasObj, [Next]_vars
  PROVE  IndInv'
  <1>0. TypeOK /\ NoEraseMiss /\ (Alive => Parts)
    BY IndInvParts
  <1>1. TypeOK'
    BY <1>0, TypeStep
  <1>2. CASE Next
    <2>1. Parts
      BY <1>0, <1>2 DEF Next, Alive
    <2>2. NoEraseMiss'
      BY <1>0, <1>2, <2>1, NoEraseMissStep
    <2>3. (Alive => Parts)'
      BY <1>0, <1>2, <2>1, PartsStep DEF Alive
    <2> QED
      BY <1>1, <2>2, <2>3, IndInvParts, PTL
  <1>3. CASE UNCHANGED vars
    BY <1>3 DEF IndInv, NoEraseMiss, IdleExact, IoKeepsEndpoint, Alive, TaskInv, TypeOK, EpollTypeOK,
       DueMatchesState, HeldMatchesState, SockMatchesState, PendingMatchesState, Stale,
       AddsDue, DelsDue, AddsInHand, DelsInHand,
       vars, endpointVars, helperVars, sharedVars, taskVars
  <1> QED
    BY <1>2, <1>3

(* In every reachable state the state of an endpoint determines which of   *)
(* the two tasks still has to add or delete it and which of them holds it, *)
(* whatever users, the helper, both tasks and the network do to any number *)
(* of endpoints.                                                           *)
THEOREM Inductive == Spec => []IndInv
  <1>1. IndInv /\ CallbackHasObj /\ [Next]_vars => (IndInv /\ CallbackHasObj)'
    BY InductiveStep, CallbackHasObjStep DEF IndInv
  <1> QED
    BY <1>1, InitInv, PTL DEF Spec

(* CEpoll::exec never deletes an object it does not hold: the assertion    *)
(* CMN_ASSERT(1 == stRet) of its first loop never fails for an endpoint.   *)
THEOREM EraseNeverMisses == Spec => []NoEraseMiss
  <1>1. IndInv => NoEraseMiss
    BY DEF IndInv
  <1> QED
    BY <1>1, Inductive, PTL

(* A waiting endpoint is in its helper's deque, or in the helper's hands,  *)
(* exactly once; no other endpoint is.                                     *)
THEOREM DequeIsExact == Spec => []IdleExact
  <1>1. IndInv => IdleExact
    BY DEF IndInv
  <1> QED
    BY <1>1, Inductive, PTL

(* Between an io callback's unlocked test of the state and its use of      *)
(* m_pSock, the endpoint stays with the task that runs the callback.       *)
THEOREM CallbackKeepsEndpoint == Spec => []IoKeepsEndpoint
  <1>1. IndInv => IoKeepsEndpoint
    BY DEF IndInv
  <1> QED
    BY <1>1, Inductive, PTL

(* The raw pointers epoll_wait returned are of objects the task references. *)
THEOREM EventsArePinned == Spec => []EventsPinned
  <1>1. IndInv => EventsPinned
    BY DEF IndInv, EventsPinned, TaskInv
  <1> QED
    BY <1>1, Inductive, PTL

(* An event that a task has collected finds its endpoint in the connection *)
(* it belongs to, also when a close() while ADDING_INTO_IT left the        *)
(* endpoint with the input task.                                           *)
THEOREM EventsFindTheirConnection == Spec => []EventsOfThisConnection
  <1>1. ASSUME IndInv, Alive, NEW e \in IoObjs
        PROVE  /\ e \in arrEvts["IT"] => state[e] \in {"OPENED", "DELING_FROM_IT"}
               /\ e \in arrEvts["OT"] =>
                    state[e] \in {"ADDING_INTO_IT", "OPENED", "DELING_FROM_IT", "DELING_FROM_OT"}
    <2>1. TaskInv("IT") /\ TaskInv("OT") /\ HeldMatchesState(e)
      BY <1>1 DEF IndInv
    <2>2. ASSUME NEW t \in IoTasks, TaskInv(t), e \in arrEvts[t]
          PROVE  e \in setIoObjs[t] /\ phase[t] \notin {"deled", "added"}
      BY <2>2 DEF TaskInv
    <2>3. e \in arrEvts["IT"] => state[e] \in {"OPENED", "DELING_FROM_IT"}
      BY <2>1, <2>2 DEF HeldMatchesState
    <2>4. e \in arrEvts["OT"] =>
            state[e] \in {"ADDING_INTO_IT", "OPENED", "DELING_FROM_IT", "DELING_FROM_OT"}
      BY <2>1, <2>2 DEF HeldMatchesState
    <2> QED
      BY <2>3, <2>4
  <1>2. IndInv => EventsOfThisConnection
    BY <1>1 DEF EventsOfThisConnection
  <1> QED
    BY <1>2, Inductive, PTL

(* m_pSock is never NULL where a task or a handler of the state machine    *)
(* uses it.                                                                *)
THEOREM SockNeverNull == Spec => []NoNullSock
  <1>1. ASSUME IndInv, Alive, NEW e \in IoObjs
        PROVE  /\ \A t \in IoTasks :
                    /\ phase[t] \in {"dels", "adds"} /\ vecTmp[t][e] > 0 => sock[e] # "NULL"
                    /\ phase[t] = "io" /\ cur[t] = e                     => sock[e] # "NULL"
               /\ state[e] \in {"ADDING_INTO_OT", "ADDING_INTO_IT", "OPENED"}
                    => sock[e] # "NULL"
    <2>1. TypeOK /\ EndpointInv(e)
      BY <1>1, IndInvParts DEF Parts
    <2>2. state[e] \in {"ADDING_INTO_OT", "ADDING_INTO_IT", "OPENED",
                        "DELING_FROM_IT", "DELING_FROM_OT"} \/ Stale(e)
            => sock[e] # "NULL"
      BY <2>1 DEF EndpointInv, SockMatchesState
    <2>3. ASSUME NEW t \in IoTasks, phase[t] \in {"dels", "adds"}, vecTmp[t][e] > 0
          PROVE  sock[e] # "NULL"
      <3>1. phase[t] = "adds" => AddsDue(t, e) > 0
        BY <2>1, <2>3, CountsAreNat DEF AddsDue, AddsInHand
      <3>2. phase[t] = "dels" => DelsDue(t, e) > 0
        BY <2>1, <2>3, CountsAreNat DEF DelsDue, DelsInHand
      <3>3. t = "OT" \/ t = "IT"
        OBVIOUS
      <3> QED
        BY <2>1, <2>2, <2>3, <3>1, <3>2, <3>3 DEF EndpointInv, DueMatchesState, OneIf
    <2>4. ASSUME NEW t \in IoTasks, phase[t] = "io", cur[t] = e
          PROVE  sock[e] # "NULL"
      BY <2>1, <2>2, <2>4 DEF EndpointInv
    <2> QED
      BY <2>2, <2>3, <2>4
  <1>2. IndInv => NoNullSock
    BY <1>1 DEF NoNullSock
  <1> QED
    BY <1>2, Inductive, PTL

(* The output task never finds an error pending when it has added an       *)
(* endpoint: CMN_ASSERT(EE_NONE == m_i32SMPendingEvt) holds.               *)
THEOREM NoErrPending == Spec => []NoErrPendingInOt
  <1>1. IndInv => NoErrPendingInOt
    BY DEF IndInv, NoErrPendingInOt, PendingMatchesState
  <1> QED
    BY <1>1, Inductive, PTL

-----------------------------------------------------------------------------
(* CRupEndpoint implements Connection: under the mapping Conn every step   *)
(* of the threads of RupEndpoint is a step of Connection or a stuttering   *)
(* step.                                                                   *)

Pendings == {"NONE", "CLOSE", "INTERNAL_ERR"}

(* Conn, of one endpoint in state s with p pending.                        *)
ConnOf(s, p) ==
  CASE s = "CLOSED" -> "closed"
    [] s = "OPENED" -> "opened"
    [] \/ s \in {"DELING_FROM_IT", "DELING_FROM_OT"}
       \/ s \in {"ADDING_INTO_OT", "ADDING_INTO_IT"} /\ p # "NONE"
                    -> "closing"
    [] OTHER        -> "opening"

(* The moves of Connection.                                                *)
AllowedMoves ==
  { <<"closed", "opening">>, <<"opening", "opened">>, <<"opening", "closing">>,
    <<"opened", "closing">>, <<"opening", "closed">>, <<"closing", "closed">>,
    <<"closing", "opening">> }

LEMMA ConnIs ==
  /\ Conn = [e \in IoObjs |-> ConnOf(state[e], pending[e])]
  /\ Conn' = [e \in IoObjs |-> ConnOf(state'[e], pending'[e])]
  BY DEF Conn, ConnOf

(* One endpoint has moved, or none.                                        *)
LEMMA MoveRefines ==
  ASSUME NEW e \in IoObjs, NEW s \in States, NEW p \in Pendings, TypeOK,
         state' = [state EXCEPT ![e] = s], pending' = [pending EXCEPT ![e] = p],
         \/ ConnOf(state[e], pending[e]) = ConnOf(s, p)
         \/ <<ConnOf(state[e], pending[e]), ConnOf(s, p)>> \in AllowedMoves
  PROVE  [C!Next]_Conn
  <1> DEFINE from == ConnOf(state[e], pending[e])
             to == ConnOf(s, p)
  <1>1. Conn' = [Conn EXCEPT ![e] = to] /\ Conn[e] = from
    <2>1. state \in [IoObjs -> States] /\ pending \in [IoObjs -> Pendings]
      BY DEF TypeOK, Pendings
    <2>2. \A o \in IoObjs : ConnOf(state'[o], pending'[o])
                              = IF o = e THEN to ELSE ConnOf(state[o], pending[o])
      BY <2>1
    <2> QED
      BY <2>2, ConnIs
  <1>2. from = to \/ <<from, to>> \in AllowedMoves
    OBVIOUS
  <1> HIDE DEF from, to
  <1>3. CASE from = to
    <2>1. Conn' = Conn
      BY <1>1, <1>3, ConnIs
    <2> QED
      BY <2>1
  <1>4. CASE <<from, to>> \in AllowedMoves
    <2>1. \/ from = "closed" /\ to = "opening"
          \/ from = "opening" /\ to = "opened"
          \/ from \in {"opening", "opened"} /\ to = "closing"
          \/ from \in {"opening", "closing"} /\ to = "closed"
          \/ from = "closing" /\ to = "opening"
      BY <1>4 DEF AllowedMoves
    <2>2. C!Next
      BY <1>1, <2>1 DEF C!Next, C!Open, C!Opened, C!Closing, C!Closed, C!Reopened, C!Move
    <2> QED
      BY <2>2
  <1> QED
    BY <1>2, <1>3, <1>4

(* An event posted to an endpoint moves it as Connection allows.  That     *)
(* nothing is pending in ADDED_INTO_HELPER is what keeps a new connection  *)
(* from starting as a closing one.                                         *)
LEMMA PostEvtRefines ==
  ASSUME NEW e \in IoObjs, NEW evt, TypeOK, PendingMatchesState(e), PostEvt(e, evt)
  PROVE  [C!Next]_Conn
  <1>0. /\ state \in [IoObjs -> States] /\ pending \in [IoObjs -> Pendings]
        /\ state[e] \in States /\ pending[e] \in Pendings
    BY DEF TypeOK, Pendings
  <1>1. CASE UNCHANGED <<state, pending>>
    <2>1. Conn' = Conn
      BY <1>1, ConnIs
    <2> QED
      BY <2>1
  <1>2. ASSUME NEW s \in States, NEW p \in Pendings,
               state' = [state EXCEPT ![e] = s], pending' = [pending EXCEPT ![e] = p],
               \/ ConnOf(state[e], pending[e]) = ConnOf(s, p)
               \/ <<ConnOf(state[e], pending[e]), ConnOf(s, p)>> \in AllowedMoves
        PROVE  [C!Next]_Conn
    BY <1>2, MoveRefines
  <1>3. ASSUME NEW s \in States, state' = [state EXCEPT ![e] = s], pending' = pending,
               \/ ConnOf(state[e], pending[e]) = ConnOf(s, pending[e])
               \/ <<ConnOf(state[e], pending[e]), ConnOf(s, pending[e])>> \in AllowedMoves
        PROVE  [C!Next]_Conn
    <2>1. pending' = [pending EXCEPT ![e] = pending[e]]
      BY <1>0, <1>3
    <2> QED
      BY <2>1, <1>0, <1>2, <1>3
  <1>4. CASE state[e] = "CLOSED" /\ evt = "OPEN" /\ HandlingClosedToAddedIntoHelper(e)
    <2>1. /\ state' = [state EXCEPT ![e] = "ADDED_INTO_HELPER"]
          /\ pending' = [pending EXCEPT ![e] = "NONE"]
      BY <1>4 DEF HandlingClosedToAddedIntoHelper, Enter
    <2> QED
      BY <2>1, <1>2, <1>4 DEF ConnOf, AllowedMoves, States, Pendings
  <1>5. ASSUME NEW left, ClosedByUser(e, left), ConnOf(state[e], pending[e]) \in {"opening", "closing"}
        PROVE  [C!Next]_Conn
    <2>1. CASE Enter(e, "CLOSED") /\ UNCHANGED pending
      <3>1. ConnOf("CLOSED", pending[e]) = "closed" /\ "CLOSED" \in States
        BY DEF ConnOf, States
      <3>2. <<ConnOf(state[e], pending[e]), ConnOf("CLOSED", pending[e])>> \in AllowedMoves
        BY <1>5, <3>1 DEF AllowedMoves
      <3> QED
        BY <2>1, <3>1, <3>2, <1>3 DEF Enter
    <2>2. CASE Enter(e, "ADDED_INTO_HELPER") /\ pending' = [pending EXCEPT ![e] = "NONE"]
      <3>1. /\ ConnOf("ADDED_INTO_HELPER", "NONE") = "opening"
            /\ "ADDED_INTO_HELPER" \in States /\ "NONE" \in Pendings
        BY DEF ConnOf, States, Pendings
      <3>2. \/ ConnOf(state[e], pending[e]) = ConnOf("ADDED_INTO_HELPER", "NONE")
            \/ <<ConnOf(state[e], pending[e]), ConnOf("ADDED_INTO_HELPER", "NONE")>> \in AllowedMoves
        BY <1>5, <3>1 DEF AllowedMoves
      <3> QED
        BY <2>2, <3>1, <3>2, <1>2 DEF Enter
    <2> QED
      BY <1>5, <2>1, <2>2 DEF ClosedByUser
  <1>6. CASE state[e] = "ADDED_INTO_HELPER" /\ HandlingAddedIntoHelperToClosed(e)
    <2>1. ConnOf(state[e], pending[e]) = "opening"
      BY <1>6 DEF ConnOf
    <2> QED
      BY <1>6, <2>1, <1>1, <1>5 DEF HandlingAddedIntoHelperToClosed, Abort, endpointVars
  <1>7. CASE state[e] = "ADDED_INTO_HELPER" /\ HandlingAddedIntoHelperToAddingIntoOt(e)
    <2>1. CASE sock[e] # "NULL"
      BY <1>1, <1>7, <2>1 DEF HandlingAddedIntoHelperToAddingIntoOt, Abort, endpointVars
    <2>2. CASE sock[e] = "NULL"
      <3>1. state' = [state EXCEPT ![e] = "ADDING_INTO_OT"] /\ pending' = pending
        BY <1>7, <2>2 DEF HandlingAddedIntoHelperToAddingIntoOt, Enter
      <3>2. pending[e] = "NONE"
        BY <1>7 DEF PendingMatchesState
      <3> QED
        BY <3>1, <3>2, <1>3, <1>7 DEF ConnOf, States
    <2> QED
      BY <2>1, <2>2
  <1>8. CASE state[e] = "ADDING_INTO_OT" /\ HandlingInternalErrWhileAddingIntoOt(e)
    <2>1. state' = [state EXCEPT ![e] = "CLOSED"] /\ pending' = [pending EXCEPT ![e] = "INTERNAL_ERR"]
      BY <1>8 DEF HandlingInternalErrWhileAddingIntoOt, Enter
    <2> QED
      BY <2>1, <1>2, <1>8 DEF ConnOf, AllowedMoves, States, Pendings
  <1>9. CASE /\ state[e] \in {"ADDING_INTO_OT", "ADDING_INTO_IT"} /\ evt \in {"CLOSE", "INTERNAL_ERR"}
             /\ RememberWhileAdding(e, evt)
    <2>1. state' = [state EXCEPT ![e] = state[e]] /\ pending' = [pending EXCEPT ![e] = evt]
      BY <1>0, <1>9 DEF RememberWhileAdding
    <2> QED
      BY <2>1, <1>0, <1>2, <1>9 DEF ConnOf, AllowedMoves, Pendings
  <1>10. CASE state[e] = "ADDING_INTO_OT" /\ HandlingAddedIntoOtToAddingIntoIt(e)
    <2>1. CASE pending[e] = "CLOSE"
      <3>1. state' = [state EXCEPT ![e] = "DELING_FROM_OT"] /\ pending' = pending
        BY <1>10, <2>1 DEF HandlingAddedIntoOtToAddingIntoIt, GiveUp, Enter
      <3> QED
        BY <3>1, <2>1, <1>3, <1>10 DEF ConnOf, States
    <2>2. CASE pending[e] # "CLOSE"
      <3>1. state' = [state EXCEPT ![e] = "ADDING_INTO_IT"] /\ pending' = pending
        BY <1>10, <2>2 DEF HandlingAddedIntoOtToAddingIntoIt, Enter
      <3> QED
        BY <3>1, <1>3, <1>10 DEF ConnOf, States
    <2> QED
      BY <2>1, <2>2
  <1>11. CASE state[e] = "ADDING_INTO_IT" /\ HandlingAddingIntoItToOpened(e)
    <2>1. CASE pending[e] # "NONE"
      <3>1. state' = [state EXCEPT ![e] = "DELING_FROM_OT"] /\ pending' = pending
        BY <1>11, <2>1 DEF HandlingAddingIntoItToOpened, GiveUp, Enter
      <3> QED
        BY <3>1, <2>1, <1>3, <1>11 DEF ConnOf, States
    <2>2. CASE pending[e] = "NONE"
      <3>1. PICK p \in Pendings : pending' = [pending EXCEPT ![e] = p]
        BY <1>11, <2>2 DEF HandlingAddingIntoItToOpened, Pendings
      <3>2. state' = [state EXCEPT ![e] = "OPENED"]
        BY <1>11, <2>2 DEF HandlingAddingIntoItToOpened, Enter
      <3> QED
        BY <3>1, <3>2, <2>2, <1>2, <1>11 DEF ConnOf, AllowedMoves, States
    <2> QED
      BY <2>1, <2>2
  <1>12. CASE state[e] = "OPENED" /\ HandlingCloseOrErrWhileOpened(e)
    <2>1. state' = [state EXCEPT ![e] = "DELING_FROM_IT"] /\ pending' = pending
      BY <1>12 DEF HandlingCloseOrErrWhileOpened, Enter
    <2> QED
      BY <2>1, <1>3, <1>12 DEF ConnOf, AllowedMoves, States
  <1>13. CASE state[e] = "DELING_FROM_IT" /\ HandlingDelingFromItToDelingFromOt(e)
    <2>1. state' = [state EXCEPT ![e] = "DELING_FROM_OT"] /\ pending' = pending
      BY <1>13 DEF HandlingDelingFromItToDelingFromOt, Enter
    <2> QED
      BY <2>1, <1>3, <1>13 DEF ConnOf, States
  <1>14. CASE state[e] = "DELING_FROM_OT" /\ HandlingDelingFromOtToClosed(e)
    <2>1. ConnOf(state[e], pending[e]) = "closing"
      BY <1>14 DEF ConnOf
    <2> QED
      BY <1>14, <2>1, <1>5 DEF HandlingDelingFromOtToClosed
  <1> QED
    BY <1>1, <1>4, <1>6, <1>7, <1>8, <1>9, <1>10, <1>11, <1>12, <1>13, <1>14
    DEF PostEvt, endpointVars

Events ==
  {"OPEN", "CLOSE", "CONNECTED", "INTERNAL_ERR",
   "ADDED_INTO_OT", "ADDED_INTO_IT", "DELED_FROM_OT", "DELED_FROM_IT"}

(* Every step of Next posts one event at most, and otherwise leaves the    *)
(* states alone.                                                           *)
PostsOrRests ==
  \/ UNCHANGED <<state, pending>>
  \/ Alive /\ \E e \in IoObjs, evt \in Events : PostEvt(e, evt)

LEMMA StepPosts ==
  ASSUME IndInv, CallbackHasObj, [Next]_vars
  PROVE  PostsOrRests
  <1>1. ASSUME NEW e \in IoObjs, NEW evt \in Events, PostEvt(e, evt), Alive
        PROVE  PostsOrRests
    BY <1>1 DEF PostsOrRests
  <1>2. CASE UNCHANGED <<state, pending>>
    BY <1>2 DEF PostsOrRests
  <1> USE DEF Events
  <1>3. CASE UNCHANGED vars
    BY <1>2, <1>3 DEF vars, endpointVars
  <1>4. CASE Next
    <2>0. Alive
      BY <1>4 DEF Next, Alive
    <2>1. CASE UserStep
      BY <2>0, <2>1, <1>1, <1>2
      DEF UserStep, SendDataSends, Open, Close, SendDataTests, endpointVars
    <2>2. CASE HelperStep
      <3>1. popped # NoObj => popped \in IoObjs
        BY DEF IndInv, TypeOK
      <3> QED
        BY <2>0, <2>2, <3>1, <1>1, <1>2
        DEF HelperStep, HelperConnects, HelperGivesUp, HelperHandsOver, HelperPops, endpointVars
    <2>3. ASSUME NEW t \in IoTasks, TaskStep(t) PROVE PostsOrRests
      <3>1. CASE TaskOnly
        BY <3>1, <1>2 DEF TaskOnly, endpointVars
      <3>2. CASE HandleDeledFromIoTask(t) \/ HandleAddFailed(t) \/ HandleAddedIntoIoTask(t)
        <4>1. cur[t] \in IoObjs
          BY <3>2, <2>0
          DEF HandleDeledFromIoTask, HandleAddFailed, HandleAddedIntoIoTask,
              NotifyDeled, NotifyAddFailed, NotifyAdded, IndInv, TaskInv
        <4> QED
          BY <3>2, <4>1, <2>0, <1>1
          DEF HandleDeledFromIoTask, HandleAddFailed, HandleAddedIntoIoTask, Deled, Added
      <3>3. CASE HandleIoEvtUsesSock(t)
        <4>1. cur[t] \in IoObjs
          BY <3>3, <2>0 DEF HandleIoEvtUsesSock, IndInv, TaskInv
        <4> QED
          BY <3>3, <4>1, <2>0, <1>1, <1>2 DEF HandleIoEvtUsesSock, Abort, endpointVars
      <3>4. ASSUME NEW e \in IoObjs, HandleIoError(t, e) PROVE PostsOrRests
        BY <3>4, <2>0, <1>1 DEF HandleIoError
      <3>5. ASSUME NEW e \in IoObjs, HandleIoEvtTests(t, e) PROVE PostsOrRests
        BY <3>5, <1>2 DEF HandleIoEvtTests, endpointVars
      <3> QED
        BY <2>3, <3>1, <3>2, <3>3, <3>4, <3>5 DEF TaskStep, TaskErases, TaskInserts, TaskInsertFails
    <2> QED
      BY <1>4, <2>1, <2>2, <2>3 DEF Next
  <1> QED
    BY <1>3, <1>4

LEMMA StepRefines ==
  ASSUME IndInv, CallbackHasObj, [Next]_vars
  PROVE  [C!Next]_Conn
  <1>1. CASE UNCHANGED <<state, pending>>
    <2>1. Conn' = Conn
      BY <1>1, ConnIs
    <2> QED
      BY <2>1
  <1>2. ASSUME NEW e \in IoObjs, NEW evt \in Events, PostEvt(e, evt), Alive PROVE [C!Next]_Conn
    <2>1. TypeOK /\ PendingMatchesState(e)
      BY <1>2 DEF IndInv
    <2> QED
      BY <1>2, <2>1, PostEvtRefines
  <1> QED
    BY <1>1, <1>2, StepPosts DEF PostsOrRests

(* open(), on_opened(), close() and on_closed() of an endpoint follow each *)
(* other as Connection says, whatever the helper, the two io tasks and the *)
(* users do meanwhile: a close() that was taken is never followed by       *)
(* on_opened(), and an opened endpoint closes only through closing.        *)
THEOREM Refinement == Spec => ImplementsConnection
  <1>1. Init => C!Init
    <2> SUFFICES ASSUME Init PROVE C!Init
      OBVIOUS
    <2>1. \A e \in IoObjs : ConnOf(state[e], pending[e]) = "closed"
      BY DEF Init, ConnOf
    <2> QED
      BY <2>1, ConnIs DEF C!Init
  <1>2. IndInv /\ CallbackHasObj /\ [Next]_vars => [C!Next]_Conn
    BY StepRefines
  <1>3. IndInv /\ CallbackHasObj /\ [Next]_vars => (IndInv /\ CallbackHasObj)'
    BY InductiveStep, CallbackHasObjStep DEF IndInv
  <1> QED
    BY <1>1, <1>2, <1>3, InitInv, PTL DEF Spec, ImplementsConnection, C!Spec
=============================================================================
