-------------------------- MODULE RupConnectorProofs --------------------------
(***************************************************************************)
(* The safety of RupConnector for any number of connectors and any bound   *)
(* on their deques: ConnectorsInv is an inductive invariant, from which    *)
(* both safety properties of the run follow; and every step is one of      *)
(* Connection or leaves it alone.                                          *)
(***************************************************************************)
EXTENDS RupConnector, Integers, TLAPS

OneIf(b) == IF b THEN 1 ELSE 0

-----------------------------------------------------------------------------
(* The inductive invariant.                                                *)

(* What the output task has in its hands of c: copies in the vector it     *)
(* works on, and the one it is about to make the callback for.             *)
AddsInHand(c) ==
  (IF phase["OT"] \in {"adds", "addfailed", "added"} THEN vecTmp["OT"][c] ELSE 0)
  + OneIf(phase["OT"] \in {"addfailed", "added"} /\ cur["OT"] = c)

DelsInHand(c) ==
  (IF phase["OT"] \in {"dels", "deled"} THEN vecTmp["OT"][c] ELSE 0)
  + OneIf(phase["OT"] = "deled" /\ cur["OT"] = c)

(* ... and the misc thread.                                                *)
TimerAddsInHand(c) ==
  (IF timerPhase \in {"adds", "added"} THEN timerVec[c] ELSE 0)
  + OneIf(timerPhase = "added" /\ timerCur = c)

TimerDelsInHand(c) ==
  (IF timerPhase \in {"dels", "deled"} THEN timerVec[c] ELSE 0)
  + OneIf(timerPhase = "deled" /\ timerCur = c)

(* All that is still to be done for c.                                     *)
AddsDue(c)      == AddCache["OT"][c] + AddsInHand(c)
DelsDue(c)      == DelCache["OT"][c] + DelsInHand(c)
TimerAddsDue(c) == TimerAddCache[c] + TimerAddsInHand(c)
TimerDelsDue(c) == TimerDelCache[c] + TimerDelsInHand(c)

(* The state of a connector says what is due.  After a failed addition     *)
(* nothing is, and the connector stays in ADDING_INTO_OT.                  *)
DueMatchesState(c) ==
  /\ AddsDue(c) \in 0 .. OneIf(state[c] = "ADDING_INTO_OT" /\ pending[c] # "INTERNAL_ERR")
  /\ DelsDue(c) = OneIf(state[c] \in {"DELING_FROM_OT_CLOSE", "DELING_FROM_OT_NORMAL"})
  /\ TimerAddsDue(c) = OneIf(state[c] = "ADDING_INTO_TT")
  /\ TimerDelsDue(c) = OneIf(state[c] = "DELING_FROM_TT")

Adding(c)       == phase["OT"] = "added" /\ cur["OT"] = c
Deleting(c)     == phase["OT"] = "deled" /\ cur["OT"] = c
AddingTimer(c)  == timerPhase = "added" /\ timerCur = c
DeletingTimer(c) == timerPhase = "deled" /\ timerCur = c

(* It says which thread holds it.  Events and checks are of connectors     *)
(* that are held.                                                          *)
HeldMatchesState(c) ==
  /\ c \in setIoObjs["OT"] <=>
       \/ state[c] = "CONNECTING"
       \/ state[c] \in {"DELING_FROM_OT_CLOSE", "DELING_FROM_OT_NORMAL"} /\ ~ Deleting(c)
       \/ state[c] = "ADDING_INTO_OT" /\ Adding(c)
  /\ c \in setTimers <=>
       /\ state[c] # "CLOSED"
       /\ state[c] = "ADDING_INTO_TT" => AddingTimer(c)
       /\ state[c] = "DELING_FROM_TT" => ~ DeletingTimer(c)
  /\ c \in armed["OT"] => c \in setIoObjs["OT"]
  /\ c \in arrEvts["OT"] => c \in setIoObjs["OT"]
  /\ c \in toCheck => c \in setTimers
  /\ timerPhase = "on_timer" /\ timerCur = c => c \in setTimers

SockMatchesState(c) ==
  /\ state[c] \in {"CLOSED", "ADDING_INTO_TT", "CHECKING_TIMER", "DELING_FROM_TT"}
       => sock[c] # "open"
  /\ state[c] \in {"ADDING_INTO_OT", "DELING_FROM_OT_NORMAL"} => sock[c] # "NULL"
  /\ state[c] = "ADDING_INTO_OT" /\ Adding(c) => sock[c] = "open"
  /\ state[c] = "CONNECTING" => sock[c] = "open"
  /\ state[c] = "DELING_FROM_OT_CLOSE" => sock[c] = "closed"
  /\ c \in armed["OT"] => sock[c] = "open"
  /\ pending[c] = "INTERNAL_ERR" => state[c] = "ADDING_INTO_OT"

ConnectorInv(c) == DueMatchesState(c) /\ HeldMatchesState(c) /\ SockMatchesState(c)

(* The local variables of the two threads agree with where they are.       *)
TaskInv ==
  /\ phase["OT"] # "io"
  /\ cur["OT"] # NoObj <=> phase["OT"] \in {"deled", "addfailed", "added"}
  /\ phase["OT"] \in {"top", "events"} => \A c \in IoObjs : vecTmp["OT"][c] = 0
  /\ phase["OT"] # "events" => arrEvts["OT"] = {}

TimerInv ==
  /\ timerCur # NoTimer <=> timerPhase \in {"deled", "added", "on_timer"}
  /\ timerPhase \in {"top", "check", "on_timer"} => \A c \in IoObjs : timerVec[c] = 0
  /\ timerPhase \notin {"check", "on_timer"} => toCheck = {}

ConnectorsInv ==
  /\ TypeOK
  /\ aborted \in {"none", "m_pTcpSock"}
  /\ Alive => TaskInv /\ TimerInv /\ \A c \in IoObjs : ConnectorInv(c)

-----------------------------------------------------------------------------
(* Types.                                                                  *)

USE ConnectorAssumption, NoObjAssumption, NoTimerAssumption

Counts == [IoTasks -> [IoObjs -> Nat]]

LEMMA OneTask == "OT" \in IoTasks /\ \A t \in IoTasks : t = "OT"
  OBVIOUS

LEMMA EntryType ==
  ASSUME NEW f \in Counts, NEW o, NEW n \in Nat
  PROVE  [f EXCEPT !["OT"][o] = n] \in Counts
  BY OneTask DEF Counts

LEMMA CountsAreNat ==
  ASSUME TypeOK, NEW x \in IoObjs
  PROVE  /\ AddCache["OT"][x] \in Nat /\ DelCache["OT"][x] \in Nat /\ vecTmp["OT"][x] \in Nat
         /\ TimerAddCache[x] \in Nat /\ TimerDelCache[x] \in Nat /\ timerVec[x] \in Nat
  <1>1. /\ AddCache["OT"] \in [IoObjs -> Nat] /\ DelCache["OT"] \in [IoObjs -> Nat]
        /\ vecTmp["OT"] \in [IoObjs -> Nat]
    BY OneTask DEF TypeOK, EpollTypeOK
  <1> QED
    BY <1>1 DEF TypeOK, TimerTypeOK

LEMMA CountsAreNatNext ==
  ASSUME TypeOK', NEW x \in IoObjs
  PROVE  /\ AddCache'["OT"][x] \in Nat /\ DelCache'["OT"][x] \in Nat /\ vecTmp'["OT"][x] \in Nat
         /\ TimerAddCache'[x] \in Nat /\ TimerDelCache'[x] \in Nat /\ timerVec'[x] \in Nat
  <1>1. /\ AddCache'["OT"] \in [IoObjs -> Nat] /\ DelCache'["OT"] \in [IoObjs -> Nat]
        /\ vecTmp'["OT"] \in [IoObjs -> Nat]
    BY OneTask DEF TypeOK, EpollTypeOK
  <1> QED
    BY <1>1 DEF TypeOK, TimerTypeOK

(* What a handler touches.                                                 *)
HandlerTypeOK ==
  /\ AddCache \in Counts /\ DelCache \in Counts
  /\ armed \in [IoTasks -> SUBSET IoObjs]
  /\ TimerAddCache \in [IoObjs -> Nat] /\ TimerDelCache \in [IoObjs -> Nat]
  /\ state   \in [IoObjs -> States]
  /\ pending \in [IoObjs -> {"NONE", "CLOSE", "INTERNAL_ERR"}]
  /\ sock    \in [IoObjs -> {"NULL", "open", "closed"}]
  /\ idle    \in [IoObjs -> 0 .. MaxIdle]
  /\ aborted \in {"none", "erase", "insert", "timer_erase", "timer_insert",
                  "m_pTcpSock", "pending", "is_opened"}

(* What only the two threads touch.                                        *)
ThreadTypeOK ==
  /\ setIoObjs \in [IoTasks -> SUBSET IoObjs]
  /\ vecTmp    \in Counts
  /\ arrEvts   \in [IoTasks -> SUBSET IoObjs]
  /\ phase     \in [IoTasks -> Phases]
  /\ cur       \in [IoTasks -> IoObjs \cup {NoObj}]
  /\ setTimers  \subseteq IoObjs
  /\ timerVec   \in [IoObjs -> Nat]
  /\ toCheck    \subseteq IoObjs
  /\ timerPhase \in TimerPhases
  /\ timerCur   \in IoObjs \cup {NoTimer}

LEMMA TypeParts ==
  /\ TypeOK <=> HandlerTypeOK /\ ThreadTypeOK
  /\ TypeOK' <=> HandlerTypeOK' /\ ThreadTypeOK'
  BY DEF TypeOK, EpollTypeOK, TimerTypeOK, HandlerTypeOK, ThreadTypeOK, Counts

LEMMA InitTypes == Init => TypeOK
  BY OneTask
  DEF Init, EpollInit, TimerInit, TypeOK, EpollTypeOK, TimerTypeOK, States, Phases, TimerPhases,
      NoCopies, NoTimers

LEMMA EventTypes ==
  ASSUME HandlerTypeOK, NEW c, NEW evt, PostEvt(c, evt)
  PROVE  HandlerTypeOK'
  <1> USE DEF HandlerTypeOK, Enter, Abort, connectorVars, sharedVars, timerCaches, States
  <1>1. /\ AddIoObj("OT", c) => AddCache' \in Counts
        /\ DelIoObj("OT", c) => DelCache' \in Counts
    BY OneTask DEF AddIoObj, DelIoObj, Counts
  <1>2. /\ AddTimer(c) => TimerAddCache' \in [IoObjs -> Nat]
        /\ DelTimer(c) => TimerDelCache' \in [IoObjs -> Nat]
    BY DEF AddTimer, DelTimer
  <1>3. Disarm(c) => armed' \in [IoTasks -> SUBSET IoObjs]
    BY DEF Disarm
  <1>4. CASE UNCHANGED <<connectorVars, sharedVars, timerCaches>>
    BY <1>4
  <1>5. CASE HandlingClosedToAddingIntoTt(c)
    BY <1>5, <1>2 DEF HandlingClosedToAddingIntoTt
  <1>6. CASE evt \in {"CLOSE", "INTERNAL_ERR"} /\ Remember(c, evt)
    BY <1>6 DEF Remember
  <1>7. CASE HandlingAddingIntoTtToCheckingTimer(c)
    BY <1>7, <1>2 DEF HandlingAddingIntoTtToCheckingTimer, LeaveTimerTask
  <1>8. CASE HandlingCloseWhileCheckingTimer(c) \/ HandlingDelingFromOtCloseToDelingFromTt(c)
    BY <1>8, <1>2 DEF HandlingCloseWhileCheckingTimer, HandlingDelingFromOtCloseToDelingFromTt, LeaveTimerTask
  <1>9. CASE HandlingCheckingTimerToAddingIntoOt(c)
    BY <1>9, <1>1 DEF HandlingCheckingTimerToAddingIntoOt
  <1>10. ASSUME NEW s \in States, LeaveOutputTask(c, s) PROVE HandlerTypeOK'
    <2>1. DelCache' \in Counts /\ armed' \in [IoTasks -> SUBSET IoObjs]
      BY <1>10, <1>1, <1>3 DEF LeaveOutputTask, CloseSock
    <2>2. state' \in [IoObjs -> States] /\ sock' \in [IoObjs -> {"NULL", "open", "closed"}]
      BY <1>10 DEF LeaveOutputTask, CloseSock
    <2>3. UNCHANGED <<pending, idle, AddCache, aborted, TimerAddCache, TimerDelCache>>
      BY <1>10 DEF LeaveOutputTask
    <2> QED
      BY <2>1, <2>2, <2>3
  <1>11. CASE HandlingAddingIntoOtToConnecting(c)
    <2>1. CASE \E s \in States : LeaveOutputTask(c, s)
      BY <2>1, <1>10
    <2>2. CASE /\ Enter(c, "CONNECTING")
               /\ UNCHANGED <<pending, sock, idle, sharedVars, timerCaches>>
      BY <2>2
    <2>3. {"DELING_FROM_OT_CLOSE", "DELING_FROM_OT_NORMAL"} \subseteq States
      OBVIOUS
    <2> QED
      <3> HIDE DEF HandlerTypeOK, Enter, connectorVars, sharedVars, timerCaches, States
      <3> QED
        BY <1>11, <2>1, <2>2, <2>3 DEF HandlingAddingIntoOtToConnecting
  <1>12. CASE HandlingConnected(c)
    <2>1. CASE Abort("is_opened")
      BY <2>1
    <2>2. CASE /\ DelIoObj("OT", c)
               /\ Enter(c, "DELING_FROM_OT_NORMAL")
               /\ UNCHANGED <<pending, sock, idle, AddCache, armed, aborted, timerCaches>>
      BY <2>2, <1>1
    <2> QED
      BY <1>12, <2>1, <2>2 DEF HandlingConnected
  <1>13. CASE HandlingInternalErrWhileDelingFromOtNormal(c)
    BY <1>13, <1>3 DEF HandlingInternalErrWhileDelingFromOtNormal, CloseSock
  <1>14. CASE HandlingDelingFromOtNormalToCheckingTimer(c)
    BY <1>14, <1>2, <1>3 DEF HandlingDelingFromOtNormalToCheckingTimer, LeaveTimerTask
  <1>15. CASE HandlingDelingFromTtToClosed(c)
    BY <1>15 DEF HandlingDelingFromTtToClosed
  <1>16. CASE \E s \in {"DELING_FROM_OT_CLOSE", "DELING_FROM_OT_NORMAL"} : LeaveOutputTask(c, s)
    BY <1>16, <1>10
  <1> QED
    BY <1>4, <1>5, <1>6, <1>7, <1>8, <1>9, <1>11, <1>12, <1>13, <1>14, <1>15, <1>16 DEF PostEvt

LEMMA TypeStep == TypeOK /\ [Next]_vars => TypeOK'
  <1> SUFFICES ASSUME TypeOK, [Next]_vars PROVE TypeOK'
    OBVIOUS
  <1>0. HandlerTypeOK /\ ThreadTypeOK
    BY TypeParts
  <1> USE DEF connectorVars, sharedVars, taskVars, timerCaches, timerVars
  <1>1. ASSUME ThreadTypeOK', NEW c, NEW evt, PostEvt(c, evt) PROVE TypeOK'
    BY <1>0, <1>1, EventTypes, TypeParts
  <1>2. ASSUME UNCHANGED <<taskVars, timerVars>> PROVE ThreadTypeOK'
    BY <1>0, <1>2 DEF ThreadTypeOK
  <1>3. ASSUME HandlerTypeOK', ThreadTypeOK' PROVE TypeOK'
    BY <1>3, TypeParts
  <1>4. ASSUME NEW p \in Phases, NEW c \in IoObjs \cup {NoObj}, GoTo("OT", p, c)
        PROVE  phase' \in [IoTasks -> Phases] /\ cur' \in [IoTasks -> IoObjs \cup {NoObj}]
    BY <1>0, <1>4 DEF ThreadTypeOK, GoTo
  <1>5. ASSUME NEW p, NEW c \in IoObjs, TakeFrom("OT", p, c) PROVE vecTmp' \in Counts
    <2>1. vecTmp["OT"][c] \in Nat
      BY CountsAreNat
    <2>2. vecTmp["OT"][c] - 1 \in Nat
      BY <1>5, <2>1 DEF TakeFrom
    <2> QED
      BY <1>0, <1>5, <2>2, EntryType DEF TakeFrom, ThreadTypeOK
  <1>6. ASSUME NEW p, NEW c \in IoObjs, TakeTimer(p, c) PROVE timerVec' \in [IoObjs -> Nat]
    <2>1. timerVec[c] - 1 \in Nat
      BY <1>0, <1>6 DEF TakeTimer, ThreadTypeOK
    <2> QED
      BY <1>0, <1>6, <2>1 DEF TakeTimer, ThreadTypeOK
  <1>7. /\ {"top", "dels", "deled", "adds", "addfailed", "added", "events"} \subseteq Phases
        /\ {"top", "dels", "deled", "adds", "added", "check", "on_timer"} \subseteq TimerPhases
    BY DEF Phases, TimerPhases
  <1>8. CASE UNCHANGED vars
    BY <1>0, <1>2, <1>3, <1>8 DEF vars, HandlerTypeOK
  <1>9. CASE UserStep
    <2>1. ASSUME NEW c \in IoObjs, ByUser(c, "OPEN") \/ ByUser(c, "CLOSE") PROVE TypeOK'
      BY <2>1, <1>1, <1>2 DEF ByUser
    <2>2. ASSUME NEW c \in IoObjs, AddEndpoint(c) \/ DelEndpoint(c) PROVE TypeOK'
      <3>1. idle' \in [IoObjs -> 0 .. MaxIdle]
        BY <2>2, <1>0 DEF AddEndpoint, DelEndpoint, HandlerTypeOK
      <3>2. HandlerTypeOK'
        BY <2>2, <3>1, <1>0 DEF AddEndpoint, DelEndpoint, HandlerTypeOK
      <3> QED
        BY <2>2, <3>2, <1>2, <1>3 DEF AddEndpoint, DelEndpoint
    <2> QED
      BY <1>9, <2>1, <2>2 DEF UserStep, Open, Close
  <1>10. CASE TimerStep
    <2>1. CASE (SwapTimerDels \/ SwapTimerAdds) /\ TimerOnly
      <3>1. HandlerTypeOK'
        BY <2>1, <1>0 DEF SwapTimerDels, SwapTimerAdds, TimerOnly, HandlerTypeOK, NoTimers
      <3>2. ThreadTypeOK'
        BY <2>1, <1>0, <1>7 DEF SwapTimerDels, SwapTimerAdds, TimerOnly, TimerGoTo, HandlerTypeOK, ThreadTypeOK
      <3> QED
        BY <3>1, <3>2, <1>3
    <2>2. CASE (StartChecks \/ TimerExecReturns) /\ TimerOnly
      <3>1. HandlerTypeOK'
        BY <2>2, <1>0 DEF StartChecks, TimerExecReturns, TimerOnly, HandlerTypeOK
      <3>2. ThreadTypeOK'
        BY <2>2, <1>0, <1>7 DEF StartChecks, TimerExecReturns, TimerOnly, TimerGoTo, ThreadTypeOK
      <3> QED
        BY <3>1, <3>2, <1>3
    <2>3. CASE HandleDelFromTimerTask \/ HandleAddIntoTimerTask \/ OnTimerPosts
      <3>1. ThreadTypeOK'
        BY <2>3, <1>0, <1>7
        DEF HandleDelFromTimerTask, HandleAddIntoTimerTask, OnTimerPosts, NotifyTimerDeled,
            NotifyTimerAdded, TimerReturns, TimerGoTo, ThreadTypeOK
      <3> QED
        BY <2>3, <3>1, <1>1 DEF HandleDelFromTimerTask, HandleAddIntoTimerTask, OnTimerPosts
    <2>4. ASSUME NEW c \in IoObjs, TimerTaskErases(c) \/ TimerTaskInserts(c) PROVE TypeOK'
      <3>1. HandlerTypeOK'
        BY <2>4, <1>0 DEF TimerTaskErases, TimerTaskInserts, EraseTimer, InsertTimer, HandlerTypeOK
      <3>2. timerVec' \in [IoObjs -> Nat]
        BY <2>4, <1>6 DEF TimerTaskErases, TimerTaskInserts, EraseTimer, InsertTimer
      <3>3. ThreadTypeOK'
        BY <2>4, <1>0, <1>7, <3>2
        DEF TimerTaskErases, TimerTaskInserts, EraseTimer, InsertTimer, TimerGoTo, ThreadTypeOK
      <3> QED
        BY <3>1, <3>3, <1>3
    <2>5. ASSUME NEW c \in IoObjs, (NotDue(c) /\ TimerOnly) \/ OnTimerTests(c) PROVE TypeOK'
      <3>1. HandlerTypeOK'
        BY <2>5, <1>0 DEF NotDue, OnTimerTests, TimerDue, TimerOnly, HandlerTypeOK
      <3>2. ThreadTypeOK'
        BY <2>5, <1>0, <1>7 DEF NotDue, OnTimerTests, TimerDue, TimerOnly, TimerGoTo, ThreadTypeOK
      <3> QED
        BY <3>1, <3>2, <1>3
    <2> QED
      BY <1>10, <2>1, <2>2, <2>3, <2>4, <2>5 DEF TimerStep
  <1>11. CASE TaskStep
    <2>1. CASE (SwapDelCache("OT") \/ SwapAddCache("OT")) /\ TaskOnly
      <3>1. NoCopies \in [IoObjs -> Nat] /\ AddCache["OT"] \in [IoObjs -> Nat] /\ DelCache["OT"] \in [IoObjs -> Nat]
        BY <1>0 DEF NoCopies, HandlerTypeOK, Counts
      <3>2. HandlerTypeOK'
        BY <2>1, <3>1, <1>0 DEF SwapDelCache, SwapAddCache, TaskOnly, HandlerTypeOK, Counts
      <3>3. phase' \in [IoTasks -> Phases] /\ cur' \in [IoTasks -> IoObjs \cup {NoObj}]
        BY <2>1, <1>4, <1>7 DEF SwapDelCache, SwapAddCache
      <3>4. ThreadTypeOK'
        BY <2>1, <3>1, <3>3, <1>0 DEF SwapDelCache, SwapAddCache, TaskOnly, ThreadTypeOK, Counts
      <3> QED
        BY <3>2, <3>4, <1>3
    <2>2. CASE (EpollWait("OT") \/ ExecReturns("OT")) /\ TaskOnly
      <3>1. HandlerTypeOK'
        BY <2>2, <1>0 DEF EpollWait, ExecReturns, TaskOnly, HandlerTypeOK
      <3>2. phase' \in [IoTasks -> Phases] /\ cur' \in [IoTasks -> IoObjs \cup {NoObj}]
        BY <2>2, <1>4, <1>7 DEF EpollWait, ExecReturns
      <3>3. arrEvts' \in [IoTasks -> SUBSET IoObjs]
        <4>1. armed["OT"] \subseteq IoObjs
          BY <1>0 DEF HandlerTypeOK
        <4> QED
          BY <2>2, <4>1, <1>0 DEF EpollWait, ExecReturns, ThreadTypeOK
      <3>4. ThreadTypeOK'
        BY <2>2, <3>2, <3>3, <1>0 DEF EpollWait, ExecReturns, TaskOnly, ThreadTypeOK
      <3> QED
        BY <3>1, <3>4, <1>3
    <2>3. CASE HandleAddFailed \/ HandleAddedIntoIoTask \/ HandleDeledFromIoTask
      <3>1. phase' \in [IoTasks -> Phases] /\ cur' \in [IoTasks -> IoObjs \cup {NoObj}]
        BY <2>3, <1>4, <1>7
        DEF HandleAddFailed, HandleAddedIntoIoTask, HandleDeledFromIoTask, NotifyAdded, NotifyDeled
      <3>2. ThreadTypeOK'
        BY <2>3, <3>1, <1>0
        DEF HandleAddFailed, HandleAddedIntoIoTask, HandleDeledFromIoTask, NotifyAdded, NotifyDeled, ThreadTypeOK
      <3> QED
        BY <2>3, <3>2, <1>1 DEF HandleAddFailed, HandleAddedIntoIoTask, HandleDeledFromIoTask
    <2>4. ASSUME NEW c \in IoObjs,
                 (EraseIoObj("OT", c) /\ TaskOnly) \/ TaskInserts(c) \/ TaskInsertFails(c)
          PROVE  TypeOK'
      <3> USE DEF EraseIoObj, TaskInserts, InsertIoObj, TaskInsertFails, InsertFails, TaskOnly
      <3>1. HandlerTypeOK'
        BY <2>4, <1>0 DEF HandlerTypeOK
      <3>2. phase' \in [IoTasks -> Phases] /\ cur' \in [IoTasks -> IoObjs \cup {NoObj}]
        BY <2>4, <1>4, <1>7
      <3>3. vecTmp' \in Counts
        BY <2>4, <1>5
      <3>4. ThreadTypeOK'
        BY <2>4, <3>2, <3>3, <1>0 DEF ThreadTypeOK
      <3> QED
        BY <3>1, <3>4, <1>3
    <2>5. ASSUME NEW c \in IoObjs, NEW evt, HandleIoEvt(c, evt) PROVE TypeOK'
      <3>1. phase' \in [IoTasks -> Phases] /\ cur' \in [IoTasks -> IoObjs \cup {NoObj}]
        BY <2>5, <1>4, <1>7 DEF HandleIoEvt
      <3>2. ThreadTypeOK'
        BY <2>5, <3>1, <1>0 DEF HandleIoEvt, DispatchEvent, ThreadTypeOK
      <3> QED
        BY <2>5, <3>2, <1>1 DEF HandleIoEvt
    <2> QED
      BY <1>11, <2>1, <2>2, <2>3, <2>4, <2>5 DEF TaskStep
  <1> QED
    BY <1>8, <1>9, <1>10, <1>11 DEF Next

-----------------------------------------------------------------------------
(* The handlers.                                                           *)

(* After an event connector c is in state s with p pending and socket k,   *)
(* a and d are what it added to the caches of the output task, ta and td   *)
(* to those of the misc thread; the other connectors are as before.        *)
Effect(c, s, p, k, a, d, ta, td) ==
  /\ \A x \in IoObjs :
       /\ state'[x]   = IF x = c THEN s ELSE state[x]
       /\ pending'[x] = IF x = c THEN p ELSE pending[x]
       /\ sock'[x]    = IF x = c THEN k ELSE sock[x]
       /\ AddCache'["OT"][x] = IF x = c THEN AddCache["OT"][c] + a ELSE AddCache["OT"][x]
       /\ DelCache'["OT"][x] = IF x = c THEN DelCache["OT"][c] + d ELSE DelCache["OT"][x]
       /\ TimerAddCache'[x] = IF x = c THEN TimerAddCache[c] + ta ELSE TimerAddCache[x]
       /\ TimerDelCache'[x] = IF x = c THEN TimerDelCache[c] + td ELSE TimerDelCache[x]
       /\ x \in armed'["OT"] => x \in armed["OT"]
  /\ sock[c] = "open" /\ k # "open" => c \notin armed'["OT"]

Stays(c) == Effect(c, state[c], pending[c], sock[c], 0, 0, 0, 0)

Outcome(c, evt) ==
  \/ <<state[c], evt>> \notin Handled /\ Stays(c)
  \/ /\ state[c] = "CLOSED" /\ evt = "OPEN"
     /\ Effect(c, "ADDING_INTO_TT", "NONE", sock[c], 0, 0, 1, 0)
  \/ /\ \/ state[c] \in {"ADDING_INTO_TT", "DELING_FROM_OT_NORMAL"} /\ evt = "CLOSE"
        \/ state[c] = "ADDING_INTO_OT" /\ evt \in {"CLOSE", "INTERNAL_ERR"}
     /\ Effect(c, state[c], evt, sock[c], 0, 0, 0, 0)
  \/ /\ state[c] = "ADDING_INTO_TT" /\ evt = "ADDED_INTO_TT"
     /\ \/ pending[c] # "NONE" /\ Effect(c, "DELING_FROM_TT", pending[c], sock[c], 0, 0, 0, 1)
        \/ /\ pending[c] = "NONE"
           /\ \E p \in {"NONE", "CLOSE"} : Effect(c, "CHECKING_TIMER", p, sock[c], 0, 0, 0, 0)
  \/ /\ state[c] = "CHECKING_TIMER" /\ evt = "CLOSE" /\ sock[c] = "NULL"
     /\ Effect(c, "DELING_FROM_TT", pending[c], sock[c], 0, 0, 0, 1)
  \/ /\ state[c] = "CHECKING_TIMER" /\ evt = "CONNECT" /\ sock[c] = "NULL"
     /\ \E k \in {"open", "closed"} : Effect(c, "ADDING_INTO_OT", pending[c], k, 1, 0, 0, 0)
  \/ /\ state[c] = "ADDING_INTO_OT" /\ evt = "ADDED_INTO_OT"
     /\ \/ pending[c] = "CLOSE" /\ Effect(c, "DELING_FROM_OT_CLOSE", pending[c], "closed", 0, 1, 0, 0)
        \/ /\ pending[c] = "INTERNAL_ERR"
           /\ Effect(c, "DELING_FROM_OT_NORMAL", pending[c], "closed", 0, 1, 0, 0)
        \/ pending[c] = "NONE" /\ Effect(c, "CONNECTING", pending[c], sock[c], 0, 0, 0, 0)
  \/ /\ state[c] = "CONNECTING" /\ evt = "CLOSE"
     /\ Effect(c, "DELING_FROM_OT_CLOSE", pending[c], "closed", 0, 1, 0, 0)
  \/ /\ state[c] = "CONNECTING" /\ evt = "INTERNAL_ERR"
     /\ Effect(c, "DELING_FROM_OT_NORMAL", pending[c], "closed", 0, 1, 0, 0)
  \/ /\ state[c] = "CONNECTING" /\ evt = "CONNECTED" /\ sock[c] = "open"
     /\ Effect(c, "DELING_FROM_OT_NORMAL", pending[c], sock[c], 0, 1, 0, 0)
  \/ /\ state[c] = "DELING_FROM_OT_CLOSE" /\ evt = "DELED_FROM_OT" /\ sock[c] # "open"
     /\ Effect(c, "DELING_FROM_TT", pending[c], sock[c], 0, 0, 0, 1)
  \/ /\ state[c] = "DELING_FROM_OT_NORMAL" /\ evt = "INTERNAL_ERR"
     /\ Effect(c, state[c], pending[c], "closed", 0, 0, 0, 0)
  \/ /\ state[c] = "DELING_FROM_OT_NORMAL" /\ evt = "DELED_FROM_OT"
     /\ \/ pending[c] = "CLOSE" /\ Effect(c, "DELING_FROM_TT", pending[c], "NULL", 0, 0, 0, 1)
        \/ pending[c] = "NONE" /\ Effect(c, "CHECKING_TIMER", pending[c], "NULL", 0, 0, 0, 0)
  \/ /\ state[c] = "DELING_FROM_TT" /\ evt = "DELED_FROM_TT"
     /\ Effect(c, "CLOSED", pending[c], sock[c], 0, 0, 0, 0)

LEMMA CacheEffects ==
  ASSUME TypeOK, NEW c \in IoObjs, NEW x \in IoObjs
  PROVE  /\ AddIoObj("OT", c) =>
              AddCache'["OT"][x] = IF x = c THEN AddCache["OT"][c] + 1 ELSE AddCache["OT"][x]
         /\ DelIoObj("OT", c) =>
              DelCache'["OT"][x] = IF x = c THEN DelCache["OT"][c] + 1 ELSE DelCache["OT"][x]
         /\ AddTimer(c) =>
              TimerAddCache'[x] = IF x = c THEN TimerAddCache[c] + 1 ELSE TimerAddCache[x]
         /\ DelTimer(c) =>
              TimerDelCache'[x] = IF x = c THEN TimerDelCache[c] + 1 ELSE TimerDelCache[x]
         /\ Disarm(c) => (x \in armed'["OT"] => x \in armed["OT"]) /\ c \notin armed'["OT"]
  <1>1. /\ AddCache \in Counts /\ DelCache \in Counts /\ armed \in [IoTasks -> SUBSET IoObjs]
        /\ TimerAddCache \in [IoObjs -> Nat] /\ TimerDelCache \in [IoObjs -> Nat]
    BY TypeParts DEF HandlerTypeOK
  <1>2. ASSUME AddIoObj("OT", c)
        PROVE  AddCache'["OT"][x] = IF x = c THEN AddCache["OT"][c] + 1 ELSE AddCache["OT"][x]
    <2>1. AddCache' = [AddCache EXCEPT !["OT"][c] = AddCache["OT"][c] + 1]
      BY <1>2 DEF AddIoObj
    <2>2. AddCache["OT"] \in [IoObjs -> Nat]
      BY <1>1, OneTask DEF Counts
    <2>3. AddCache'["OT"] = [AddCache["OT"] EXCEPT ![c] = AddCache["OT"][c] + 1]
      BY <2>1, <1>1, OneTask DEF Counts
    <2> QED
      BY <2>2, <2>3
  <1>3. ASSUME DelIoObj("OT", c)
        PROVE  DelCache'["OT"][x] = IF x = c THEN DelCache["OT"][c] + 1 ELSE DelCache["OT"][x]
    <2>1. DelCache' = [DelCache EXCEPT !["OT"][c] = DelCache["OT"][c] + 1]
      BY <1>3 DEF DelIoObj
    <2>2. DelCache["OT"] \in [IoObjs -> Nat]
      BY <1>1, OneTask DEF Counts
    <2>3. DelCache'["OT"] = [DelCache["OT"] EXCEPT ![c] = DelCache["OT"][c] + 1]
      BY <2>1, <1>1, OneTask DEF Counts
    <2> QED
      BY <2>2, <2>3
  <1>4. /\ AddTimer(c) =>
             TimerAddCache'[x] = IF x = c THEN TimerAddCache[c] + 1 ELSE TimerAddCache[x]
        /\ DelTimer(c) =>
             TimerDelCache'[x] = IF x = c THEN TimerDelCache[c] + 1 ELSE TimerDelCache[x]
    BY <1>1 DEF AddTimer, DelTimer
  <1>5. Disarm(c) => (x \in armed'["OT"] => x \in armed["OT"]) /\ c \notin armed'["OT"]
    BY <1>1, OneTask DEF Disarm
  <1> QED
    BY <1>2, <1>3, <1>4, <1>5

(* What a handler calls and what it leaves.                                *)
LEMMA HandlerOutcome ==
  ASSUME TypeOK, NEW c \in IoObjs, NEW evt, PostEvt(c, evt), aborted' = aborted, Alive
  PROVE  Outcome(c, evt)
  <1>t. /\ state \in [IoObjs -> States] /\ idle \in [IoObjs -> 0 .. MaxIdle]
        /\ pending \in [IoObjs -> {"NONE", "CLOSE", "INTERNAL_ERR"}]
        /\ sock \in [IoObjs -> {"NULL", "open", "closed"}]
    BY TypeParts DEF HandlerTypeOK
  <1>n. \A x \in IoObjs : /\ AddCache["OT"][x] \in Nat /\ DelCache["OT"][x] \in Nat
                          /\ TimerAddCache[x] \in Nat /\ TimerDelCache[x] \in Nat
    BY CountsAreNat
  <1>c. \A x \in IoObjs :
          /\ AddIoObj("OT", c) =>
               AddCache'["OT"][x] = IF x = c THEN AddCache["OT"][c] + 1 ELSE AddCache["OT"][x]
          /\ DelIoObj("OT", c) =>
               DelCache'["OT"][x] = IF x = c THEN DelCache["OT"][c] + 1 ELSE DelCache["OT"][x]
          /\ AddTimer(c) =>
               TimerAddCache'[x] = IF x = c THEN TimerAddCache[c] + 1 ELSE TimerAddCache[x]
          /\ DelTimer(c) =>
               TimerDelCache'[x] = IF x = c THEN TimerDelCache[c] + 1 ELSE TimerDelCache[x]
          /\ Disarm(c) => (x \in armed'["OT"] => x \in armed["OT"]) /\ c \notin armed'["OT"]
    BY CacheEffects
  <1>a. aborted' = "none"
    BY DEF Alive
  <1>e. pending[c] \in {"NONE", "CLOSE", "INTERNAL_ERR"}
    BY <1>t
  <1> USE DEF Enter, connectorVars, sharedVars, timerCaches, Effect, Abort
  <1>1. ASSUME UNCHANGED <<connectorVars, sharedVars, timerCaches>> PROVE Stays(c)
    BY <1>1, <1>t, <1>n DEF Stays
  <1>2. ASSUME HandlingClosedToAddingIntoTt(c)
        PROVE  Effect(c, "ADDING_INTO_TT", "NONE", sock[c], 0, 0, 1, 0)
    BY <1>2, <1>t, <1>n, <1>c DEF HandlingClosedToAddingIntoTt
  <1>3. ASSUME Remember(c, evt) PROVE Effect(c, state[c], evt, sock[c], 0, 0, 0, 0)
    BY <1>3, <1>t, <1>n DEF Remember
  <1>4. ASSUME HandlingAddingIntoTtToCheckingTimer(c)
        PROVE  \/ pending[c] # "NONE" /\ Effect(c, "DELING_FROM_TT", pending[c], sock[c], 0, 0, 0, 1)
               \/ /\ pending[c] = "NONE"
                  /\ \E p \in {"NONE", "CLOSE"} : Effect(c, "CHECKING_TIMER", p, sock[c], 0, 0, 0, 0)
    <2>1. CASE pending[c] # "NONE"
      BY <2>1, <1>4, <1>t, <1>n, <1>c DEF HandlingAddingIntoTtToCheckingTimer, LeaveTimerTask
    <2>2. CASE pending[c] = "NONE" /\ pending' = pending
      <3>1. Effect(c, "CHECKING_TIMER", "NONE", sock[c], 0, 0, 0, 0)
        BY <2>2, <1>4, <1>t, <1>n DEF HandlingAddingIntoTtToCheckingTimer
      <3> QED
        BY <2>2, <3>1
    <2>3. CASE pending[c] = "NONE" /\ pending' = [pending EXCEPT ![c] = "CLOSE"]
      <3>1. Effect(c, "CHECKING_TIMER", "CLOSE", sock[c], 0, 0, 0, 0)
        BY <2>3, <1>4, <1>t, <1>n DEF HandlingAddingIntoTtToCheckingTimer
      <3> QED
        BY <2>3, <3>1
    <2> QED
      BY <1>4, <2>1, <2>2, <2>3 DEF HandlingAddingIntoTtToCheckingTimer
  <1>5. ASSUME HandlingCloseWhileCheckingTimer(c)
        PROVE  sock[c] = "NULL" /\ Effect(c, "DELING_FROM_TT", pending[c], sock[c], 0, 0, 0, 1)
    BY <1>5, <1>a, <1>t, <1>n, <1>c DEF HandlingCloseWhileCheckingTimer, LeaveTimerTask
  <1>6. ASSUME HandlingCheckingTimerToAddingIntoOt(c)
        PROVE  /\ sock[c] = "NULL"
               /\ \E k \in {"open", "closed"} : Effect(c, "ADDING_INTO_OT", pending[c], k, 1, 0, 0, 0)
    <2>1. sock[c] = "NULL"
      BY <1>6, <1>a DEF HandlingCheckingTimerToAddingIntoOt
    <2>2. PICK k \in {"open", "closed"} : sock' = [sock EXCEPT ![c] = k]
      BY <1>6, <1>a DEF HandlingCheckingTimerToAddingIntoOt
    <2>3. Effect(c, "ADDING_INTO_OT", pending[c], k, 1, 0, 0, 0)
      BY <1>6, <1>a, <2>1, <2>2, <1>t, <1>n, <1>c DEF HandlingCheckingTimerToAddingIntoOt
    <2> QED
      BY <2>1, <2>3
  <1>7. ASSUME NEW s, LeaveOutputTask(c, s) PROVE Effect(c, s, pending[c], "closed", 0, 1, 0, 0)
    BY <1>7, <1>t, <1>n, <1>c DEF LeaveOutputTask, CloseSock
  <1>8. ASSUME HandlingAddingIntoOtToConnecting(c)
        PROVE  \/ pending[c] = "CLOSE" /\ Effect(c, "DELING_FROM_OT_CLOSE", pending[c], "closed", 0, 1, 0, 0)
               \/ /\ pending[c] = "INTERNAL_ERR"
                  /\ Effect(c, "DELING_FROM_OT_NORMAL", pending[c], "closed", 0, 1, 0, 0)
               \/ pending[c] = "NONE" /\ Effect(c, "CONNECTING", pending[c], sock[c], 0, 0, 0, 0)
    <2>1. CASE pending[c] = "NONE"
      BY <2>1, <1>8, <1>t, <1>n DEF HandlingAddingIntoOtToConnecting
    <2>2. CASE pending[c] = "CLOSE"
      <3>1. LeaveOutputTask(c, "DELING_FROM_OT_CLOSE")
        BY <2>2, <1>8 DEF HandlingAddingIntoOtToConnecting
      <3> QED
        BY <2>2, <3>1, <1>7
    <2>3. CASE pending[c] = "INTERNAL_ERR"
      <3>1. LeaveOutputTask(c, "DELING_FROM_OT_NORMAL")
        BY <2>3, <1>8 DEF HandlingAddingIntoOtToConnecting
      <3> QED
        BY <2>3, <3>1, <1>7
    <2> QED
      BY <1>e, <2>1, <2>2, <2>3
  <1>9. ASSUME HandlingConnected(c)
        PROVE  sock[c] = "open" /\ Effect(c, "DELING_FROM_OT_NORMAL", pending[c], sock[c], 0, 1, 0, 0)
    BY <1>9, <1>a, <1>t, <1>n, <1>c DEF HandlingConnected
  <1>10. ASSUME HandlingDelingFromOtCloseToDelingFromTt(c)
         PROVE  sock[c] # "open" /\ Effect(c, "DELING_FROM_TT", pending[c], sock[c], 0, 0, 0, 1)
    BY <1>10, <1>a, <1>t, <1>n, <1>c DEF HandlingDelingFromOtCloseToDelingFromTt, LeaveTimerTask
  <1>11. ASSUME HandlingInternalErrWhileDelingFromOtNormal(c)
         PROVE  Effect(c, state[c], pending[c], "closed", 0, 0, 0, 0)
    BY <1>11, <1>t, <1>n, <1>c DEF HandlingInternalErrWhileDelingFromOtNormal, CloseSock
  <1>12. ASSUME HandlingDelingFromOtNormalToCheckingTimer(c)
         PROVE  \/ pending[c] = "CLOSE" /\ Effect(c, "DELING_FROM_TT", pending[c], "NULL", 0, 0, 0, 1)
                \/ pending[c] = "NONE" /\ Effect(c, "CHECKING_TIMER", pending[c], "NULL", 0, 0, 0, 0)
    <2>1. CASE pending[c] = "CLOSE"
      BY <2>1, <1>12, <1>a, <1>t, <1>n, <1>c DEF HandlingDelingFromOtNormalToCheckingTimer, LeaveTimerTask
    <2>2. CASE pending[c] = "NONE"
      BY <2>2, <1>12, <1>a, <1>t, <1>n, <1>c DEF HandlingDelingFromOtNormalToCheckingTimer
    <2> QED
      BY <1>12, <1>a, <2>1, <2>2 DEF HandlingDelingFromOtNormalToCheckingTimer
  <1>13. ASSUME HandlingDelingFromTtToClosed(c)
         PROVE  Effect(c, "CLOSED", pending[c], sock[c], 0, 0, 0, 0)
    BY <1>13, <1>t, <1>n DEF HandlingDelingFromTtToClosed
  <1> HIDE DEF Enter, connectorVars, sharedVars, timerCaches, Effect, Abort
  <1> QED
    BY <1>1, <1>2, <1>3, <1>4, <1>5, <1>6, <1>7, <1>8, <1>9, <1>10, <1>11, <1>12, <1>13
    DEF PostEvt, Outcome

-----------------------------------------------------------------------------
(* The connectors a step is not about.                                     *)

SameFields(x) == state'[x] = state[x] /\ pending'[x] = pending[x] /\ sock'[x] = sock[x]

SameTask(x) ==
  /\ AddsDue(x)' = AddsDue(x) /\ DelsDue(x)' = DelsDue(x)
  /\ Adding(x)' = Adding(x) /\ Deleting(x)' = Deleting(x)
  /\ (x \in setIoObjs["OT"])' = (x \in setIoObjs["OT"])
  /\ x \in armed'["OT"] => x \in armed["OT"]
  /\ x \in arrEvts'["OT"] => x \in arrEvts["OT"] \cup armed["OT"]

SameTimer(x) ==
  /\ TimerAddsDue(x)' = TimerAddsDue(x) /\ TimerDelsDue(x)' = TimerDelsDue(x)
  /\ AddingTimer(x)' = AddingTimer(x) /\ DeletingTimer(x)' = DeletingTimer(x)
  /\ (x \in setTimers)' = (x \in setTimers)
  /\ x \in toCheck' => x \in toCheck \cup setTimers
  /\ timerPhase' = "on_timer" /\ timerCur' = x
       => x \in toCheck \/ (timerPhase = "on_timer" /\ timerCur = x)

LEMMA ConnectorFrame ==
  ASSUME NEW x \in IoObjs, ConnectorInv(x), SameFields(x), SameTask(x), SameTimer(x)
  PROVE  ConnectorInv(x)'
  <1>1. DueMatchesState(x)'
    BY DEF ConnectorInv, DueMatchesState, SameFields, SameTask, SameTimer, OneIf
  <1>2. HeldMatchesState(x)'
    BY DEF ConnectorInv, HeldMatchesState, SameFields, SameTask, SameTimer
  <1>3. SockMatchesState(x)'
    BY DEF ConnectorInv, SockMatchesState, SameFields, SameTask
  <1> QED
    BY <1>1, <1>2, <1>3 DEF ConnectorInv

LEMMA InHandType ==
  ASSUME TypeOK, NEW x \in IoObjs
  PROVE  /\ AddsInHand(x) \in Nat /\ DelsInHand(x) \in Nat
         /\ TimerAddsInHand(x) \in Nat /\ TimerDelsInHand(x) \in Nat
  BY CountsAreNat DEF AddsInHand, DelsInHand, TimerAddsInHand, TimerDelsInHand, OneIf

LEMMA InHandPositive ==
  ASSUME TypeOK, NEW x \in IoObjs
  PROVE  /\ (Adding(x) => AddsDue(x) > 0) /\ (Deleting(x) => DelsDue(x) > 0)
         /\ (AddingTimer(x) => TimerAddsDue(x) > 0) /\ (DeletingTimer(x) => TimerDelsDue(x) > 0)
  BY CountsAreNat
  DEF Adding, Deleting, AddingTimer, DeletingTimer, AddsDue, DelsDue, TimerAddsDue, TimerDelsDue,
      AddsInHand, DelsInHand, TimerAddsInHand, TimerDelsInHand, OneIf

(* A thread that does nothing.                                             *)
LEMMA TaskRests ==
  ASSUME NEW x \in IoObjs, UNCHANGED taskVars,
         AddCache'["OT"][x] = AddCache["OT"][x], DelCache'["OT"][x] = DelCache["OT"][x],
         x \in armed'["OT"] => x \in armed["OT"]
  PROVE  SameTask(x)
  BY DEF SameTask, AddsDue, DelsDue, AddsInHand, DelsInHand, Adding, Deleting, taskVars

LEMMA TimerRests ==
  ASSUME NEW x \in IoObjs, UNCHANGED timerVars,
         TimerAddCache'[x] = TimerAddCache[x], TimerDelCache'[x] = TimerDelCache[x]
  PROVE  SameTimer(x)
  BY DEF SameTimer, TimerAddsDue, TimerDelsDue, TimerAddsInHand, TimerDelsInHand, AddingTimer,
     DeletingTimer, timerVars

-----------------------------------------------------------------------------
(* The connector an event is posted to.                                    *)

(* Only CMN_ASSERT(NULL == m_pTcpSock) can fail.                           *)
LEMMA AbortWhy ==
  ASSUME NEW c \in IoObjs, NEW evt, PostEvt(c, evt), ConnectorInv(c), Alive
  PROVE  aborted' \in {"none", "m_pTcpSock"}
  <1> USE DEF Alive, sharedVars, Abort
  <1>1. CASE UNCHANGED sharedVars
    BY <1>1
  <1>2. CASE \/ HandlingClosedToAddingIntoTt(c) \/ Remember(c, evt)
             \/ HandlingAddingIntoTtToCheckingTimer(c) \/ HandlingDelingFromTtToClosed(c)
    BY <1>2 DEF HandlingClosedToAddingIntoTt, Remember, HandlingAddingIntoTtToCheckingTimer,
                HandlingDelingFromTtToClosed
  <1>3. CASE HandlingCloseWhileCheckingTimer(c) \/ HandlingCheckingTimerToAddingIntoOt(c)
    BY <1>3 DEF HandlingCloseWhileCheckingTimer, HandlingCheckingTimerToAddingIntoOt
  <1>4. ASSUME NEW s, LeaveOutputTask(c, s) PROVE aborted' = "none"
    BY <1>4 DEF LeaveOutputTask
  <1>5. CASE HandlingAddingIntoOtToConnecting(c) \/ HandlingInternalErrWhileDelingFromOtNormal(c)
    BY <1>4, <1>5 DEF HandlingAddingIntoOtToConnecting, HandlingInternalErrWhileDelingFromOtNormal
  <1>6. CASE state[c] = "CONNECTING" /\ HandlingConnected(c)
    BY <1>6 DEF HandlingConnected, ConnectorInv, SockMatchesState
  <1>7. CASE state[c] = "DELING_FROM_OT_CLOSE" /\ HandlingDelingFromOtCloseToDelingFromTt(c)
    BY <1>7 DEF HandlingDelingFromOtCloseToDelingFromTt, ConnectorInv, SockMatchesState
  <1>8. CASE state[c] = "DELING_FROM_OT_NORMAL" /\ HandlingDelingFromOtNormalToCheckingTimer(c)
    BY <1>8 DEF HandlingDelingFromOtNormalToCheckingTimer, ConnectorInv, SockMatchesState
  <1> QED
    BY <1>1, <1>2, <1>3, <1>4, <1>5, <1>6, <1>7, <1>8 DEF PostEvt

(* What is due after a handler that added a and d, ta and td, run by a     *)
(* thread that took h, e, th and te from what it had in its hands.         *)
Took(c, h, e, th, te) ==
  /\ AddsInHand(c) = AddsInHand(c)' + h /\ DelsInHand(c) = DelsInHand(c)' + e
  /\ TimerAddsInHand(c) = TimerAddsInHand(c)' + th /\ TimerDelsInHand(c) = TimerDelsInHand(c)' + te

LEMMA DueEffect ==
  ASSUME TypeOK, TypeOK', NEW c \in IoObjs,
         NEW s, NEW p, NEW k, NEW a \in Int, NEW d \in Int, NEW ta \in Int, NEW td \in Int,
         Effect(c, s, p, k, a, d, ta, td),
         NEW h \in Int, NEW e \in Int, NEW th \in Int, NEW te \in Int, Took(c, h, e, th, te)
  PROVE  /\ AddsDue(c)' = AddsDue(c) + a - h /\ DelsDue(c)' = DelsDue(c) + d - e
         /\ TimerAddsDue(c)' = TimerAddsDue(c) + ta - th
         /\ TimerDelsDue(c)' = TimerDelsDue(c) + td - te
         /\ {AddsDue(c), DelsDue(c), TimerAddsDue(c), TimerDelsDue(c)} \subseteq Nat
  <1>1. /\ AddCache["OT"][c] \in Nat /\ DelCache["OT"][c] \in Nat
        /\ TimerAddCache[c] \in Nat /\ TimerDelCache[c] \in Nat
    BY CountsAreNat
  <1>2. /\ AddsInHand(c) \in Nat /\ DelsInHand(c) \in Nat
        /\ TimerAddsInHand(c) \in Nat /\ TimerDelsInHand(c) \in Nat
    BY InHandType
  <1>3. /\ AddCache'["OT"][c] = AddCache["OT"][c] + a /\ DelCache'["OT"][c] = DelCache["OT"][c] + d
        /\ TimerAddCache'[c] = TimerAddCache[c] + ta /\ TimerDelCache'[c] = TimerDelCache[c] + td
    BY DEF Effect
  <1>4. /\ AddsInHand(c)' \in Int /\ DelsInHand(c)' \in Int
        /\ TimerAddsInHand(c)' \in Int /\ TimerDelsInHand(c)' \in Int
    BY CountsAreNatNext DEF AddsInHand, DelsInHand, TimerAddsInHand, TimerDelsInHand, OneIf
  <1> QED
    BY <1>1, <1>2, <1>3, <1>4 DEF AddsDue, DelsDue, TimerAddsDue, TimerDelsDue, Took

(* The threads' views of c but for what is due.                            *)
SameHolders(c) ==
  /\ Adding(c)' = Adding(c) /\ Deleting(c)' = Deleting(c)
  /\ AddingTimer(c)' = AddingTimer(c) /\ DeletingTimer(c)' = DeletingTimer(c)
  /\ (c \in setIoObjs["OT"])' = (c \in setIoObjs["OT"])
  /\ (c \in setTimers)' = (c \in setTimers)
  /\ c \in arrEvts'["OT"] => c \in arrEvts["OT"]
  /\ c \in toCheck' => c \in toCheck
  /\ timerPhase' = "on_timer" /\ timerCur' = c => timerPhase = "on_timer" /\ timerCur = c

(* open(), close(), on_timer() and the io events: no thread is adding or   *)
(* deleting c while it posts one.                                          *)
LEMMA QuietEvent ==
  ASSUME TypeOK, TypeOK', NEW c \in IoObjs, ConnectorInv(c), NEW evt, Outcome(c, evt),
         Took(c, 0, 0, 0, 0), SameHolders(c),
         \/ evt \in {"OPEN", "CLOSE", "CONNECT"}
         \/ /\ evt \in {"CONNECTED", "INTERNAL_ERR"}
            /\ c \in setIoObjs["OT"] /\ ~ Adding(c) /\ ~ Deleting(c)
  PROVE  ConnectorInv(c)'
  <1>t. /\ state[c] \in States /\ pending[c] \in {"NONE", "CLOSE", "INTERNAL_ERR"}
        /\ sock[c] \in {"NULL", "open", "closed"}
    BY TypeParts DEF HandlerTypeOK
  <1>1. ASSUME NEW s, NEW p, NEW k, NEW a \in Int, NEW d \in Int, NEW ta \in Int, NEW td \in Int,
               Effect(c, s, p, k, a, d, ta, td)
        PROVE  /\ state'[c] = s /\ pending'[c] = p /\ sock'[c] = k
               /\ c \in armed'["OT"] => c \in armed["OT"]
               /\ sock[c] = "open" /\ k # "open" => c \notin armed'["OT"]
               /\ AddsDue(c)' = AddsDue(c) + a /\ DelsDue(c)' = DelsDue(c) + d
               /\ TimerAddsDue(c)' = TimerAddsDue(c) + ta
               /\ TimerDelsDue(c)' = TimerDelsDue(c) + td
               /\ {AddsDue(c), DelsDue(c), TimerAddsDue(c), TimerDelsDue(c)} \subseteq Nat
    <2>1. 0 \in Int
      OBVIOUS
    <2>2. /\ AddsDue(c)' = AddsDue(c) + a - 0 /\ DelsDue(c)' = DelsDue(c) + d - 0
          /\ TimerAddsDue(c)' = TimerAddsDue(c) + ta - 0
          /\ TimerDelsDue(c)' = TimerDelsDue(c) + td - 0
          /\ {AddsDue(c), DelsDue(c), TimerAddsDue(c), TimerDelsDue(c)} \subseteq Nat
      BY <1>1, <2>1, DueEffect
    <2>3. /\ state'[c] = s /\ pending'[c] = p /\ sock'[c] = k
          /\ c \in armed'["OT"] => c \in armed["OT"]
          /\ sock[c] = "open" /\ k # "open" => c \notin armed'["OT"]
      BY <1>1 DEF Effect
    <2> QED
      BY <2>2, <2>3
  <1> USE DEF ConnectorInv, DueMatchesState, HeldMatchesState, SockMatchesState, SameHolders, OneIf
  <1>2. CASE <<state[c], evt>> \notin Handled /\ Stays(c)
    BY <1>1, <1>2 DEF Stays
  <1>3. CASE /\ state[c] = "CLOSED" /\ evt = "OPEN"
             /\ Effect(c, "ADDING_INTO_TT", "NONE", sock[c], 0, 0, 1, 0)
    BY <1>1, <1>3, InHandPositive
  <1>4. CASE /\ state[c] \in {"ADDING_INTO_TT", "DELING_FROM_OT_NORMAL", "ADDING_INTO_OT"} /\ evt = "CLOSE"
             /\ Effect(c, state[c], evt, sock[c], 0, 0, 0, 0)
    BY <1>1, <1>4
  <1>5. CASE /\ state[c] = "CHECKING_TIMER" /\ evt = "CLOSE" /\ sock[c] = "NULL"
             /\ Effect(c, "DELING_FROM_TT", pending[c], sock[c], 0, 0, 0, 1)
    BY <1>1, <1>5, InHandPositive
  <1>6. CASE /\ state[c] = "CHECKING_TIMER" /\ evt = "CONNECT" /\ sock[c] = "NULL"
             /\ \E k \in {"open", "closed"} : Effect(c, "ADDING_INTO_OT", pending[c], k, 1, 0, 0, 0)
    <2>1. PICK k \in {"open", "closed"} : Effect(c, "ADDING_INTO_OT", pending[c], k, 1, 0, 0, 0)
      BY <1>6
    <2>2. /\ state'[c] = "ADDING_INTO_OT" /\ pending'[c] = pending[c] /\ sock'[c] = k
          /\ c \in armed'["OT"] => c \in armed["OT"]
          /\ AddsDue(c)' = AddsDue(c) + 1 /\ DelsDue(c)' = DelsDue(c) + 0
          /\ TimerAddsDue(c)' = TimerAddsDue(c) + 0
          /\ TimerDelsDue(c)' = TimerDelsDue(c) + 0
          /\ {AddsDue(c), DelsDue(c), TimerAddsDue(c), TimerDelsDue(c)} \subseteq Nat
      BY <1>1, <2>1
    <2>3. ~ Adding(c)
      BY <1>6, <1>t, InHandPositive
    <2> QED
      BY <2>1, <2>2, <2>3, <1>6
  <1>7. CASE /\ state[c] = "CONNECTING" /\ evt = "CLOSE"
             /\ Effect(c, "DELING_FROM_OT_CLOSE", pending[c], "closed", 0, 1, 0, 0)
    BY <1>1, <1>7, InHandPositive
  <1>8. CASE /\ state[c] = "CONNECTING" /\ evt = "INTERNAL_ERR"
             /\ Effect(c, "DELING_FROM_OT_NORMAL", pending[c], "closed", 0, 1, 0, 0)
    BY <1>1, <1>8, InHandPositive
  <1>9. CASE /\ state[c] = "CONNECTING" /\ evt = "CONNECTED" /\ sock[c] = "open"
             /\ Effect(c, "DELING_FROM_OT_NORMAL", pending[c], sock[c], 0, 1, 0, 0)
    BY <1>1, <1>9, InHandPositive
  <1>10. CASE /\ state[c] = "DELING_FROM_OT_NORMAL" /\ evt = "INTERNAL_ERR"
              /\ Effect(c, state[c], pending[c], "closed", 0, 0, 0, 0)
    BY <1>1, <1>10
  <1>11. state[c] = "ADDING_INTO_OT" => c \notin setIoObjs["OT"] \/ Adding(c)
    OBVIOUS
  <1> HIDE DEF ConnectorInv, DueMatchesState, HeldMatchesState, SockMatchesState, SameHolders, OneIf
  <1> QED
    BY <1>2, <1>3, <1>4, <1>5, <1>6, <1>7, <1>8, <1>9, <1>10, <1>11 DEF Outcome

(* The callbacks of the misc thread.                                       *)
LEMMA TimerCallback ==
  ASSUME TypeOK, TypeOK', NEW c \in IoObjs, ConnectorInv(c), NEW evt, Outcome(c, evt),
         UNCHANGED <<taskVars, setTimers, timerVec, toCheck>>, timerCur = c, timerCur' = NoTimer,
         \/ evt = "DELED_FROM_TT" /\ timerPhase = "deled" /\ timerPhase' = "dels"
         \/ evt = "ADDED_INTO_TT" /\ timerPhase = "added" /\ timerPhase' = "adds"
  PROVE  ConnectorInv(c)'
  <1> DEFINE th == OneIf(evt = "ADDED_INTO_TT")
             te == OneIf(evt = "DELED_FROM_TT")
  <1>n. c # NoTimer /\ timerVec[c] \in Nat
    BY CountsAreNat
  <1>h. /\ Took(c, 0, 0, th, te)
        /\ th \in Int /\ te \in Int
    BY <1>n, CountsAreNat
    DEF Took, AddsInHand, DelsInHand, TimerAddsInHand, TimerDelsInHand, taskVars, OneIf
  <1>1. ASSUME NEW s, NEW p, NEW td \in Int, Effect(c, s, p, sock[c], 0, 0, 0, td)
        PROVE  /\ state'[c] = s /\ pending'[c] = p /\ sock'[c] = sock[c]
               /\ c \in armed'["OT"] => c \in armed["OT"]
               /\ AddsDue(c)' = AddsDue(c) /\ DelsDue(c)' = DelsDue(c)
               /\ TimerAddsDue(c)' = TimerAddsDue(c) - th
               /\ TimerDelsDue(c)' = TimerDelsDue(c) + td - te
               /\ {AddsDue(c), DelsDue(c), TimerAddsDue(c), TimerDelsDue(c)} \subseteq Nat
    <2>1. 0 \in Int
      OBVIOUS
    <2> HIDE DEF th, te
    <2>2. /\ AddsDue(c)' = AddsDue(c) + 0 - 0 /\ DelsDue(c)' = DelsDue(c) + 0 - 0
          /\ TimerAddsDue(c)' = TimerAddsDue(c) + 0 - th
          /\ TimerDelsDue(c)' = TimerDelsDue(c) + td - te
          /\ {AddsDue(c), DelsDue(c), TimerAddsDue(c), TimerDelsDue(c)} \subseteq Nat
      BY <1>1, <1>h, <2>1, DueEffect
    <2>3. /\ state'[c] = s /\ pending'[c] = p /\ sock'[c] = sock[c]
          /\ c \in armed'["OT"] => c \in armed["OT"]
      BY <1>1 DEF Effect
    <2> QED
      BY <1>h, <2>2, <2>3
  <1>t. pending[c] \in {"NONE", "CLOSE", "INTERNAL_ERR"}
    BY TypeParts DEF HandlerTypeOK
  <1>2. evt = "DELED_FROM_TT" => state[c] = "DELING_FROM_TT"
    BY InHandPositive DEF DeletingTimer, ConnectorInv, DueMatchesState, OneIf
  <1>3. evt = "ADDED_INTO_TT" => state[c] = "ADDING_INTO_TT"
    BY InHandPositive DEF AddingTimer, ConnectorInv, DueMatchesState, OneIf
  <1> USE DEF ConnectorInv, DueMatchesState, HeldMatchesState, SockMatchesState, OneIf,
              Adding, Deleting, AddingTimer, DeletingTimer, taskVars
  <1>4. ASSUME state[c] = "DELING_FROM_TT", evt = "DELED_FROM_TT",
               Effect(c, "CLOSED", pending[c], sock[c], 0, 0, 0, 0)
        PROVE  ConnectorInv(c)'
    BY <1>n, <1>t, <1>1, <1>4
  <1>5. ASSUME state[c] = "ADDING_INTO_TT", evt = "ADDED_INTO_TT",
               Effect(c, "DELING_FROM_TT", pending[c], sock[c], 0, 0, 0, 1)
        PROVE  ConnectorInv(c)'
    BY <1>n, <1>t, <1>1, <1>5
  <1>6. ASSUME state[c] = "ADDING_INTO_TT", evt = "ADDED_INTO_TT", NEW p \in {"NONE", "CLOSE"},
               Effect(c, "CHECKING_TIMER", p, sock[c], 0, 0, 0, 0)
        PROVE  ConnectorInv(c)'
    BY <1>n, <1>t, <1>1, <1>6
  <1> HIDE DEF ConnectorInv, DueMatchesState, HeldMatchesState, SockMatchesState, OneIf,
              Adding, Deleting, AddingTimer, DeletingTimer, taskVars
  <1> QED
    BY <1>2, <1>3, <1>4, <1>5, <1>6 DEF Outcome, Handled

(* The callbacks of the output task.                                       *)
LEMMA TaskCallback ==
  ASSUME TypeOK, TypeOK', NEW c \in IoObjs, ConnectorInv(c), NEW evt, Outcome(c, evt),
         UNCHANGED <<timerVars, setIoObjs, vecTmp, arrEvts>>, cur["OT"] = c, cur'["OT"] = NoObj,
         \/ evt = "DELED_FROM_OT" /\ phase["OT"] = "deled" /\ phase'["OT"] = "dels"
         \/ evt = "ADDED_INTO_OT" /\ phase["OT"] = "added" /\ phase'["OT"] = "adds"
         \/ evt = "INTERNAL_ERR" /\ phase["OT"] = "addfailed" /\ phase'["OT"] = "adds"
  PROVE  ConnectorInv(c)'
  <1> DEFINE h == OneIf(evt # "DELED_FROM_OT")
             e == OneIf(evt = "DELED_FROM_OT")
  <1>n. c # NoObj /\ vecTmp["OT"][c] \in Nat
    BY CountsAreNat
  <1>h. /\ Took(c, h, e, 0, 0)
        /\ h \in Int /\ e \in Int
    BY <1>n, CountsAreNat
    DEF Took, AddsInHand, DelsInHand, TimerAddsInHand, TimerDelsInHand, timerVars, OneIf
  <1>1. ASSUME NEW s, NEW p, NEW k, NEW d \in Int, NEW td \in Int, Effect(c, s, p, k, 0, d, 0, td)
        PROVE  /\ state'[c] = s /\ pending'[c] = p /\ sock'[c] = k
               /\ c \in armed'["OT"] => c \in armed["OT"]
               /\ sock[c] = "open" /\ k # "open" => c \notin armed'["OT"]
               /\ AddsDue(c)' = AddsDue(c) - h /\ DelsDue(c)' = DelsDue(c) + d - e
               /\ TimerAddsDue(c)' = TimerAddsDue(c)
               /\ TimerDelsDue(c)' = TimerDelsDue(c) + td
               /\ {AddsDue(c), DelsDue(c), TimerAddsDue(c), TimerDelsDue(c)} \subseteq Nat
    <2>1. 0 \in Int
      OBVIOUS
    <2> HIDE DEF h, e
    <2>2. /\ AddsDue(c)' = AddsDue(c) + 0 - h /\ DelsDue(c)' = DelsDue(c) + d - e
          /\ TimerAddsDue(c)' = TimerAddsDue(c) + 0 - 0
          /\ TimerDelsDue(c)' = TimerDelsDue(c) + td - 0
          /\ {AddsDue(c), DelsDue(c), TimerAddsDue(c), TimerDelsDue(c)} \subseteq Nat
      BY <1>1, <1>h, <2>1, DueEffect
    <2>3. /\ state'[c] = s /\ pending'[c] = p /\ sock'[c] = k
          /\ c \in armed'["OT"] => c \in armed["OT"]
          /\ sock[c] = "open" /\ k # "open" => c \notin armed'["OT"]
      BY <1>1 DEF Effect
    <2> QED
      BY <1>h, <2>2, <2>3
  <1>t. /\ pending[c] \in {"NONE", "CLOSE", "INTERNAL_ERR"}
        /\ sock[c] \in {"NULL", "open", "closed"}
    BY TypeParts DEF HandlerTypeOK
  <1>2. evt = "DELED_FROM_OT" => state[c] \in {"DELING_FROM_OT_CLOSE", "DELING_FROM_OT_NORMAL"}
    BY InHandPositive DEF Deleting, ConnectorInv, DueMatchesState, OneIf
  <1>p. evt # "DELED_FROM_OT" => AddsDue(c) > 0
    BY <1>n, CountsAreNat DEF AddsDue, AddsInHand, OneIf
  <1>3. evt # "DELED_FROM_OT" => state[c] = "ADDING_INTO_OT" /\ pending[c] # "INTERNAL_ERR"
    BY <1>p DEF ConnectorInv, DueMatchesState, OneIf
  <1> USE DEF ConnectorInv, DueMatchesState, HeldMatchesState, SockMatchesState, OneIf,
              Adding, Deleting, AddingTimer, DeletingTimer, timerVars
  <1>4. ASSUME state[c] = "ADDING_INTO_OT", evt = "INTERNAL_ERR",
               Effect(c, state[c], evt, sock[c], 0, 0, 0, 0)
        PROVE  ConnectorInv(c)'
    BY <1>n, <1>t, <1>p, <1>1, <1>3, <1>4
  <1>5. ASSUME state[c] = "ADDING_INTO_OT", evt = "ADDED_INTO_OT", pending[c] = "CLOSE",
               Effect(c, "DELING_FROM_OT_CLOSE", pending[c], "closed", 0, 1, 0, 0)
        PROVE  ConnectorInv(c)'
    BY <1>n, <1>t, <1>p, <1>1, <1>5
  <1>6. ASSUME state[c] = "ADDING_INTO_OT", evt = "ADDED_INTO_OT", pending[c] = "NONE",
               Effect(c, "CONNECTING", pending[c], sock[c], 0, 0, 0, 0)
        PROVE  ConnectorInv(c)'
    BY <1>n, <1>t, <1>p, <1>1, <1>6
  <1>7. ASSUME state[c] = "DELING_FROM_OT_CLOSE", evt = "DELED_FROM_OT",
               Effect(c, "DELING_FROM_TT", pending[c], sock[c], 0, 0, 0, 1)
        PROVE  ConnectorInv(c)'
    BY <1>n, <1>t, <1>1, <1>7, InHandPositive
  <1>8. ASSUME state[c] = "DELING_FROM_OT_NORMAL", evt = "DELED_FROM_OT",
               Effect(c, "DELING_FROM_TT", pending[c], "NULL", 0, 0, 0, 1)
        PROVE  ConnectorInv(c)'
    BY <1>n, <1>t, <1>1, <1>8, InHandPositive
  <1>9. ASSUME state[c] = "DELING_FROM_OT_NORMAL", evt = "DELED_FROM_OT",
               Effect(c, "CHECKING_TIMER", pending[c], "NULL", 0, 0, 0, 0)
        PROVE  ConnectorInv(c)'
    BY <1>n, <1>t, <1>1, <1>9
  <1> HIDE DEF ConnectorInv, DueMatchesState, HeldMatchesState, SockMatchesState, OneIf,
              Adding, Deleting, AddingTimer, DeletingTimer, timerVars
  <1>10. <<state[c], evt>> \in Handled
    BY <1>2, <1>3 DEF Handled
  <1> QED
    BY <1>2, <1>3, <1>4, <1>5, <1>6, <1>7, <1>8, <1>9, <1>10 DEF Outcome

-----------------------------------------------------------------------------
(* A step of a thread, for the connectors it is not about.                 *)

CachesSame(x) ==
  /\ AddCache'["OT"][x] = AddCache["OT"][x] /\ DelCache'["OT"][x] = DelCache["OT"][x]
  /\ TimerAddCache'[x] = TimerAddCache[x] /\ TimerDelCache'[x] = TimerDelCache[x]
  /\ x \in armed'["OT"] => x \in armed["OT"]

LEMMA OthersStay ==
  ASSUME NEW c \in IoObjs, NEW evt, Outcome(c, evt), NEW x \in IoObjs, x # c
  PROVE  SameFields(x) /\ CachesSame(x)
  <1>1. ASSUME NEW s, NEW p, NEW k, NEW a, NEW d, NEW ta, NEW td, Effect(c, s, p, k, a, d, ta, td)
        PROVE  SameFields(x) /\ CachesSame(x)
    BY <1>1 DEF Effect, SameFields, CachesSame
  <1> QED
    BY <1>1 DEF Outcome, Stays

LEMMA GoesTo ==
  ASSUME TypeOK, NEW p, NEW o, GoTo("OT", p, o)
  PROVE  phase'["OT"] = p /\ cur'["OT"] = o
  BY OneTask DEF GoTo, TypeOK, EpollTypeOK

LEMMA TakesFrom ==
  ASSUME TypeOK, NEW p, NEW c \in IoObjs, TakeFrom("OT", p, c)
  PROVE  /\ phase["OT"] = p /\ vecTmp["OT"][c] > 0
         /\ \A x \in IoObjs :
              vecTmp'["OT"][x] = IF x = c THEN vecTmp["OT"][c] - 1 ELSE vecTmp["OT"][x]
  <1>1. vecTmp \in Counts /\ vecTmp["OT"] \in [IoObjs -> Nat]
    BY OneTask DEF TypeOK, EpollTypeOK, Counts
  <1>2. vecTmp' = [vecTmp EXCEPT !["OT"][c] = vecTmp["OT"][c] - 1]
    BY DEF TakeFrom
  <1>3. vecTmp'["OT"] = [vecTmp["OT"] EXCEPT ![c] = vecTmp["OT"][c] - 1]
    BY <1>1, <1>2, OneTask DEF Counts
  <1> QED
    BY <1>1, <1>3 DEF TakeFrom

(* The output task goes on with the same vector, or with an empty one, and *)
(* x is not the object of a callback.                                      *)
LEMMA TaskPasses ==
  ASSUME TypeOK, NEW x \in IoObjs, cur["OT"] # x, cur'["OT"] # x,
         vecTmp'["OT"][x] = vecTmp["OT"][x],
         (x \in setIoObjs["OT"])' = (x \in setIoObjs["OT"]),
         AddCache'["OT"][x] = AddCache["OT"][x], DelCache'["OT"][x] = DelCache["OT"][x],
         x \in armed'["OT"] => x \in armed["OT"],
         x \in arrEvts'["OT"] => x \in arrEvts["OT"] \cup armed["OT"],
         \/ vecTmp["OT"][x] = 0
         \/ {phase["OT"], phase'["OT"]} \subseteq {"adds", "addfailed", "added"}
         \/ {phase["OT"], phase'["OT"]} \subseteq {"dels", "deled"}
  PROVE  SameTask(x)
  <1>1. Adding(x)' = Adding(x) /\ Deleting(x)' = Deleting(x)
    BY DEF Adding, Deleting
  <1>2. AddsInHand(x)' = AddsInHand(x) /\ DelsInHand(x)' = DelsInHand(x)
    BY DEF AddsInHand, DelsInHand, OneIf
  <1> QED
    BY <1>1, <1>2 DEF SameTask, AddsDue, DelsDue

(* The misc thread.                                                        *)
LEMMA TimerPasses ==
  ASSUME TypeOK, NEW x \in IoObjs, timerCur # x, timerCur' # x,
         timerVec'[x] = timerVec[x], (x \in setTimers)' = (x \in setTimers),
         TimerAddCache'[x] = TimerAddCache[x], TimerDelCache'[x] = TimerDelCache[x],
         x \in toCheck' => x \in toCheck \cup setTimers,
         \/ timerVec[x] = 0
         \/ {timerPhase, timerPhase'} \subseteq {"adds", "added"}
         \/ {timerPhase, timerPhase'} \subseteq {"dels", "deled"}
  PROVE  SameTimer(x)
  <1>1. AddingTimer(x)' = AddingTimer(x) /\ DeletingTimer(x)' = DeletingTimer(x)
    BY DEF AddingTimer, DeletingTimer
  <1>2. TimerAddsInHand(x)' = TimerAddsInHand(x) /\ TimerDelsInHand(x)' = TimerDelsInHand(x)
    BY DEF TimerAddsInHand, TimerDelsInHand, OneIf
  <1> QED
    BY <1>1, <1>2 DEF SameTimer, TimerAddsDue, TimerDelsDue

(* An event posted to c, by whatever thread.                               *)
LEMMA EventKeeps ==
  ASSUME ConnectorsInv, Alive, TypeOK', NEW c \in IoObjs, NEW evt, PostEvt(c, evt),
         Outcome(c, evt) => TaskInv' /\ TimerInv' /\ ConnectorInv(c)',
         \A x \in IoObjs : x # c /\ CachesSame(x) => SameTask(x) /\ SameTimer(x)
  PROVE  ConnectorsInv'
  <1>1. aborted' \in {"none", "m_pTcpSock"}
    BY AbortWhy DEF ConnectorsInv
  <1>2. ASSUME Alive' PROVE TaskInv' /\ TimerInv' /\ \A x \in IoObjs : ConnectorInv(x)'
    <2>1. Outcome(c, evt)
      BY <1>2, HandlerOutcome DEF ConnectorsInv, Alive
    <2>2. ASSUME NEW x \in IoObjs, x # c PROVE ConnectorInv(x)'
      <3>1. SameFields(x) /\ CachesSame(x)
        BY <2>1, <2>2, OthersStay
      <3> QED
        BY <2>2, <3>1, ConnectorFrame DEF ConnectorsInv
    <2> QED
      BY <2>1, <2>2
  <1> QED
    BY <1>1, <1>2 DEF ConnectorsInv

(* A step that posts no event and leaves the connectors' own variables.    *)
LEMMA ThreadKeeps ==
  ASSUME ConnectorsInv, Alive, TypeOK', aborted' = aborted, TaskInv', TimerInv',
         \A x \in IoObjs : SameFields(x),
         \A x \in IoObjs : SameTask(x) /\ SameTimer(x)
  PROVE  ConnectorsInv'
  <1>1. ASSUME NEW x \in IoObjs PROVE ConnectorInv(x)'
    BY ConnectorFrame DEF ConnectorsInv
  <1> QED
    BY <1>1 DEF ConnectorsInv, Alive

(* ... but moves c on.                                                     *)
LEMMA ThreadActs ==
  ASSUME ConnectorsInv, Alive, TypeOK', aborted' = aborted, TaskInv', TimerInv',
         \A x \in IoObjs : SameFields(x), NEW c \in IoObjs, ConnectorInv(c)',
         \A x \in IoObjs : x # c => SameTask(x) /\ SameTimer(x)
  PROVE  ConnectorsInv'
  <1>1. ASSUME NEW x \in IoObjs, x # c PROVE ConnectorInv(x)'
    BY <1>1, ConnectorFrame DEF ConnectorsInv
  <1>2. \A x \in IoObjs : ConnectorInv(x)'
    BY <1>1
  <1> QED
    BY <1>2 DEF ConnectorsInv, Alive

-----------------------------------------------------------------------------
(* The steps.                                                              *)

LEMMA UserKeeps ==
  ASSUME ConnectorsInv, Alive, TypeOK', UserStep
  PROVE  ConnectorsInv'
  <1>1. TypeOK /\ TaskInv /\ TimerInv /\ \A x \in IoObjs : ConnectorInv(x)
    BY DEF ConnectorsInv
  <1>2. ASSUME UNCHANGED <<taskVars, timerVars>>
        PROVE  /\ TaskInv' /\ TimerInv'
               /\ \A x \in IoObjs : CachesSame(x) => SameTask(x) /\ SameTimer(x)
    <2>1. TaskInv' /\ TimerInv'
      BY <1>1, <1>2 DEF TaskInv, TimerInv, taskVars, timerVars
    <2> QED
      BY <1>2, <2>1, TaskRests, TimerRests DEF CachesSame
  <1>3. ASSUME NEW c \in IoObjs, NEW evt \in {"OPEN", "CLOSE"}, ByUser(c, evt) PROVE ConnectorsInv'
    <2>1. UNCHANGED <<taskVars, timerVars>> /\ PostEvt(c, evt)
      BY <1>3 DEF ByUser
    <2>2. /\ AddsInHand(c)' = AddsInHand(c) /\ DelsInHand(c)' = DelsInHand(c)
          /\ TimerAddsInHand(c)' = TimerAddsInHand(c) /\ TimerDelsInHand(c)' = TimerDelsInHand(c)
      BY <2>1 DEF AddsInHand, DelsInHand, TimerAddsInHand, TimerDelsInHand, taskVars, timerVars
    <2>3. Took(c, 0, 0, 0, 0)
      BY <2>2, <1>1, InHandType DEF Took
    <2>4. SameHolders(c)
      BY <2>1 DEF SameHolders, Adding, Deleting, AddingTimer, DeletingTimer, taskVars, timerVars
    <2>5. Outcome(c, evt) => ConnectorInv(c)'
      BY <1>1, <2>3, <2>4, QuietEvent
    <2> QED
      BY <1>2, <2>1, <2>5, EventKeeps
  <1>4. ASSUME NEW c \in IoObjs, AddEndpoint(c) \/ DelEndpoint(c) PROVE ConnectorsInv'
    <2>1. UNCHANGED <<state, pending, sock, sharedVars, taskVars, timerCaches, timerVars>>
      BY <1>4 DEF AddEndpoint, DelEndpoint
    <2>2. aborted' = aborted /\ \A x \in IoObjs : SameFields(x) /\ CachesSame(x)
      BY <2>1 DEF sharedVars, timerCaches, SameFields, CachesSame
    <2> QED
      BY <1>2, <2>1, <2>2, ThreadKeeps
  <1> QED
    BY <1>3, <1>4 DEF UserStep, Open, Close

LEMMA TimerKeeps ==
  ASSUME ConnectorsInv, Alive, TypeOK', TimerStep
  PROVE  ConnectorsInv'
  <1>1. TypeOK /\ TaskInv /\ TimerInv /\ \A x \in IoObjs : ConnectorInv(x)
    BY DEF ConnectorsInv
  <1>t. \A x \in IoObjs : /\ TimerAddCache[x] \in Nat /\ TimerDelCache[x] \in Nat /\ timerVec[x] \in Nat
                          /\ x # NoTimer
    BY <1>1, CountsAreNat
  <1>2. ASSUME UNCHANGED taskVars
        PROVE  /\ TaskInv'
               /\ \A x \in IoObjs : CachesSame(x) => SameTask(x)
    <2>1. TaskInv'
      BY <1>1, <1>2 DEF TaskInv, taskVars
    <2> QED
      BY <1>2, <2>1, TaskRests DEF CachesSame
  <1>3. ASSUME UNCHANGED <<connectorVars, AddCache, DelCache, armed, taskVars>>
        PROVE  \A x \in IoObjs : SameFields(x) /\ SameTask(x)
    BY <1>3, TaskRests DEF connectorVars, SameFields
  <1>4. ASSUME TimerOnly, TimerInv', \A x \in IoObjs : SameTimer(x) PROVE ConnectorsInv'
    <2>1. aborted' = aborted /\ UNCHANGED <<connectorVars, AddCache, DelCache, armed, taskVars>>
      BY <1>4 DEF TimerOnly, sharedVars
    <2> QED
      BY <1>2, <1>3, <1>4, <2>1, ThreadKeeps
  <1>5. CASE SwapTimerDels /\ TimerOnly
    <2> USE DEF SwapTimerDels, TimerGoTo, NoTimers
    <2>1. TimerInv'
      BY <1>1, <1>5 DEF TimerInv
    <2>2. ASSUME NEW x \in IoObjs PROVE SameTimer(x)
      <3>1. timerVec[x] = 0
        BY <1>1, <1>5 DEF TimerInv
      <3>2. TimerAddsInHand(x)' = 0 /\ TimerAddsInHand(x) = 0
        BY <1>5, <1>t DEF TimerAddsInHand, OneIf
      <3>3. TimerDelsInHand(x)' = TimerDelCache[x] /\ TimerDelsInHand(x) = 0
        BY <1>5, <1>t DEF TimerDelsInHand, OneIf
      <3>4. TimerAddsDue(x)' = TimerAddsDue(x) /\ TimerDelsDue(x)' = TimerDelsDue(x)
        BY <1>5, <1>t, <3>2, <3>3 DEF TimerAddsDue, TimerDelsDue
      <3> QED
        BY <1>5, <3>4 DEF SameTimer, AddingTimer, DeletingTimer
    <2> QED
      BY <1>4, <1>5, <2>1, <2>2
  <1>6. CASE SwapTimerAdds /\ TimerOnly
    <2> USE DEF SwapTimerAdds, TimerGoTo, NoTimers
    <2>1. TimerInv'
      BY <1>1, <1>6 DEF TimerInv
    <2>2. ASSUME NEW x \in IoObjs PROVE SameTimer(x)
      <3>1. timerVec[x] = 0
        BY <1>6
      <3>2. TimerAddsInHand(x)' = TimerAddCache[x] /\ TimerAddsInHand(x) = 0
        BY <1>6, <1>t DEF TimerAddsInHand, OneIf
      <3>3. TimerDelsInHand(x)' = 0 /\ TimerDelsInHand(x) = 0
        BY <1>6, <1>t, <3>1 DEF TimerDelsInHand, OneIf
      <3>4. TimerAddsDue(x)' = TimerAddsDue(x) /\ TimerDelsDue(x)' = TimerDelsDue(x)
        BY <1>6, <1>t, <3>2, <3>3 DEF TimerAddsDue, TimerDelsDue
      <3> QED
        BY <1>6, <3>4 DEF SameTimer, AddingTimer, DeletingTimer
    <2> QED
      BY <1>4, <1>6, <2>1, <2>2
  <1>7. CASE StartChecks /\ TimerOnly
    <2> USE DEF StartChecks, TimerGoTo, NoTimers, timerCaches
    <2>0. \A x \in IoObjs : timerVec[x] = 0
      BY <1>7
    <2>1. TimerInv'
      BY <1>1, <1>7, <2>0 DEF TimerInv
    <2>2. ASSUME NEW x \in IoObjs PROVE SameTimer(x)
      BY <1>1, <1>7, <1>t, <2>0, TimerPasses DEF TimerInv
    <2> QED
      BY <1>4, <1>7, <2>1, <2>2
  <1>8. CASE TimerExecReturns /\ TimerOnly
    <2> USE DEF TimerExecReturns, TimerGoTo, timerCaches
    <2>1. TimerInv'
      BY <1>1, <1>8 DEF TimerInv
    <2>2. ASSUME NEW x \in IoObjs PROVE SameTimer(x)
      BY <1>1, <1>8, <1>t, TimerPasses DEF TimerInv
    <2> QED
      BY <1>4, <1>8, <2>1, <2>2
  <1>9. ASSUME NEW c \in IoObjs, NotDue(c) /\ TimerOnly PROVE ConnectorsInv'
    <2> USE DEF NotDue, TimerDue, TimerGoTo, timerCaches
    <2>1. TimerInv'
      BY <1>1, <1>9 DEF TimerInv
    <2>2. ASSUME NEW x \in IoObjs PROVE SameTimer(x)
      BY <1>1, <1>9, <1>t, TimerPasses DEF TimerInv
    <2> QED
      BY <1>4, <1>9, <2>1, <2>2
  <1>10. ASSUME NEW c \in IoObjs, OnTimerTests(c) PROVE ConnectorsInv'
    <2>1. /\ timerPhase = "check" /\ c \in toCheck /\ toCheck' = toCheck \ {c}
          /\ UNCHANGED <<timerCaches, setTimers, timerVec>> /\ TimerOnly
          /\ \/ timerPhase' = "on_timer" /\ timerCur' = c
             \/ timerPhase' = "check" /\ timerCur' = NoTimer
      BY <1>10 DEF OnTimerTests, TimerDue, TimerGoTo
    <2>2. TimerInv'
      BY <1>1, <1>t, <2>1 DEF TimerInv
    <2>3. ASSUME NEW x \in IoObjs PROVE SameTimer(x)
      <3>1. timerVec[x] = 0 /\ timerVec'[x] = 0 /\ timerCur = NoTimer
        BY <1>1, <2>1 DEF TimerInv
      <3>2. /\ TimerAddsInHand(x)' = TimerAddsInHand(x) /\ TimerDelsInHand(x)' = TimerDelsInHand(x)
        BY <2>1, <3>1 DEF TimerAddsInHand, TimerDelsInHand, OneIf
      <3> QED
        BY <2>1, <3>1, <3>2 DEF SameTimer, TimerAddsDue, TimerDelsDue, AddingTimer, DeletingTimer, timerCaches
    <2> QED
      BY <1>4, <2>1, <2>2, <2>3
  <1>11. ASSUME NEW c \in IoObjs, TimerTaskErases(c) PROVE ConnectorsInv'
    <2>1. /\ timerPhase = "dels" /\ timerVec[c] > 0 /\ timerVec' = [timerVec EXCEPT ![c] = timerVec[c] - 1]
          /\ setTimers' = setTimers \ {c} /\ timerPhase' = "deled" /\ timerCur' = c
          /\ UNCHANGED <<timerCaches, toCheck, connectorVars, AddCache, DelCache, armed, taskVars>>
          /\ aborted' = IF c \in setTimers THEN aborted ELSE "timer_erase"
      BY <1>11 DEF TimerTaskErases, EraseTimer, TakeTimer, TimerGoTo
    <2>2. timerCur = NoTimer /\ toCheck = {}
      BY <1>1, <2>1 DEF TimerInv
    <2>3. timerVec \in [IoObjs -> Nat]
      BY <1>1 DEF TypeOK, TimerTypeOK
    <2>4. TimerDelsDue(c) > 0
      BY <1>t, <2>1 DEF TimerDelsDue, TimerDelsInHand, OneIf
    <2>5. state[c] = "DELING_FROM_TT" /\ c \in setTimers
      BY <1>1, <1>t, <2>1, <2>4 DEF ConnectorInv, DueMatchesState, HeldMatchesState, DeletingTimer, OneIf
    <2>6. TimerInv'
      BY <1>t, <2>1, <2>2 DEF TimerInv
    <2>7. ASSUME NEW x \in IoObjs, x # c PROVE SameTimer(x)
      BY <1>1, <1>t, <2>1, <2>2, <2>3, <2>7, TimerPasses DEF timerCaches
    <2>8. ConnectorInv(c)'
      <3>1. SameFields(c) /\ SameTask(c)
        BY <1>3, <2>1
      <3>2. TimerAddsInHand(c)' = TimerAddsInHand(c) /\ TimerDelsInHand(c)' = TimerDelsInHand(c)
        BY <1>t, <2>1, <2>2, <2>3 DEF TimerAddsInHand, TimerDelsInHand, OneIf
      <3>3. TimerAddsDue(c)' = TimerAddsDue(c) /\ TimerDelsDue(c)' = TimerDelsDue(c)
        BY <2>1, <3>2 DEF TimerAddsDue, TimerDelsDue, timerCaches
      <3>4. DueMatchesState(c)' /\ SockMatchesState(c)'
        BY <1>1, <3>1, <3>3
        DEF ConnectorInv, DueMatchesState, SockMatchesState, SameFields, SameTask, OneIf
      <3>5. HeldMatchesState(c)'
        BY <1>1, <2>1, <2>2, <2>5, <3>1
        DEF ConnectorInv, HeldMatchesState, SameFields, SameTask, AddingTimer, DeletingTimer, taskVars
      <3> QED
        BY <3>4, <3>5 DEF ConnectorInv
    <2>9. aborted' = aborted /\ TaskInv'
      BY <1>2, <2>1, <2>5
    <2>10. \A x \in IoObjs : SameFields(x) /\ SameTask(x)
      BY <1>3, <2>1
    <2> QED
      BY <2>6, <2>7, <2>8, <2>9, <2>10, ThreadActs
  <1>12. ASSUME NEW c \in IoObjs, TimerTaskInserts(c) PROVE ConnectorsInv'
    <2>1. /\ timerPhase = "adds" /\ timerVec[c] > 0 /\ timerVec' = [timerVec EXCEPT ![c] = timerVec[c] - 1]
          /\ setTimers' = setTimers \cup {c} /\ timerPhase' = "added" /\ timerCur' = c
          /\ UNCHANGED <<timerCaches, toCheck, connectorVars, AddCache, DelCache, armed, taskVars>>
          /\ aborted' = IF c \in setTimers THEN "timer_insert" ELSE aborted
      BY <1>12 DEF TimerTaskInserts, InsertTimer, TakeTimer, TimerGoTo
    <2>2. timerCur = NoTimer /\ toCheck = {}
      BY <1>1, <2>1 DEF TimerInv
    <2>3. timerVec \in [IoObjs -> Nat]
      BY <1>1 DEF TypeOK, TimerTypeOK
    <2>4. TimerAddsDue(c) > 0
      BY <1>t, <2>1 DEF TimerAddsDue, TimerAddsInHand, OneIf
    <2>5. state[c] = "ADDING_INTO_TT" /\ c \notin setTimers
      BY <1>1, <1>t, <2>1, <2>4 DEF ConnectorInv, DueMatchesState, HeldMatchesState, AddingTimer, OneIf
    <2>6. TimerInv'
      BY <1>t, <2>1, <2>2 DEF TimerInv
    <2>7. ASSUME NEW x \in IoObjs, x # c PROVE SameTimer(x)
      BY <1>1, <1>t, <2>1, <2>2, <2>3, <2>7, TimerPasses DEF timerCaches
    <2>8. ConnectorInv(c)'
      <3>1. SameFields(c) /\ SameTask(c)
        BY <1>3, <2>1
      <3>2. TimerAddsInHand(c)' = TimerAddsInHand(c) /\ TimerDelsInHand(c)' = TimerDelsInHand(c)
        BY <1>t, <2>1, <2>2, <2>3 DEF TimerAddsInHand, TimerDelsInHand, OneIf
      <3>3. TimerAddsDue(c)' = TimerAddsDue(c) /\ TimerDelsDue(c)' = TimerDelsDue(c)
        BY <2>1, <3>2 DEF TimerAddsDue, TimerDelsDue, timerCaches
      <3>4. DueMatchesState(c)' /\ SockMatchesState(c)'
        BY <1>1, <3>1, <3>3
        DEF ConnectorInv, DueMatchesState, SockMatchesState, SameFields, SameTask, OneIf
      <3>5. HeldMatchesState(c)'
        BY <1>1, <2>1, <2>2, <2>5, <3>1
        DEF ConnectorInv, HeldMatchesState, SameFields, SameTask, AddingTimer, DeletingTimer, taskVars
      <3> QED
        BY <3>4, <3>5 DEF ConnectorInv
    <2>9. aborted' = aborted /\ TaskInv'
      BY <1>2, <2>1, <2>5
    <2>10. \A x \in IoObjs : SameFields(x) /\ SameTask(x)
      BY <1>3, <2>1
    <2> QED
      BY <2>6, <2>7, <2>8, <2>9, <2>10, ThreadActs
  <1>13. ASSUME NEW c \in IoObjs, c = timerCur, NEW evt, PostEvt(c, evt),
                \/ evt = "DELED_FROM_TT" /\ timerPhase = "deled" /\ timerPhase' = "dels"
                \/ evt = "ADDED_INTO_TT" /\ timerPhase = "added" /\ timerPhase' = "adds",
                timerCur' = NoTimer, UNCHANGED <<setTimers, timerVec, toCheck, taskVars>>
         PROVE  ConnectorsInv'
    <2>1. TimerInv'
      BY <1>1, <1>13 DEF TimerInv
    <2>2. Outcome(c, evt) => ConnectorInv(c)'
      BY <1>1, <1>13, TimerCallback
    <2>3. ASSUME NEW x \in IoObjs, x # c, CachesSame(x) PROVE SameTask(x) /\ SameTimer(x)
      <3>1. SameTask(x)
        BY <1>2, <1>13, <2>3
      <3>2. SameTimer(x)
        BY <1>1, <1>t, <1>13, <2>3, TimerPasses DEF CachesSame
      <3> QED
        BY <3>1, <3>2
    <2> QED
      BY <1>2, <1>13, <2>1, <2>2, <2>3, EventKeeps
  <1>14. ASSUME NEW c \in IoObjs, c = timerCur, TimerReturns, PostEvt(c, "CONNECT"), UNCHANGED taskVars
         PROVE  ConnectorsInv'
    <2>1. /\ timerPhase = "on_timer" /\ timerPhase' = "check" /\ timerCur' = NoTimer
          /\ UNCHANGED <<setTimers, timerVec, toCheck>>
      BY <1>14 DEF TimerReturns, TimerGoTo
    <2>2. \A x \in IoObjs : timerVec[x] = 0
      BY <1>1, <2>1 DEF TimerInv
    <2>3. TimerInv'
      BY <1>1, <2>1, <2>2 DEF TimerInv
    <2>4. /\ AddsInHand(c)' = AddsInHand(c) /\ DelsInHand(c)' = DelsInHand(c)
          /\ TimerAddsInHand(c)' = TimerAddsInHand(c) /\ TimerDelsInHand(c)' = TimerDelsInHand(c)
      BY <1>14, <2>1, <2>2
      DEF AddsInHand, DelsInHand, TimerAddsInHand, TimerDelsInHand, taskVars, OneIf
    <2>5. Took(c, 0, 0, 0, 0)
      BY <2>4, <1>1, InHandType DEF Took
    <2>6. SameHolders(c)
      BY <1>14, <2>1 DEF SameHolders, Adding, Deleting, AddingTimer, DeletingTimer, taskVars
    <2>7. Outcome(c, "CONNECT") => ConnectorInv(c)'
      BY <1>1, <2>5, <2>6, QuietEvent
    <2>8. ASSUME NEW x \in IoObjs, x # c, CachesSame(x) PROVE SameTask(x) /\ SameTimer(x)
      <3>1. SameTask(x)
        BY <1>2, <1>14, <2>8
      <3>2. SameTimer(x)
        BY <1>1, <1>t, <1>14, <2>1, <2>2, <2>8, TimerPasses DEF CachesSame
      <3> QED
        BY <3>1, <3>2
    <2> QED
      BY <1>2, <1>14, <2>3, <2>7, <2>8, EventKeeps
  <1>15. CASE HandleDelFromTimerTask \/ HandleAddIntoTimerTask \/ OnTimerPosts
    <2>1. timerCur \in IoObjs
      BY <1>1, <1>15
      DEF HandleDelFromTimerTask, HandleAddIntoTimerTask, OnTimerPosts, NotifyTimerDeled,
          NotifyTimerAdded, TimerReturns, TimerInv, TypeOK, TimerTypeOK
    <2> QED
      BY <1>15, <1>13, <1>14, <2>1
      DEF HandleDelFromTimerTask, HandleAddIntoTimerTask, OnTimerPosts, NotifyTimerDeled,
          NotifyTimerAdded, TimerGoTo
  <1> QED
    BY <1>5, <1>6, <1>7, <1>8, <1>9, <1>10, <1>11, <1>12, <1>15 DEF TimerStep

LEMMA TaskKeeps ==
  ASSUME ConnectorsInv, Alive, TypeOK', TaskStep
  PROVE  ConnectorsInv'
  <1>1. TypeOK /\ TaskInv /\ TimerInv /\ \A x \in IoObjs : ConnectorInv(x)
    BY DEF ConnectorsInv
  <1>t. \A x \in IoObjs : /\ AddCache["OT"][x] \in Nat /\ DelCache["OT"][x] \in Nat
                          /\ vecTmp["OT"][x] \in Nat /\ x # NoObj
    BY <1>1, CountsAreNat
  <1>z. \A x \in IoObjs : NoCopies[x] = 0
    BY DEF NoCopies
  <1>2. ASSUME UNCHANGED timerVars
        PROVE  /\ TimerInv'
               /\ \A x \in IoObjs : CachesSame(x) => SameTimer(x)
    <2>1. TimerInv'
      BY <1>1, <1>2 DEF TimerInv, timerVars
    <2> QED
      BY <1>2, <2>1, TimerRests DEF CachesSame
  <1>3. ASSUME TaskOnly PROVE \A x \in IoObjs : SameFields(x) /\ SameTimer(x)
    BY <1>3, TimerRests DEF TaskOnly, connectorVars, timerCaches, SameFields
  <1>4. ASSUME TaskOnly, aborted' = aborted, TaskInv', \A x \in IoObjs : SameTask(x)
        PROVE  ConnectorsInv'
    <2>1. UNCHANGED timerVars
      BY <1>4 DEF TaskOnly
    <2> QED
      BY <1>2, <1>3, <1>4, <2>1, ThreadKeeps
  <1>5. CASE SwapDelCache("OT") /\ TaskOnly
    <2>1. /\ phase["OT"] = "top" /\ phase'["OT"] = "dels" /\ cur'["OT"] = NoObj
          /\ vecTmp'["OT"] = DelCache["OT"] /\ DelCache'["OT"] = NoCopies
          /\ UNCHANGED <<AddCache, armed, aborted, setIoObjs, arrEvts>>
      BY <1>1, <1>5, GoesTo, OneTask DEF SwapDelCache, TypeOK, EpollTypeOK
    <2>2. cur["OT"] = NoObj /\ \A x \in IoObjs : vecTmp["OT"][x] = 0
      BY <1>1, <2>1 DEF TaskInv
    <2>3. TaskInv'
      BY <1>1, <2>1 DEF TaskInv
    <2>4. ASSUME NEW x \in IoObjs PROVE SameTask(x)
      <3>1. AddsInHand(x)' = 0 /\ AddsInHand(x) = 0
        BY <2>1 DEF AddsInHand, OneIf
      <3>2. DelsInHand(x)' = DelCache["OT"][x] /\ DelsInHand(x) = 0
        BY <1>t, <2>1 DEF DelsInHand, OneIf
      <3>3. AddsDue(x)' = AddsDue(x) /\ DelsDue(x)' = DelsDue(x)
        BY <1>t, <1>z, <2>1, <3>1, <3>2 DEF AddsDue, DelsDue
      <3> QED
        BY <2>1, <3>3 DEF SameTask, Adding, Deleting
    <2> QED
      BY <1>4, <1>5, <2>1, <2>3, <2>4
  <1>6. CASE SwapAddCache("OT") /\ TaskOnly
    <2>1. /\ phase["OT"] = "dels" /\ phase'["OT"] = "adds" /\ cur'["OT"] = NoObj
          /\ vecTmp["OT"] = NoCopies /\ vecTmp'["OT"] = AddCache["OT"] /\ AddCache'["OT"] = NoCopies
          /\ UNCHANGED <<DelCache, armed, aborted, setIoObjs, arrEvts>>
      BY <1>1, <1>6, GoesTo, OneTask DEF SwapAddCache, TypeOK, EpollTypeOK
    <2>3. TaskInv'
      BY <1>1, <2>1 DEF TaskInv
    <2>4. ASSUME NEW x \in IoObjs PROVE SameTask(x)
      <3>1. DelsInHand(x)' = 0 /\ DelsInHand(x) = 0
        BY <1>z, <2>1 DEF DelsInHand, OneIf
      <3>2. AddsInHand(x)' = AddCache["OT"][x] /\ AddsInHand(x) = 0
        BY <1>t, <2>1 DEF AddsInHand, OneIf
      <3>3. AddsDue(x)' = AddsDue(x) /\ DelsDue(x)' = DelsDue(x)
        BY <1>t, <1>z, <2>1, <3>1, <3>2 DEF AddsDue, DelsDue
      <3> QED
        BY <2>1, <3>3 DEF SameTask, Adding, Deleting
    <2> QED
      BY <1>4, <1>6, <2>1, <2>3, <2>4
  <1>7. CASE EpollWait("OT") /\ TaskOnly
    <2>1. /\ phase["OT"] = "adds" /\ phase'["OT"] = "events" /\ cur'["OT"] = NoObj
          /\ vecTmp["OT"] = NoCopies /\ arrEvts'["OT"] \subseteq armed["OT"]
          /\ UNCHANGED <<AddCache, DelCache, armed, aborted, setIoObjs, vecTmp>>
      BY <1>1, <1>7, GoesTo, OneTask DEF EpollWait, sharedVars, TypeOK, EpollTypeOK
    <2>2. cur["OT"] = NoObj
      BY <1>1, <2>1 DEF TaskInv
    <2>3. TaskInv'
      BY <1>1, <1>z, <2>1 DEF TaskInv
    <2>4. ASSUME NEW x \in IoObjs PROVE SameTask(x)
      BY <1>1, <1>t, <1>z, <2>1, <2>2, TaskPasses
    <2> QED
      BY <1>4, <1>7, <2>1, <2>3, <2>4
  <1>8. CASE ExecReturns("OT") /\ TaskOnly
    <2>1. /\ phase["OT"] = "events" /\ phase'["OT"] = "top" /\ cur'["OT"] = NoObj
          /\ arrEvts["OT"] = {}
          /\ UNCHANGED <<AddCache, DelCache, armed, aborted, setIoObjs, vecTmp, arrEvts>>
      BY <1>1, <1>8, GoesTo DEF ExecReturns, sharedVars
    <2>2. cur["OT"] = NoObj /\ \A x \in IoObjs : vecTmp["OT"][x] = 0
      BY <1>1, <2>1 DEF TaskInv
    <2>3. TaskInv'
      BY <2>1, <2>2 DEF TaskInv
    <2>4. ASSUME NEW x \in IoObjs PROVE SameTask(x)
      BY <1>1, <1>t, <2>1, <2>2, TaskPasses
    <2> QED
      BY <1>4, <1>8, <2>1, <2>3, <2>4
  <1>9. ASSUME NEW c \in IoObjs, EraseIoObj("OT", c) /\ TaskOnly PROVE ConnectorsInv'
    <2>1. /\ phase["OT"] = "dels" /\ vecTmp["OT"][c] > 0
          /\ phase'["OT"] = "deled" /\ cur'["OT"] = c
          /\ \A x \in IoObjs :
               vecTmp'["OT"][x] = IF x = c THEN vecTmp["OT"][c] - 1 ELSE vecTmp["OT"][x]
          /\ aborted' = IF c \in setIoObjs["OT"] THEN aborted ELSE "erase"
          /\ setIoObjs'["OT"] = setIoObjs["OT"] \ {c} /\ armed'["OT"] = armed["OT"] \ {c}
          /\ UNCHANGED <<AddCache, DelCache, arrEvts>>
      BY <1>1, <1>9, GoesTo, TakesFrom, OneTask DEF EraseIoObj, TypeOK, EpollTypeOK
    <2>2. cur["OT"] = NoObj /\ arrEvts["OT"] = {}
      BY <1>1, <2>1 DEF TaskInv
    <2>3. DelsDue(c) > 0
      BY <1>t, <2>1 DEF DelsDue, DelsInHand, OneIf
    <2>4. state[c] \in {"DELING_FROM_OT_CLOSE", "DELING_FROM_OT_NORMAL"} /\ c \in setIoObjs["OT"]
      BY <1>1, <1>t, <2>1, <2>3 DEF ConnectorInv, DueMatchesState, HeldMatchesState, Deleting, OneIf
    <2>5. TaskInv'
      BY <1>t, <2>1, <2>2 DEF TaskInv
    <2>6. ASSUME NEW x \in IoObjs, x # c PROVE SameTask(x)
      BY <1>1, <1>t, <2>1, <2>2, <2>6, TaskPasses
    <2>7. ConnectorInv(c)'
      <3>1. SameFields(c) /\ SameTimer(c)
        BY <1>3, <1>9
      <3>2. AddsInHand(c)' = AddsInHand(c) /\ DelsInHand(c)' = DelsInHand(c)
        BY <1>t, <2>1, <2>2 DEF AddsInHand, DelsInHand, OneIf
      <3>3. AddsDue(c)' = AddsDue(c) /\ DelsDue(c)' = DelsDue(c)
        BY <2>1, <3>2 DEF AddsDue, DelsDue
      <3>4. ~ Adding(c)' /\ Deleting(c)'
        BY <2>1 DEF Adding, Deleting
      <3>5. DueMatchesState(c)'
        BY <1>1, <3>1, <3>3 DEF ConnectorInv, DueMatchesState, SameFields, SameTimer, OneIf
      <3>6. SockMatchesState(c)'
        BY <1>1, <2>1, <3>1, <3>4 DEF ConnectorInv, SockMatchesState, SameFields
      <3>7. HeldMatchesState(c)'
        BY <1>1, <2>1, <2>2, <2>4, <3>1, <3>4
        DEF ConnectorInv, HeldMatchesState, SameFields, SameTimer
      <3> QED
        BY <3>5, <3>6, <3>7 DEF ConnectorInv
    <2>8. aborted' = aborted /\ \A x \in IoObjs : SameFields(x) /\ SameTimer(x)
      BY <1>3, <1>9, <2>1, <2>4
    <2>9. TimerInv'
      BY <1>2, <1>9 DEF TaskOnly
    <2> QED
      BY <2>5, <2>6, <2>7, <2>8, <2>9, ThreadActs
  <1>10. ASSUME NEW c \in IoObjs, TaskInserts(c) PROVE ConnectorsInv'
    <2>1. /\ phase["OT"] = "adds" /\ vecTmp["OT"][c] > 0 /\ sock[c] = "open"
          /\ phase'["OT"] = "added" /\ cur'["OT"] = c
          /\ \A x \in IoObjs :
               vecTmp'["OT"][x] = IF x = c THEN vecTmp["OT"][c] - 1 ELSE vecTmp["OT"][x]
          /\ aborted' = IF c \in setIoObjs["OT"] THEN "insert" ELSE aborted
          /\ setIoObjs'["OT"] = setIoObjs["OT"] \cup {c} /\ armed'["OT"] = armed["OT"] \cup {c}
          /\ UNCHANGED <<AddCache, DelCache, arrEvts>> /\ TaskOnly
      BY <1>1, <1>10, GoesTo, TakesFrom, OneTask DEF TaskInserts, InsertIoObj, TypeOK, EpollTypeOK
    <2>2. cur["OT"] = NoObj /\ arrEvts["OT"] = {}
      BY <1>1, <2>1 DEF TaskInv
    <2>3. AddsDue(c) > 0
      BY <1>t, <2>1 DEF AddsDue, AddsInHand, OneIf
    <2>4. state[c] = "ADDING_INTO_OT" /\ c \notin setIoObjs["OT"]
      BY <1>1, <1>t, <2>1, <2>3 DEF ConnectorInv, DueMatchesState, HeldMatchesState, Adding, OneIf
    <2>5. TaskInv'
      BY <1>t, <2>1, <2>2 DEF TaskInv
    <2>6. ASSUME NEW x \in IoObjs, x # c PROVE SameTask(x)
      BY <1>1, <1>t, <2>1, <2>2, <2>6, TaskPasses
    <2>7. ConnectorInv(c)'
      <3>1. SameFields(c) /\ SameTimer(c)
        BY <1>3, <2>1
      <3>2. AddsInHand(c)' = AddsInHand(c) /\ DelsInHand(c)' = DelsInHand(c)
        BY <1>t, <2>1, <2>2 DEF AddsInHand, DelsInHand, OneIf
      <3>3. AddsDue(c)' = AddsDue(c) /\ DelsDue(c)' = DelsDue(c)
        BY <2>1, <3>2 DEF AddsDue, DelsDue
      <3>4. Adding(c)' /\ ~ Deleting(c)'
        BY <2>1 DEF Adding, Deleting
      <3>5. DueMatchesState(c)'
        BY <1>1, <3>1, <3>3 DEF ConnectorInv, DueMatchesState, SameFields, SameTimer, OneIf
      <3>6. SockMatchesState(c)'
        BY <1>1, <2>1, <2>4, <3>1 DEF ConnectorInv, SockMatchesState, SameFields
      <3>7. HeldMatchesState(c)'
        BY <1>1, <2>1, <2>2, <2>4, <3>1, <3>4
        DEF ConnectorInv, HeldMatchesState, SameFields, SameTimer
      <3> QED
        BY <3>5, <3>6, <3>7 DEF ConnectorInv
    <2>8. aborted' = aborted /\ \A x \in IoObjs : SameFields(x) /\ SameTimer(x)
      BY <1>3, <2>1, <2>4
    <2>9. TimerInv'
      BY <1>2, <2>1 DEF TaskOnly
    <2> QED
      BY <2>5, <2>6, <2>7, <2>8, <2>9, ThreadActs
  <1>11. ASSUME NEW c \in IoObjs, TaskInsertFails(c) PROVE ConnectorsInv'
    <2>1. /\ phase["OT"] = "adds" /\ vecTmp["OT"][c] > 0
          /\ phase'["OT"] = "addfailed" /\ cur'["OT"] = c
          /\ \A x \in IoObjs :
               vecTmp'["OT"][x] = IF x = c THEN vecTmp["OT"][c] - 1 ELSE vecTmp["OT"][x]
          /\ UNCHANGED <<AddCache, DelCache, armed, aborted, setIoObjs, arrEvts>> /\ TaskOnly
      BY <1>1, <1>11, GoesTo, TakesFrom DEF TaskInsertFails, InsertFails
    <2>2. cur["OT"] = NoObj /\ arrEvts["OT"] = {}
      BY <1>1, <2>1 DEF TaskInv
    <2>5. TaskInv'
      BY <1>t, <2>1, <2>2 DEF TaskInv
    <2>6. ASSUME NEW x \in IoObjs PROVE SameTask(x)
      <3>1. AddsInHand(x)' = AddsInHand(x) /\ DelsInHand(x)' = DelsInHand(x)
        BY <1>t, <2>1, <2>2 DEF AddsInHand, DelsInHand, OneIf
      <3> QED
        BY <2>1, <3>1 DEF SameTask, AddsDue, DelsDue, Adding, Deleting
    <2> QED
      BY <1>4, <2>1, <2>5, <2>6
  <1>12. ASSUME NEW c \in IoObjs, c = cur["OT"], NEW evt, PostEvt(c, evt),
                \/ evt = "DELED_FROM_OT" /\ phase["OT"] = "deled" /\ GoTo("OT", "dels", NoObj)
                \/ evt = "ADDED_INTO_OT" /\ phase["OT"] = "added" /\ GoTo("OT", "adds", NoObj)
                \/ evt = "INTERNAL_ERR" /\ phase["OT"] = "addfailed" /\ GoTo("OT", "adds", NoObj),
                UNCHANGED <<setIoObjs, vecTmp, arrEvts, timerVars>>
         PROVE  ConnectorsInv'
    <2>0. /\ \/ evt = "DELED_FROM_OT" /\ phase["OT"] = "deled" /\ phase'["OT"] = "dels"
             \/ evt = "ADDED_INTO_OT" /\ phase["OT"] = "added" /\ phase'["OT"] = "adds"
             \/ evt = "INTERNAL_ERR" /\ phase["OT"] = "addfailed" /\ phase'["OT"] = "adds"
          /\ cur'["OT"] = NoObj
      BY <1>1, <1>12, GoesTo
    <2>1. TaskInv'
      BY <1>1, <1>12, <2>0 DEF TaskInv
    <2>2. Outcome(c, evt) => ConnectorInv(c)'
      BY <1>1, <1>12, <2>0, TaskCallback
    <2>3. ASSUME NEW x \in IoObjs, x # c, CachesSame(x) PROVE SameTask(x) /\ SameTimer(x)
      <3>1. SameTask(x)
        BY <1>1, <1>t, <1>12, <2>0, <2>3, TaskPasses DEF CachesSame
      <3>2. SameTimer(x)
        BY <1>2, <1>12, <2>3
      <3> QED
        BY <3>1, <3>2
    <2> QED
      BY <1>2, <1>12, <2>1, <2>2, <2>3, EventKeeps
  <1>13. ASSUME NEW c \in IoObjs, NEW evt \in {"CONNECTED", "INTERNAL_ERR"}, HandleIoEvt(c, evt)
         PROVE  ConnectorsInv'
    <2>1. /\ phase["OT"] = "events" /\ phase'["OT"] = "events" /\ cur'["OT"] = NoObj
          /\ c \in arrEvts["OT"] /\ arrEvts'["OT"] = arrEvts["OT"] \ {c}
          /\ UNCHANGED <<setIoObjs, vecTmp, timerVars>> /\ PostEvt(c, evt)
      BY <1>1, <1>13, GoesTo, OneTask DEF HandleIoEvt, DispatchEvent, TypeOK, EpollTypeOK
    <2>2. cur["OT"] = NoObj /\ \A x \in IoObjs : vecTmp["OT"][x] = 0
      BY <1>1, <2>1 DEF TaskInv
    <2>3. TaskInv'
      BY <1>1, <2>1, <2>2 DEF TaskInv
    <2>4. /\ AddsInHand(c)' = AddsInHand(c) /\ DelsInHand(c)' = DelsInHand(c)
          /\ TimerAddsInHand(c)' = TimerAddsInHand(c) /\ TimerDelsInHand(c)' = TimerDelsInHand(c)
      BY <2>1 DEF AddsInHand, DelsInHand, TimerAddsInHand, TimerDelsInHand, timerVars, OneIf
    <2>5. Took(c, 0, 0, 0, 0)
      BY <2>4, <1>1, InHandType DEF Took
    <2>6. SameHolders(c)
      BY <2>1 DEF SameHolders, Adding, Deleting, AddingTimer, DeletingTimer, timerVars
    <2>7. c \in setIoObjs["OT"] /\ ~ Adding(c) /\ ~ Deleting(c)
      BY <1>1, <2>1 DEF ConnectorInv, HeldMatchesState, Adding, Deleting
    <2>8. Outcome(c, evt) => ConnectorInv(c)'
      BY <1>1, <2>5, <2>6, <2>7, QuietEvent
    <2>9. ASSUME NEW x \in IoObjs, x # c, CachesSame(x) PROVE SameTask(x) /\ SameTimer(x)
      <3>1. SameTask(x)
        BY <1>1, <1>t, <2>1, <2>2, <2>9, TaskPasses DEF CachesSame
      <3>2. SameTimer(x)
        BY <1>2, <2>1, <2>9
      <3> QED
        BY <3>1, <3>2
    <2> QED
      BY <1>2, <2>1, <2>3, <2>8, <2>9, EventKeeps
  <1>14. CASE HandleAddFailed \/ HandleAddedIntoIoTask \/ HandleDeledFromIoTask
    <2>1. cur["OT"] \in IoObjs
      BY <1>1, <1>14, OneTask
      DEF HandleAddFailed, HandleAddedIntoIoTask, HandleDeledFromIoTask, NotifyAdded, NotifyDeled,
          TaskInv, TypeOK, EpollTypeOK
    <2> QED
      BY <1>14, <1>12, <2>1
      DEF HandleAddFailed, HandleAddedIntoIoTask, HandleDeledFromIoTask, NotifyAdded, NotifyDeled
  <1> QED
    BY <1>5, <1>6, <1>7, <1>8, <1>9, <1>10, <1>11, <1>13, <1>14 DEF TaskStep

-----------------------------------------------------------------------------
(* The theorems.                                                           *)

LEMMA InvInit == Init => ConnectorsInv
  <1> SUFFICES ASSUME Init PROVE ConnectorsInv
    OBVIOUS
  <1>1. /\ phase["OT"] = "top" /\ cur["OT"] = NoObj /\ arrEvts["OT"] = {} /\ armed["OT"] = {}
        /\ setIoObjs["OT"] = {} /\ setTimers = {} /\ toCheck = {}
        /\ timerPhase = "top" /\ timerCur = NoTimer
        /\ \A c \in IoObjs :
             /\ AddCache["OT"][c] = 0 /\ DelCache["OT"][c] = 0 /\ vecTmp["OT"][c] = 0
             /\ TimerAddCache[c] = 0 /\ TimerDelCache[c] = 0 /\ timerVec[c] = 0
             /\ state[c] = "CLOSED" /\ pending[c] = "NONE" /\ sock[c] = "NULL"
    BY OneTask DEF Init, EpollInit, TimerInit, NoCopies, NoTimers
  <1>2. TaskInv /\ TimerInv
    BY <1>1 DEF TaskInv, TimerInv
  <1>3. ASSUME NEW c \in IoObjs PROVE ConnectorInv(c)
    <2>1. AddsDue(c) = 0 /\ DelsDue(c) = 0 /\ TimerAddsDue(c) = 0 /\ TimerDelsDue(c) = 0
      BY <1>1 DEF AddsDue, DelsDue, TimerAddsDue, TimerDelsDue, AddsInHand, DelsInHand,
                  TimerAddsInHand, TimerDelsInHand, OneIf
    <2>2. DueMatchesState(c)
      BY <1>1, <2>1 DEF DueMatchesState, OneIf
    <2> QED
      BY <1>1, <2>2 DEF ConnectorInv, HeldMatchesState, SockMatchesState
  <1> QED
    BY <1>2, <1>3, InitTypes DEF ConnectorsInv, Init, EpollInit

LEMMA InvStep == ConnectorsInv /\ [Next]_vars => ConnectorsInv'
  <1> SUFFICES ASSUME ConnectorsInv, [Next]_vars PROVE ConnectorsInv'
    OBVIOUS
  <1>1. TypeOK'
    BY TypeStep DEF ConnectorsInv
  <1>2. CASE UNCHANGED vars
    <2>1. aborted' = aborted /\ (Alive => TaskInv' /\ TimerInv')
      BY <1>2 DEF vars, sharedVars, taskVars, timerVars, ConnectorsInv, TaskInv, TimerInv
    <2>2. ASSUME NEW x \in IoObjs PROVE SameFields(x) /\ SameTask(x) /\ SameTimer(x)
      BY <1>2, TaskRests, TimerRests
      DEF vars, connectorVars, sharedVars, timerCaches, SameFields
    <2> QED
      <3>1. CASE Alive
        BY <1>1, <2>1, <2>2, <3>1, ThreadKeeps
      <3>2. CASE ~ Alive
        BY <1>1, <2>1, <3>2 DEF ConnectorsInv, Alive
      <3> QED
        BY <3>1, <3>2
  <1>3. CASE Next
    BY <1>1, <1>3, UserKeeps, TimerKeeps, TaskKeeps DEF Next, Alive
  <1> QED
    BY <1>2, <1>3

(* Every variable of the connectors and of the two threads keeps its type. *)
THEOREM TypeCorrect == Spec => []TypeOK
  BY InitTypes, TypeStep, PTL DEF Spec

(* The inductive invariant of the connectors and the two threads.          *)
THEOREM Invariant == Spec => []ConnectorsInv
  BY InvInit, InvStep, PTL DEF Spec

(* The assertions of the two sets hold, and a closed connector is in no    *)
(* hand but its owner's.                                                   *)
THEOREM ClosedIsReleased == Spec => []TasksAgree
  <1>1. ConnectorsInv => TasksAgree
    <2> SUFFICES ASSUME ConnectorsInv PROVE TasksAgree
      OBVIOUS
    <2>1. ASSUME Alive, NEW c \in IoObjs, state[c] = "CLOSED"
          PROVE  /\ c \notin setIoObjs["OT"] \cup armed["OT"] \cup arrEvts["OT"]
                 /\ c \notin setTimers \cup toCheck
                 /\ AddCache["OT"][c] + DelCache["OT"][c] + vecTmp["OT"][c] = 0
                 /\ TimerAddCache[c] + TimerDelCache[c] + timerVec[c] = 0
                 /\ c \notin {cur["OT"], timerCur}
      <3>1. TypeOK /\ TaskInv /\ TimerInv /\ ConnectorInv(c)
        BY <2>1 DEF ConnectorsInv
      <3>2. /\ c \notin setIoObjs["OT"] \cup armed["OT"] \cup arrEvts["OT"]
            /\ c \notin setTimers \cup toCheck
        BY <2>1, <3>1 DEF ConnectorInv, HeldMatchesState
      <3>3. AddsDue(c) = 0 /\ DelsDue(c) = 0 /\ TimerAddsDue(c) = 0 /\ TimerDelsDue(c) = 0
        BY <2>1, <3>1 DEF ConnectorInv, DueMatchesState, OneIf
      <3>4. /\ AddCache["OT"][c] = 0 /\ AddsInHand(c) = 0 /\ DelCache["OT"][c] = 0 /\ DelsInHand(c) = 0
            /\ TimerAddCache[c] = 0 /\ TimerAddsInHand(c) = 0
            /\ TimerDelCache[c] = 0 /\ TimerDelsInHand(c) = 0
        <4>1. /\ AddCache["OT"][c] \in Nat /\ DelCache["OT"][c] \in Nat
              /\ TimerAddCache[c] \in Nat /\ TimerDelCache[c] \in Nat
          BY <3>1, CountsAreNat
        <4>2. /\ AddsInHand(c) \in Nat /\ DelsInHand(c) \in Nat
              /\ TimerAddsInHand(c) \in Nat /\ TimerDelsInHand(c) \in Nat
          BY <3>1, InHandType
        <4>3. \A a, b \in Nat : a + b = 0 => a = 0 /\ b = 0
          OBVIOUS
        <4>4. /\ AddCache["OT"][c] + AddsInHand(c) = 0 /\ DelCache["OT"][c] + DelsInHand(c) = 0
              /\ TimerAddCache[c] + TimerAddsInHand(c) = 0
              /\ TimerDelCache[c] + TimerDelsInHand(c) = 0
          BY <3>3 DEF AddsDue, DelsDue, TimerAddsDue, TimerDelsDue
        <4> QED
          BY <4>1, <4>2, <4>3, <4>4
      <3>5. phase["OT"] \in Phases /\ timerPhase \in TimerPhases
        BY <3>1, OneTask DEF TypeOK, EpollTypeOK, TimerTypeOK
      <3>6. vecTmp["OT"][c] = 0 /\ c # cur["OT"]
        BY <3>1, <3>4, <3>5, CountsAreNat DEF AddsInHand, DelsInHand, OneIf, TaskInv, Phases
      <3>7. timerVec[c] = 0 /\ c # timerCur
        BY <2>1, <3>1, <3>2, <3>4, <3>5, CountsAreNat
        DEF TimerAddsInHand, TimerDelsInHand, OneIf, TimerInv, TimerPhases, ConnectorInv, HeldMatchesState
      <3> QED
        BY <3>2, <3>4, <3>6, <3>7
    <2> QED
      BY <2>1 DEF TasksAgree, ConnectorsInv
  <1> QED
    BY <1>1, Invariant, PTL

(* An event finds the attempt it was posted for: its assertions on what is *)
(* pending and on the socket hold, and no socket is asked for that is not  *)
(* there.                                                                  *)
THEOREM EventsFindTheirAttempt == Spec => []HandlersFindExpected
  <1>1. ConnectorsInv => HandlersFindExpected
    <2> SUFFICES ASSUME ConnectorsInv PROVE HandlersFindExpected
      OBVIOUS
    <2>1. ASSUME Alive, NEW c \in IoObjs
          PROVE  /\ phase["OT"] \in {"dels", "adds"} /\ vecTmp["OT"][c] > 0 => sock[c] # "NULL"
                 /\ c \in armed["OT"] => sock[c] = "open"
                 /\ state[c] = "CONNECTING" => sock[c] = "open" /\ c \in setIoObjs["OT"]
      <3>1. TypeOK /\ TaskInv /\ ConnectorInv(c)
        BY <2>1 DEF ConnectorsInv
      <3>2. CASE phase["OT"] \in {"dels", "adds"} /\ vecTmp["OT"][c] > 0
        <4>1. phase["OT"] = "dels" => DelsDue(c) > 0
          BY <3>1, <3>2, CountsAreNat DEF DelsDue, DelsInHand, OneIf
        <4>2. phase["OT"] = "adds" => AddsDue(c) > 0
          BY <3>1, <3>2, CountsAreNat DEF AddsDue, AddsInHand, OneIf
        <4> QED
          BY <3>1, <3>2, <4>1, <4>2
          DEF ConnectorInv, DueMatchesState, HeldMatchesState, SockMatchesState, OneIf
      <3> QED
        BY <3>1, <3>2 DEF ConnectorInv, HeldMatchesState, SockMatchesState
    <2> QED
      BY <2>1 DEF HandlersFindExpected, ConnectorsInv
  <1> QED
    BY <1>1, Invariant, PTL

-----------------------------------------------------------------------------
(* The refinement.                                                         *)

(* Conn, of one connector in state s with p pending.                       *)
ConnOf(s, p) ==
  CASE s = "CLOSED" -> "closed"
    [] \/ s \in {"DELING_FROM_OT_CLOSE", "DELING_FROM_TT"}
       \/ s \in {"ADDING_INTO_TT", "ADDING_INTO_OT", "DELING_FROM_OT_NORMAL"} /\ p # "NONE"
         -> "closing"
    [] s = "ADDING_INTO_TT" /\ p = "NONE" -> "opening"
    [] OTHER -> "opened"

(* The moves of Connection a connector makes.                              *)
AllowedMoves ==
  { <<"closed", "opening">>, <<"opening", "opened">>, <<"opening", "closing">>,
    <<"opened", "closing">>, <<"closing", "closed">> }

LEMMA ConnIs ==
  /\ Conn = [c \in IoObjs |-> ConnOf(state[c], pending[c])]
  /\ Conn' = [c \in IoObjs |-> ConnOf(state'[c], pending'[c])]
  BY DEF Conn, ConnOf

LEMMA MoveRefines ==
  ASSUME NEW c \in IoObjs, NEW s, NEW p,
         \A x \in IoObjs : /\ state'[x]   = IF x = c THEN s ELSE state[x]
                           /\ pending'[x] = IF x = c THEN p ELSE pending[x],
         \/ ConnOf(state[c], pending[c]) = ConnOf(s, p)
         \/ <<ConnOf(state[c], pending[c]), ConnOf(s, p)>> \in AllowedMoves
  PROVE  [C!Next]_Conn
  <1> DEFINE from == ConnOf(state[c], pending[c])
             to == ConnOf(s, p)
  <1>1. Conn' = [Conn EXCEPT ![c] = to] /\ Conn[c] = from
    <2>1. \A x \in IoObjs : ConnOf(state'[x], pending'[x])
                              = IF x = c THEN to ELSE ConnOf(state[x], pending[x])
      OBVIOUS
    <2> QED
      BY <2>1, ConnIs
  <1>2. from = to \/ <<from, to>> \in AllowedMoves
    OBVIOUS
  <1> HIDE DEF from, to
  <1>3. CASE from = to
    <2>1. Conn' = Conn
      BY <1>1, <1>3, ConnIs
    <2> QED
      BY <2>1
  <1>4. CASE <<from, to>> \in AllowedMoves
    <2>1. \/ from = "closed" /\ to = "opening"
          \/ from = "opening" /\ to = "opened"
          \/ from \in {"opening", "opened"} /\ to = "closing"
          \/ from = "closing" /\ to = "closed"
      BY <1>4 DEF AllowedMoves
    <2>2. C!Next
      BY <1>1, <2>1 DEF C!Next, C!Open, C!Opened, C!Closing, C!Closed, C!Move
    <2> QED
      BY <2>2
  <1> QED
    BY <1>2, <1>3, <1>4

(* A handler that does not finish leaves its connector as it was.          *)
LEMMA AbortsInPlace ==
  ASSUME NEW c, NEW evt, PostEvt(c, evt)
  PROVE  aborted' = aborted \/ UNCHANGED <<state, pending>>
  <1> USE DEF sharedVars, connectorVars, Abort
  <1>1. ASSUME NEW s, LeaveOutputTask(c, s) PROVE aborted' = aborted
    BY <1>1 DEF LeaveOutputTask
  <1> QED
    BY <1>1
    DEF PostEvt, HandlingClosedToAddingIntoTt, Remember, HandlingAddingIntoTtToCheckingTimer,
        HandlingCloseWhileCheckingTimer, HandlingCheckingTimerToAddingIntoOt,
        HandlingAddingIntoOtToConnecting, HandlingConnected,
        HandlingDelingFromOtCloseToDelingFromTt, HandlingInternalErrWhileDelingFromOtNormal,
        HandlingDelingFromOtNormalToCheckingTimer, HandlingDelingFromTtToClosed

LEMMA OutcomeRefines ==
  ASSUME NEW c \in IoObjs, NEW evt, Outcome(c, evt), TypeOK
  PROVE  [C!Next]_Conn
  <1>t. pending[c] \in {"NONE", "CLOSE", "INTERNAL_ERR"}
    BY TypeParts DEF HandlerTypeOK
  <1>1. ASSUME NEW s, NEW p, NEW k, NEW a, NEW d, NEW ta, NEW td, Effect(c, s, p, k, a, d, ta, td),
               \/ ConnOf(state[c], pending[c]) = ConnOf(s, p)
               \/ <<ConnOf(state[c], pending[c]), ConnOf(s, p)>> \in AllowedMoves
        PROVE  [C!Next]_Conn
    BY <1>1, MoveRefines DEF Effect
  <1>2. CASE <<state[c], evt>> \notin Handled /\ Stays(c)
    BY <1>1, <1>2 DEF Stays
  <1>3. CASE /\ state[c] = "CLOSED" /\ evt = "OPEN"
             /\ Effect(c, "ADDING_INTO_TT", "NONE", sock[c], 0, 0, 1, 0)
    BY <1>1, <1>3 DEF ConnOf, AllowedMoves
  <1>4. CASE /\ \/ state[c] \in {"ADDING_INTO_TT", "DELING_FROM_OT_NORMAL"} /\ evt = "CLOSE"
                \/ state[c] = "ADDING_INTO_OT" /\ evt \in {"CLOSE", "INTERNAL_ERR"}
             /\ Effect(c, state[c], evt, sock[c], 0, 0, 0, 0)
    <2>1. ConnOf(state[c], evt) = "closing"
      BY <1>4 DEF ConnOf
    <2>2. ConnOf(state[c], pending[c]) \in {"opening", "opened", "closing"}
      BY <1>4 DEF ConnOf
    <2> QED
      BY <1>1, <1>4, <2>1, <2>2 DEF AllowedMoves
  <1>5. CASE /\ state[c] = "ADDING_INTO_TT" /\ pending[c] # "NONE"
             /\ Effect(c, "DELING_FROM_TT", pending[c], sock[c], 0, 0, 0, 1)
    BY <1>1, <1>5 DEF ConnOf, AllowedMoves
  <1>6. CASE /\ state[c] = "ADDING_INTO_TT" /\ pending[c] = "NONE"
             /\ \E p \in {"NONE", "CLOSE"} : Effect(c, "CHECKING_TIMER", p, sock[c], 0, 0, 0, 0)
    <2>1. ASSUME NEW p \in {"NONE", "CLOSE"}
          PROVE  <<ConnOf("ADDING_INTO_TT", "NONE"), ConnOf("CHECKING_TIMER", p)>> \in AllowedMoves
      BY DEF ConnOf, AllowedMoves
    <2> QED
      BY <1>1, <1>6, <2>1
  <1>7. CASE /\ state[c] = "CHECKING_TIMER"
             /\ Effect(c, "DELING_FROM_TT", pending[c], sock[c], 0, 0, 0, 1)
    BY <1>1, <1>7 DEF ConnOf, AllowedMoves
  <1>8. CASE /\ state[c] = "CHECKING_TIMER"
             /\ \E k \in {"open", "closed"} : Effect(c, "ADDING_INTO_OT", pending[c], k, 1, 0, 0, 0)
    BY <1>1, <1>8 DEF ConnOf, AllowedMoves
  <1>9. CASE /\ state[c] \in {"ADDING_INTO_OT", "CONNECTING"}
             /\ \/ Effect(c, "DELING_FROM_OT_CLOSE", pending[c], "closed", 0, 1, 0, 0)
                \/ Effect(c, "DELING_FROM_OT_NORMAL", pending[c], "closed", 0, 1, 0, 0)
    BY <1>1, <1>9 DEF ConnOf, AllowedMoves
  <1>10. CASE /\ state[c] = "ADDING_INTO_OT" /\ pending[c] = "NONE"
              /\ Effect(c, "CONNECTING", pending[c], sock[c], 0, 0, 0, 0)
    BY <1>1, <1>10 DEF ConnOf, AllowedMoves
  <1>11. CASE /\ state[c] = "CONNECTING"
              /\ Effect(c, "DELING_FROM_OT_NORMAL", pending[c], sock[c], 0, 1, 0, 0)
    BY <1>1, <1>11 DEF ConnOf, AllowedMoves
  <1>12. CASE /\ state[c] = "DELING_FROM_OT_CLOSE"
              /\ Effect(c, "DELING_FROM_TT", pending[c], sock[c], 0, 0, 0, 1)
    BY <1>1, <1>12 DEF ConnOf, AllowedMoves
  <1>13. CASE /\ state[c] = "DELING_FROM_OT_NORMAL"
              /\ \/ Effect(c, state[c], pending[c], "closed", 0, 0, 0, 0)
                 \/ pending[c] = "CLOSE" /\ Effect(c, "DELING_FROM_TT", pending[c], "NULL", 0, 0, 0, 1)
                 \/ pending[c] = "NONE" /\ Effect(c, "CHECKING_TIMER", pending[c], "NULL", 0, 0, 0, 0)
    BY <1>1, <1>13 DEF ConnOf, AllowedMoves
  <1>14. CASE /\ state[c] = "DELING_FROM_TT"
              /\ Effect(c, "CLOSED", pending[c], sock[c], 0, 0, 0, 0)
    BY <1>1, <1>14 DEF ConnOf, AllowedMoves
  <1> QED
    BY <1>2, <1>3, <1>4, <1>5, <1>6, <1>7, <1>8, <1>9, <1>10, <1>11, <1>12, <1>13, <1>14 DEF Outcome

LEMMA StepRefines == ConnectorsInv /\ [Next]_vars => [C!Next]_Conn
  <1> SUFFICES ASSUME ConnectorsInv, [Next]_vars PROVE [C!Next]_Conn
    OBVIOUS
  <1>0. TypeOK /\ (Alive => TaskInv /\ TimerInv)
    BY DEF ConnectorsInv
  <1>1. ASSUME UNCHANGED <<state, pending>> PROVE [C!Next]_Conn
    <2>1. Conn' = Conn
      BY <1>1, ConnIs
    <2> QED
      BY <2>1
  <1>2. ASSUME UNCHANGED connectorVars PROVE [C!Next]_Conn
    BY <1>1, <1>2 DEF connectorVars
  <1>3. ASSUME NEW c \in IoObjs, NEW evt, PostEvt(c, evt), Alive PROVE [C!Next]_Conn
    <2>1. CASE aborted' = aborted
      BY <1>0, <1>3, <2>1, HandlerOutcome, OutcomeRefines
    <2> QED
      BY <1>1, <1>3, <2>1, AbortsInPlace
  <1>4. CASE UNCHANGED vars
    BY <1>2, <1>4 DEF vars
  <1>5. CASE Alive /\ UserStep
    BY <1>1, <1>3, <1>5 DEF UserStep, Open, Close, ByUser, AddEndpoint, DelEndpoint
  <1>6. CASE Alive /\ TimerStep
    <2>1. CASE HandleDelFromTimerTask \/ HandleAddIntoTimerTask \/ OnTimerPosts
      <3>1. timerCur \in IoObjs
        BY <1>0, <1>6, <2>1
        DEF HandleDelFromTimerTask, HandleAddIntoTimerTask, OnTimerPosts, NotifyTimerDeled,
            NotifyTimerAdded, TimerReturns, TimerInv, TypeOK, TimerTypeOK
      <3> QED
        BY <1>3, <1>6, <2>1, <3>1 DEF HandleDelFromTimerTask, HandleAddIntoTimerTask, OnTimerPosts
    <2> QED
      BY <1>2, <1>6, <2>1 DEF TimerStep, TimerOnly, TimerTaskErases, TimerTaskInserts, OnTimerTests
  <1>7. CASE Alive /\ TaskStep
    <2>1. CASE HandleAddFailed \/ HandleAddedIntoIoTask \/ HandleDeledFromIoTask
      <3>1. cur["OT"] \in IoObjs
        BY <1>0, <1>7, <2>1, OneTask
        DEF HandleAddFailed, HandleAddedIntoIoTask, HandleDeledFromIoTask, NotifyAdded, NotifyDeled,
            TaskInv, TypeOK, EpollTypeOK
      <3> QED
        BY <1>3, <1>7, <2>1, <3>1 DEF HandleAddFailed, HandleAddedIntoIoTask, HandleDeledFromIoTask
    <2>2. ASSUME NEW c \in IoObjs, NEW evt, HandleIoEvt(c, evt) PROVE [C!Next]_Conn
      BY <1>3, <1>7, <2>2 DEF HandleIoEvt
    <2> QED
      BY <1>2, <1>7, <2>1, <2>2 DEF TaskStep, TaskOnly, TaskInserts, TaskInsertFails
  <1> QED
    BY <1>4, <1>5, <1>6, <1>7 DEF Next, Alive

(* A user sees a connector open once, report it once, and close only       *)
(* through closing: every step is one of Connection, or none.              *)
THEOREM Refinement == Spec => ImplementsConnection
  <1>1. Init => C!Init
    BY DEF Init, C!Init, Conn
  <1>2. ConnectorsInv /\ [Next]_vars => [C!Next]_Conn
    BY StepRefines
  <1> QED
    BY <1>1, <1>2, Invariant, PTL DEF Spec, ImplementsConnection, C!Spec
=============================================================================
