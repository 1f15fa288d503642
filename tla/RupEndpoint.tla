----------------------------- MODULE RupEndpoint -----------------------------
(***************************************************************************)
(* CRupEndpoint (libsmart_net/src/smart_net/sn_endpoint_impl.cpp): the     *)
(* life of the connected endpoints of one helper, from open() to           *)
(* on_closed(), as four kinds of thread drive it at once:                  *)
(*                                                                         *)
(*   user threads    call open(), close() and send_data();                 *)
(*   the helper      (CRupAcceptor or CRupConnector) takes an endpoint     *)
(*                   from its idle deque and gives it a connected socket;  *)
(*   task "OT"       the output io task, an Epoll;                         *)
(*   task "IT"       the input io task, an Epoll.                          *)
(*                                                                         *)
(* CStateMachine::post_evt runs a handler and its state change under a     *)
(* recursive mutex, so a posted event is one step, the nested calls of the *)
(* user's on_opened() and on_closed() included.  Everything outside that   *)
(* mutex (the unlocked reads of the state in the io callbacks and in       *)
(* send_data(), the helper's pop) is a step of its own.  A CMN_ASSERT that *)
(* fails sets "aborted" and the process takes no further step; that no     *)
(* step uses a NULL m_pSock is the invariant NoNullSock, except for        *)
(* send_data(), whose use of one also ends the process.                    *)
(***************************************************************************)
EXTENDS Epoll

ASSUME IoTasksAssumption == IoTasks = {"OT", "IT"}

VARIABLES
  state,    (* m_sm's current state                                        *)
  pending,  (* m_i32SMPendingEvt                                           *)
  sock,     (* m_pSock: NULL, an open socket or a closed one               *)
  idle,     (* the helper's m_dqIdleEndpoints, copies of each endpoint     *)
  newSock,  (* does the helper hold a connected socket to hand out?        *)
  popped,   (* the endpoint the helper popped, not handled yet             *)
  sending   (* the endpoint send_data() found OPENED, not used yet         *)

endpointVars == <<state, pending, sock, idle>>
helperVars   == <<newSock, popped>>
vars == <<endpointVars, helperVars, sending, sharedVars, taskVars>>

States == {"CLOSED", "ADDED_INTO_HELPER", "ADDING_INTO_OT", "ADDING_INTO_IT",
           "OPENED", "DELING_FROM_IT", "DELING_FROM_OT"}

(* init_sm: the events each state has a handler for.                       *)
Handled ==
  { <<"CLOSED", "OPEN">>,
    <<"ADDED_INTO_HELPER", "CLOSE">>,  <<"ADDED_INTO_HELPER", "CONNECTED">>,
    <<"ADDING_INTO_OT", "CLOSE">>,     <<"ADDING_INTO_OT", "INTERNAL_ERR">>,
    <<"ADDING_INTO_OT", "ADDED_INTO_OT">>,
    <<"ADDING_INTO_IT", "CLOSE">>,     <<"ADDING_INTO_IT", "INTERNAL_ERR">>,
    <<"ADDING_INTO_IT", "ADDED_INTO_IT">>,
    <<"OPENED", "CLOSE">>,             <<"OPENED", "INTERNAL_ERR">>,
    <<"DELING_FROM_IT", "DELED_FROM_IT">>,
    <<"DELING_FROM_OT", "DELED_FROM_OT">> }

TypeOK ==
  /\ EpollTypeOK
  /\ state   \in [IoObjs -> States]
  /\ pending \in [IoObjs -> {"NONE", "CLOSE", "INTERNAL_ERR"}]
  /\ sock    \in [IoObjs -> {"NULL", "open", "closed"}]
  /\ idle    \in [IoObjs -> Nat]
  /\ newSock \in BOOLEAN
  /\ popped  \in IoObjs \cup {NoObj}
  /\ sending \in IoObjs \cup {NoObj}
  /\ aborted \in {"none", "erase", "insert", "del_endpoint", "m_pSock",
                  "send_data", "RECV_PENDING"}

Init ==
  /\ EpollInit
  /\ state   = [e \in IoObjs |-> "CLOSED"]
  /\ pending = [e \in IoObjs |-> "NONE"]
  /\ sock    = [e \in IoObjs |-> "NULL"]
  /\ idle    = [e \in IoObjs |-> 0]
  /\ newSock = FALSE
  /\ popped  = NoObj
  /\ sending = NoObj

-----------------------------------------------------------------------------
(* The handlers of the state machine, each run under its mutex.            *)

Enter(e, s) == state' = [state EXCEPT ![e] = s]

Abort(why) ==
  /\ aborted' = why
  /\ UNCHANGED <<endpointVars, AddCache, DelCache, armed>>

(* Mutation of CloseSock: the descriptor stays in the kernel's sets.       *)
CloseSockKeepsArmed(e) ==
  /\ sock' = [sock EXCEPT ![e] = "closed"]
  /\ UNCHANGED armed

(* m_pSock->close()                                                        *)
CloseSock(e) ==
  /\ sock' = [sock EXCEPT ![e] = "closed"]
  /\ Disarm(e)

(* open(): put the endpoint into the helper's deque.                       *)
HandlingClosedToAddedIntoHelper(e) ==
  /\ pending' = [pending EXCEPT ![e] = "NONE"]
  /\ idle' = [idle EXCEPT ![e] = @ + 1]
  /\ Enter(e, "ADDED_INTO_HELPER")
  /\ UNCHANGED <<sock, sharedVars>>

(* The state is CLOSED and on_closed() runs; the user's on_closed() may    *)
(* call open() (the tester's does); m_pSock is dropped after it returns.   *)
(* "left" is the idle deque on_closed() finds.                             *)
ClosedByUser(e, left) ==
  /\ \/ /\ Enter(e, "CLOSED")
        /\ idle' = left
        /\ UNCHANGED pending
     \/ /\ Enter(e, "ADDED_INTO_HELPER")
        /\ idle' = [left EXCEPT ![e] = @ + 1]
        /\ pending' = [pending EXCEPT ![e] = "NONE"]
  /\ sock' = [sock EXCEPT ![e] = "NULL"]

(* Mutation of HandlingAddedIntoHelperToClosed: the deque keeps its copy.  *)
ClosedButStillIdle(e) ==
  \/ sock[e] # "NULL" /\ Abort("m_pSock")
  \/ sock[e] = "NULL" /\ idle[e] = 0 /\ Abort("del_endpoint")
  \/ sock[e] = "NULL" /\ idle[e] > 0 /\ ClosedByUser(e, idle) /\ UNCHANGED sharedVars

(* close() while idle: leave the helper's deque, which must hold the       *)
(* endpoint (CMN_ASSERT(bFlag) in the helper's del_endpoint).              *)
HandlingAddedIntoHelperToClosed(e) ==
  \/ sock[e] # "NULL" /\ Abort("m_pSock")
  \/ sock[e] = "NULL" /\ idle[e] = 0 /\ Abort("del_endpoint")
  \/ /\ sock[e] = "NULL" /\ idle[e] > 0
     /\ ClosedByUser(e, [idle EXCEPT ![e] = @ - 1])
     /\ UNCHANGED sharedVars

(* The helper gives the endpoint a socket; the output task comes first.    *)
HandlingAddedIntoHelperToAddingIntoOt(e) ==
  IF sock[e] # "NULL"
  THEN Abort("m_pSock")
  ELSE /\ sock' = [sock EXCEPT ![e] = "open"]
       /\ AddIoObj("OT", e)
       /\ Enter(e, "ADDING_INTO_OT")
       /\ UNCHANGED <<pending, idle, DelCache, armed, aborted>>

(* close() or an error while a task is adding the endpoint is remembered.  *)
RememberWhileAdding(e, evt) ==
  /\ pending' = [pending EXCEPT ![e] = evt]
  /\ UNCHANGED <<state, sock, idle, sharedVars>>

(* Mutation of HandlingInternalErrWhileAddingIntoOt: the error is only     *)
(* remembered, as it is while the input task is adding the endpoint.       *)
RemembersErrInOt(e) == RememberWhileAdding(e, "INTERNAL_ERR")

(* The output task could not add the endpoint: CLOSED, without on_closed() *)
(* and with m_pSock left as it is.                                         *)
HandlingInternalErrWhileAddingIntoOt(e) ==
  /\ pending' = [pending EXCEPT ![e] = "INTERNAL_ERR"]
  /\ Enter(e, "CLOSED")
  /\ UNCHANGED <<sock, idle, sharedVars>>

(* Mutation of GiveUp: the wrong task is asked to delete the endpoint.     *)
GivesUpInputTask(e) ==
  /\ CloseSock(e)
  /\ DelIoObj("IT", e)
  /\ Enter(e, "DELING_FROM_OT")
  /\ UNCHANGED <<pending, idle, AddCache, aborted>>

(* A pending event takes the endpoint back out of the output task.         *)
GiveUp(e) ==
  /\ CloseSock(e)
  /\ DelIoObj("OT", e)
  /\ Enter(e, "DELING_FROM_OT")
  /\ UNCHANGED <<pending, idle, AddCache, aborted>>

(* Mutation of HandlingAddedIntoOtToAddingIntoIt: the input task is not    *)
(* told of the endpoint.                                                   *)
ForgetsInputTask(e) ==
  IF pending[e] = "CLOSE"
  THEN GiveUp(e)
  ELSE /\ Enter(e, "ADDING_INTO_IT")
       /\ UNCHANGED <<pending, sock, idle, sharedVars>>

HandlingAddedIntoOtToAddingIntoIt(e) ==
  IF pending[e] = "CLOSE"
  THEN GiveUp(e)
  ELSE /\ AddIoObj("IT", e)
       /\ Enter(e, "ADDING_INTO_IT")
       /\ UNCHANGED <<pending, sock, idle, DelCache, armed, aborted>>

(* Mutation of HandlingAddingIntoItToOpened: what is pending is ignored.   *)
OpensWhatever(e) ==
  /\ Enter(e, "OPENED")
  /\ UNCHANGED <<pending, sock, idle, sharedVars>>

(* Both tasks have the endpoint.  on_opened() runs before the state is     *)
(* OPENED: a close() it makes is remembered like any other close() made    *)
(* while ADDING_INTO_IT.  (The user's on_opened() may always make one.)    *)
HandlingAddingIntoItToOpened(e) ==
  IF pending[e] # "NONE"
  THEN GiveUp(e)
  ELSE /\ \E p \in {"NONE", "CLOSE"} : pending' = [pending EXCEPT ![e] = p]
       /\ Enter(e, "OPENED")
       /\ UNCHANGED <<sock, idle, sharedVars>>

(* Mutations of HandlingCloseOrErrWhileOpened: m_pSock is dropped with the *)
(* socket; the output task comes first, and nobody tells the input task.   *)
ClosingDropsSock(e) ==
  /\ sock' = [sock EXCEPT ![e] = "NULL"]
  /\ Disarm(e)
  /\ DelIoObj("IT", e)
  /\ Enter(e, "DELING_FROM_IT")
  /\ UNCHANGED <<pending, idle, AddCache, aborted>>

ClosingSkipsInputTask(e) ==
  /\ CloseSock(e)
  /\ DelIoObj("OT", e)
  /\ Enter(e, "DELING_FROM_OT")
  /\ UNCHANGED <<pending, idle, AddCache, aborted>>

(* close() or an error while OPENED: out of the input task first.          *)
HandlingCloseOrErrWhileOpened(e) ==
  /\ CloseSock(e)
  /\ DelIoObj("IT", e)
  /\ Enter(e, "DELING_FROM_IT")
  /\ UNCHANGED <<pending, idle, AddCache, aborted>>

(* Mutation of HandlingDelingFromItToDelingFromOt: the output task is not  *)
(* asked to delete the endpoint.                                           *)
ForgetsOutputTask(e) ==
  /\ Enter(e, "DELING_FROM_OT")
  /\ UNCHANGED <<pending, sock, idle, sharedVars>>

HandlingDelingFromItToDelingFromOt(e) ==
  /\ DelIoObj("OT", e)
  /\ Enter(e, "DELING_FROM_OT")
  /\ UNCHANGED <<pending, sock, idle, AddCache, armed, aborted>>

HandlingDelingFromOtToClosed(e) ==
  /\ ClosedByUser(e, idle)
  /\ UNCHANGED sharedVars

(* post_evt: run the handler registered for the state, or do nothing.      *)
PostEvt(e, evt) ==
  \/ <<state[e], evt>> \notin Handled /\ UNCHANGED <<endpointVars, sharedVars>>
  \/ /\ state[e] = "CLOSED" /\ evt = "OPEN"
     /\ HandlingClosedToAddedIntoHelper(e)
  \/ /\ state[e] = "ADDED_INTO_HELPER" /\ evt = "CLOSE"
     /\ HandlingAddedIntoHelperToClosed(e)
  \/ /\ state[e] = "ADDED_INTO_HELPER" /\ evt = "CONNECTED"
     /\ HandlingAddedIntoHelperToAddingIntoOt(e)
  \/ /\ state[e] = "ADDING_INTO_OT" /\ evt = "INTERNAL_ERR"
     /\ HandlingInternalErrWhileAddingIntoOt(e)
  \/ /\ \/ state[e] = "ADDING_INTO_OT" /\ evt = "CLOSE"
        \/ state[e] = "ADDING_INTO_IT" /\ evt \in {"CLOSE", "INTERNAL_ERR"}
     /\ RememberWhileAdding(e, evt)
  \/ /\ state[e] = "ADDING_INTO_OT" /\ evt = "ADDED_INTO_OT"
     /\ HandlingAddedIntoOtToAddingIntoIt(e)
  \/ /\ state[e] = "ADDING_INTO_IT" /\ evt = "ADDED_INTO_IT"
     /\ HandlingAddingIntoItToOpened(e)
  \/ /\ state[e] = "OPENED" /\ evt \in {"CLOSE", "INTERNAL_ERR"}
     /\ HandlingCloseOrErrWhileOpened(e)
  \/ /\ state[e] = "DELING_FROM_IT" /\ evt = "DELED_FROM_IT"
     /\ HandlingDelingFromItToDelingFromOt(e)
  \/ /\ state[e] = "DELING_FROM_OT" /\ evt = "DELED_FROM_OT"
     /\ HandlingDelingFromOtToClosed(e)

-----------------------------------------------------------------------------
(* User threads.                                                           *)

Open(e) ==
  /\ PostEvt(e, "OPEN")
  /\ UNCHANGED <<helperVars, sending, taskVars>>

Close(e) ==
  /\ PostEvt(e, "CLOSE")
  /\ UNCHANGED <<helperVars, sending, taskVars>>

(* send_data reads the state without the mutex,                            *)
SendDataTests(e) ==
  /\ sending = NoObj
  /\ state[e] = "OPENED"
  /\ sending' = e
  /\ UNCHANGED <<endpointVars, helperVars, sharedVars, taskVars>>

(* and calls m_pSock->send afterwards.                                     *)
SendDataSends ==
  /\ sending # NoObj
  /\ aborted' = IF sock[sending] = "NULL" THEN "send_data" ELSE aborted
  /\ sending' = NoObj
  /\ UNCHANGED <<endpointVars, helperVars, AddCache, DelCache, armed, taskVars>>

-----------------------------------------------------------------------------
(* The helper: the loop that CRupAcceptor::handle_input_evt and            *)
(* CRupConnector::handling_deling_from_ot_normal_to_checking_timer share.  *)

HelperConnects ==
  /\ ~newSock
  /\ newSock' = TRUE
  /\ UNCHANGED <<endpointVars, popped, sending, sharedVars, taskVars>>

(* Mutation of HelperPops: pop_front() of a deque not tested for empty.    *)
PopsUntested(e) ==
  /\ newSock /\ popped = NoObj
  /\ idle' = [idle EXCEPT ![e] = @ - 1]
  /\ popped' = e
  /\ UNCHANGED <<state, pending, sock, newSock, sending, sharedVars, taskVars>>

HelperPops(e) ==
  /\ newSock /\ popped = NoObj
  /\ idle[e] > 0
  /\ idle' = [idle EXCEPT ![e] = @ - 1]
  /\ popped' = e
  /\ UNCHANGED <<state, pending, sock, newSock, sending, sharedVars, taskVars>>

(* Nobody is idle: the helper closes the socket.                           *)
HelperGivesUp ==
  /\ newSock /\ popped = NoObj
  /\ idle = NoCopies
  /\ newSock' = FALSE
  /\ UNCHANGED <<endpointVars, popped, sending, sharedVars, taskVars>>

(* handle_connected: done if the endpoint takes the socket, else the loop  *)
(* pops the next one.                                                      *)
HelperHandsOver ==
  /\ popped # NoObj
  /\ PostEvt(popped, "CONNECTED")
  /\ newSock' = (<<state[popped], "CONNECTED">> \notin Handled)
  /\ popped' = NoObj
  /\ UNCHANGED <<sending, taskVars>>

-----------------------------------------------------------------------------
(* The io tasks' threads in exec(), with the endpoint's callbacks.         *)

Added(t) == IF t = "OT" THEN "ADDED_INTO_OT" ELSE "ADDED_INTO_IT"
Deled(t) == IF t = "OT" THEN "DELED_FROM_OT" ELSE "DELED_FROM_IT"

TaskOnly == UNCHANGED <<endpointVars, helperVars, sending>>

TaskErases(t, e) == EraseIoObj(t, e) /\ TaskOnly

(* epoll_ctl may always fail, and must on a closed descriptor.             *)
TaskInserts(t, e) == sock[e] = "open" /\ InsertIoObj(t, e) /\ TaskOnly

TaskInsertFails(t, e) == InsertFails(t, e) /\ TaskOnly

HandleDeledFromIoTask(t) ==
  /\ NotifyDeled(t)
  /\ PostEvt(cur[t], Deled(t))
  /\ UNCHANGED <<helperVars, sending>>

(* handle_added_into_io_task posts INTERNAL_ERR on an error ...            *)
HandleAddFailed(t) ==
  /\ NotifyAddFailed(t)
  /\ PostEvt(cur[t], "INTERNAL_ERR")
  /\ UNCHANGED <<helperVars, sending>>

(* ... and in every case the ADDED event, in a second post_evt.            *)
HandleAddedIntoIoTask(t) ==
  /\ NotifyAdded(t)
  /\ PostEvt(cur[t], Added(t))
  /\ UNCHANGED <<helperVars, sending>>

HandleIoError(t, e) ==
  /\ DispatchEvent(t, e)
  /\ GoTo(t, "events", NoObj)
  /\ PostEvt(e, "INTERNAL_ERR")
  /\ UNCHANGED <<helperVars, sending>>

(* handle_input_evt, handle_output_evt: the state is read without the      *)
(* mutex; unless it is OPENED the event is ignored,                        *)
HandleIoEvtTests(t, e) ==
  /\ DispatchEvent(t, e)
  /\ IF state[e] = "OPENED" THEN GoTo(t, "io", e) ELSE GoTo(t, "events", NoObj)
  /\ UNCHANGED <<endpointVars, helperVars, sending, sharedVars>>

(* and m_pSock is used next: data moves, or an io error or a failed keep   *)
(* alive posts INTERNAL_ERR.  A recvmsg that is interrupted, or finds      *)
(* nothing, comes back as CMNERR_RECV_PENDING: CMN_ASSERT(false).          *)
HandleIoEvtUsesSock(t) ==
  /\ phase[t] = "io"
  /\ GoTo(t, "events", NoObj)
  /\ \/ UNCHANGED <<endpointVars, sharedVars>>
     \/ PostEvt(cur[t], "INTERNAL_ERR")
     \/ t = "IT" /\ Abort("RECV_PENDING")
  /\ UNCHANGED <<helperVars, sending, setIoObjs, vecTmp, arrEvts>>

TaskStep(t) ==
  \/ SwapDelCache(t) /\ TaskOnly
  \/ SwapAddCache(t) /\ TaskOnly
  \/ EpollWait(t)    /\ TaskOnly
  \/ ExecReturns(t)  /\ TaskOnly
  \/ HandleDeledFromIoTask(t)
  \/ HandleAddFailed(t)
  \/ HandleAddedIntoIoTask(t)
  \/ HandleIoEvtUsesSock(t)
  \/ \E e \in IoObjs : \/ TaskErases(t, e)
                       \/ TaskInserts(t, e)
                       \/ TaskInsertFails(t, e)
                       \/ HandleIoError(t, e)
                       \/ HandleIoEvtTests(t, e)

HelperStep ==
  \/ HelperConnects \/ HelperGivesUp \/ HelperHandsOver
  \/ \E e \in IoObjs : HelperPops(e)

UserStep ==
  \/ SendDataSends
  \/ \E e \in IoObjs : Open(e) \/ Close(e) \/ SendDataTests(e)

Next ==
  /\ aborted = "none"
  /\ \/ UserStep
     \/ HelperStep
     \/ \E t \in IoTasks : TaskStep(t)

(* The io threads loop for ever; users and peers owe nothing.              *)
Fairness == \A t \in IoTasks : WF_vars(aborted = "none" /\ TaskStep(t))

Spec == Init /\ [][Next]_vars

FairSpec == Spec /\ Fairness

-----------------------------------------------------------------------------
(* Safety.                                                                 *)

Alive == aborted = "none"

(* No task is ever asked to delete an endpoint it does not hold:           *)
(* CMN_ASSERT(1 == stRet) in CEpoll::exec holds whatever order closes, io  *)
(* errors, failed epoll_ctl calls and re-opens come in.                    *)
NoEraseMiss == aborted # "erase"

(* m_pSock is not NULL where a task's thread asks for its handle, where an *)
(* io callback uses it after the unlocked test of the state, and where a   *)
(* handler of the state machine closes it.                                 *)
NoNullSock ==
  Alive => \A e \in IoObjs :
    /\ \A t \in IoTasks :
         /\ phase[t] \in {"dels", "adds"} /\ vecTmp[t][e] > 0 => sock[e] # "NULL"
         /\ phase[t] = "io" /\ cur[t] = e                     => sock[e] # "NULL"
    /\ state[e] \in {"ADDING_INTO_OT", "ADDING_INTO_IT", "OPENED"}
         => sock[e] # "NULL"

(* m_arrEvts holds raw pointers ("no need add ref, for i have add it       *)
(* outside"): each event not handled yet is of an object that m_setIoObjs  *)
(* of the same task still references.                                      *)
EventsPinned == Alive => \A t \in IoTasks : arrEvts[t] \subseteq setIoObjs[t]

(* An event of an old connection never reaches the endpoint in its next    *)
(* one, where EE_INTERNAL_ERR would break it off: an event that a task has *)
(* collected and not handled yet finds the endpoint in a state that the    *)
(* same connection is in, however users, errors and the other task close   *)
(* and re-open it meanwhile.  It rests on the order in which an endpoint   *)
(* leaves the tasks and, for one that the input task was never asked to    *)
(* delete, on the descriptor that was closed (handle_io_error,             *)
(* handling_adding_into_it_to_opened).                                     *)
EventsOfThisConnection ==
  Alive => \A e \in IoObjs :
    /\ e \in arrEvts["IT"] => state[e] \in {"OPENED", "DELING_FROM_IT"}
    /\ e \in arrEvts["OT"] =>
         state[e] \in {"ADDING_INTO_IT", "OPENED", "DELING_FROM_IT", "DELING_FROM_OT"}

(* While an io callback is between its unlocked test of the state and its  *)
(* use of m_pSock, a concurrent close() or error cannot take the endpoint  *)
(* past the task that runs the callback, so it is not closed and handed a  *)
(* second connection underneath it.                                        *)
IoKeepsEndpoint ==
  Alive => \A e \in IoObjs :
    /\ phase["IT"] = "io" /\ cur["IT"] = e
         => state[e] \in {"OPENED", "DELING_FROM_IT"}
    /\ phase["OT"] = "io" /\ cur["OT"] = e
         => state[e] \in {"OPENED", "DELING_FROM_IT", "DELING_FROM_OT"}

(* An endpoint waiting for a connection is in its helper's deque exactly   *)
(* once, or in the hands of the helper; no other endpoint is.              *)
IdleExact ==
  Alive => \A e \in IoObjs :
    idle[e] + (IF popped = e THEN 1 ELSE 0)
      = IF state[e] = "ADDED_INTO_HELPER" THEN 1 ELSE 0

(* CMN_ASSERT(EE_NONE == m_i32SMPendingEvt) of the transition to           *)
(* ADDING_INTO_IT: an error never stays pending while the output task is   *)
(* adding the endpoint.                                                    *)
NoErrPendingInOt ==
  Alive => \A e \in IoObjs : state[e] = "ADDING_INTO_OT" => pending[e] # "INTERNAL_ERR"

-----------------------------------------------------------------------------
(* The inductive invariant: the state of an endpoint determines which      *)
(* task still has to add or delete it, and which task holds it.            *)

(* What a task must still add or delete for e: the copies in its cache,    *)
(* and those its thread has in hand, the one whose callback it is in       *)
(* included.                                                               *)
AddsInHand(t, e) ==
  (IF phase[t] \in {"adds", "addfailed", "added"} THEN vecTmp[t][e] ELSE 0)
    + (IF phase[t] \in {"addfailed", "added"} /\ cur[t] = e THEN 1 ELSE 0)

DelsInHand(t, e) ==
  (IF phase[t] \in {"dels", "deled"} THEN vecTmp[t][e] ELSE 0)
    + (IF phase[t] = "deled" /\ cur[t] = e THEN 1 ELSE 0)

AddsDue(t, e) == AddCache[t][e] + AddsInHand(t, e)

DelsDue(t, e) == DelCache[t][e] + DelsInHand(t, e)

(* The output task failed to add e and has posted INTERNAL_ERR; it is      *)
(* about to post ADDED_INTO_OT, which nobody waits for any more.           *)
Stale(e) ==
  /\ phase["OT"] = "added" /\ cur["OT"] = e
  /\ state[e] \in {"CLOSED", "ADDED_INTO_HELPER"}

OneIf(b) == IF b THEN 1 ELSE 0

(* One task at a time works on an endpoint, on one request.                *)
DueMatchesState(e) ==
  /\ AddsDue("OT", e) = OneIf(state[e] = "ADDING_INTO_OT" \/ Stale(e))
  /\ AddsDue("IT", e) = OneIf(state[e] = "ADDING_INTO_IT")
  /\ DelsDue("OT", e) = OneIf(state[e] = "DELING_FROM_OT")
  /\ DelsDue("IT", e) = OneIf(state[e] = "DELING_FROM_IT")

(* Which task holds the endpoint.  (After a close() that was pending while *)
(* ADDING_INTO_IT the input task holds it for ever, hence an implication.) *)
HeldMatchesState(e) ==
  /\ e \in setIoObjs["OT"] <=>
       \/ state[e] \in {"ADDING_INTO_IT", "OPENED", "DELING_FROM_IT"}
       \/ state[e] = "ADDING_INTO_OT" /\ phase["OT"] = "added" /\ cur["OT"] = e
       \/ state[e] = "DELING_FROM_OT" /\ ~(phase["OT"] = "deled" /\ cur["OT"] = e)
  /\ (\/ state[e] = "OPENED"
      \/ state[e] = "DELING_FROM_IT" /\ ~(phase["IT"] = "deled" /\ cur["IT"] = e)
      \/ /\ state[e] = "ADDING_INTO_IT" /\ pending[e] = "NONE"
         /\ phase["IT"] = "added" /\ cur["IT"] = e)
     => e \in setIoObjs["IT"]
  /\ e \in armed["IT"] \cup arrEvts["IT"] =>
       \/ state[e] = "OPENED"
       \/ state[e] = "DELING_FROM_IT" /\ ~(phase["IT"] = "deled" /\ cur["IT"] = e)
       \/ state[e] = "ADDING_INTO_IT" /\ phase["IT"] = "added" /\ cur["IT"] = e

SockMatchesState(e) ==
  /\ state[e] \in {"ADDING_INTO_OT", "ADDING_INTO_IT", "OPENED"} => sock[e] = "open"
  /\ state[e] \in {"DELING_FROM_IT", "DELING_FROM_OT"} => sock[e] = "closed"
  /\ Stale(e) => sock[e] = "open"

(* open() forgets what was pending.                                        *)
PendingMatchesState(e) ==
  /\ state[e] = "ADDED_INTO_HELPER" => pending[e] = "NONE"
  /\ state[e] = "ADDING_INTO_OT" => pending[e] # "INTERNAL_ERR"

TaskInv(t) ==
  /\ phase[t] \in {"top", "events", "io"} => vecTmp[t] = NoCopies
  /\ (cur[t] \in IoObjs) = (phase[t] \in {"deled", "addfailed", "added", "io"})
  /\ armed[t] \subseteq setIoObjs[t]
  /\ arrEvts[t] \subseteq setIoObjs[t]
  /\ phase[t] \notin {"events", "io"} => arrEvts[t] = {}

IndInv ==
  /\ TypeOK
  /\ NoEraseMiss
  /\ IdleExact
  /\ IoKeepsEndpoint
  /\ Alive => /\ \A t \in IoTasks : TaskInv(t)
              /\ \A e \in IoObjs : /\ DueMatchesState(e)
                                   /\ HeldMatchesState(e)
                                   /\ SockMatchesState(e)
                                   /\ PendingMatchesState(e)

-----------------------------------------------------------------------------
(* What the user sees.                                                     *)

Conn ==
  [e \in IoObjs |->
     CASE state[e] = "CLOSED" -> "closed"
       [] state[e] = "OPENED" -> "opened"
       [] \/ state[e] \in {"DELING_FROM_IT", "DELING_FROM_OT"}
          \/ state[e] \in {"ADDING_INTO_OT", "ADDING_INTO_IT"} /\ pending[e] # "NONE"
                              -> "closing"
       [] OTHER               -> "opening"]

C == INSTANCE Connection WITH Endpoints <- IoObjs, conn <- Conn

(* The endpoint implements Connection: in particular a close() made while  *)
(* the tasks are adding it is never followed by on_opened(), and an opened *)
(* endpoint is not closed before both tasks let go of it.                  *)
ImplementsConnection == C!Spec

(* Liveness, under Fairness.                                               *)

(* Closing ends: a close() or an error that was taken leads to on_closed() *)
(* (or the process died of an assertion).                                  *)
CloseCompletes ==
  \A e \in IoObjs : Conn[e] = "closing" ~> (Conn[e] # "closing" \/ aborted # "none")

(* A connected socket given to an endpoint does not leave it between two   *)
(* tasks for ever.                                                         *)
OpenCompletes ==
  \A e \in IoObjs :
    state[e] \in {"ADDING_INTO_OT", "ADDING_INTO_IT"}
      ~> (state[e] \in {"OPENED", "CLOSED", "ADDED_INTO_HELPER"} \/ aborted # "none")

-----------------------------------------------------------------------------
(* What the source asserts or says, and its code does not keep.            *)

(* CMN_ASSERT(bFlag) of the helper's del_endpoint: close() of an idle      *)
(* endpoint finds it in the deque.                                         *)
CloseFindsIdleEndpoint == aborted # "del_endpoint"

(* CMN_ASSERT(NULL == m_pSock): an endpoint that is closed holds no socket *)
(* when it is connected or closed again.                                   *)
ClosedHoldsNoSock == aborted # "m_pSock"

(* CMN_ASSERT(pairRet.second): a task is not given an object it holds.     *)
NoInsertTwice == aborted # "insert"

(* "if you want close this endpoint, please invoke this func, but it is    *)
(* aysnc": a close() remembered before OPENED is acted upon when that      *)
(* state is reached, so nothing is pending once OPENED (nobody looks at    *)
(* what is pending from then on).                                          *)
NothingPendingOnceOpened ==
  \A e \in IoObjs : state[e] = "OPENED" => pending[e] = "NONE"

(* "state machine make the obj state thread-safe": a send_data() that saw  *)
(* the endpoint OPENED has a socket to send on.                            *)
SendDataHasSock == aborted # "send_data"
=============================================================================
