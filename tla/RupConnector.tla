----------------------------- MODULE RupConnector -----------------------------
(***************************************************************************)
(* CRupConnector (libsmart_net/src/smart_net/sn_endpoint_impl.cpp): while  *)
(* it is open and endpoints wait in its deque, its timer starts one        *)
(* connection attempt after the other; a connected socket is given to an   *)
(* endpoint.  Three kinds of thread drive it: users (open, close, and the  *)
(* open and close of endpoints), the misc thread (TimeNotifier) and the    *)
(* output task (Epoll).                                                    *)
(*                                                                         *)
(* Several connectors share the two threads.  As in RupEndpoint a posted   *)
(* event is one step under the connector's mutex, and "aborted" is the     *)
(* assertion the process died of.                                          *)
(***************************************************************************)
EXTENDS Epoll, TimeNotifier

CONSTANTS
  MaxIdle,   (* bound: endpoints that wait in one deque                    *)
  MayFail    (* may socket() or epoll_ctl() fail?                          *)

ASSUME ConnectorAssumption ==
  /\ IoTasks = {"OT"} /\ Timers = IoObjs
  /\ MaxIdle \in Nat /\ MayFail \in BOOLEAN

VARIABLES
  state,     (* m_sm's current state                                       *)
  pending,   (* m_i32PendingEvt                                            *)
  sock,      (* m_pTcpSock: NULL, an open socket or a closed one           *)
  idle       (* the length of m_dqIdleEndpoints                            *)

connectorVars == <<state, pending, sock, idle>>
vars == <<connectorVars, sharedVars, taskVars, timerCaches, timerVars>>

States == {"CLOSED", "ADDING_INTO_TT", "CHECKING_TIMER", "ADDING_INTO_OT",
           "CONNECTING", "DELING_FROM_OT_CLOSE", "DELING_FROM_OT_NORMAL",
           "DELING_FROM_TT"}

(* The rows of the constructor's table.                                    *)
Handled ==
  { <<"CLOSED", "OPEN">>,
    <<"ADDING_INTO_TT", "CLOSE">>, <<"ADDING_INTO_TT", "ADDED_INTO_TT">>,
    <<"CHECKING_TIMER", "CLOSE">>, <<"CHECKING_TIMER", "CONNECT">>,
    <<"ADDING_INTO_OT", "CLOSE">>, <<"ADDING_INTO_OT", "INTERNAL_ERR">>,
    <<"ADDING_INTO_OT", "ADDED_INTO_OT">>,
    <<"CONNECTING", "CLOSE">>, <<"CONNECTING", "INTERNAL_ERR">>,
    <<"CONNECTING", "CONNECTED">>,
    <<"DELING_FROM_OT_CLOSE", "DELED_FROM_OT">>,
    <<"DELING_FROM_OT_NORMAL", "CLOSE">>,
    <<"DELING_FROM_OT_NORMAL", "INTERNAL_ERR">>,
    <<"DELING_FROM_OT_NORMAL", "DELED_FROM_OT">>,
    <<"DELING_FROM_TT", "DELED_FROM_TT">> }

TypeOK ==
  /\ EpollTypeOK
  /\ TimerTypeOK
  /\ state   \in [IoObjs -> States]
  /\ pending \in [IoObjs -> {"NONE", "CLOSE", "INTERNAL_ERR"}]
  /\ sock    \in [IoObjs -> {"NULL", "open", "closed"}]
  /\ idle    \in [IoObjs -> 0..MaxIdle]
  /\ aborted \in {"none", "erase", "insert", "timer_erase", "timer_insert",
                  "m_pTcpSock", "pending", "is_opened"}

Init ==
  /\ EpollInit /\ TimerInit
  /\ state   = [c \in IoObjs |-> "CLOSED"]
  /\ pending = [c \in IoObjs |-> "NONE"]
  /\ sock    = [c \in IoObjs |-> "NULL"]
  /\ idle    = [c \in IoObjs |-> 0]

-----------------------------------------------------------------------------
(* The handlers of the state machine.                                      *)

Enter(c, s) == state' = [state EXCEPT ![c] = s]

Abort(why) ==
  /\ aborted' = why
  /\ UNCHANGED <<connectorVars, AddCache, DelCache, armed, timerCaches>>

CloseSock(c) ==
  /\ sock' = [sock EXCEPT ![c] = "closed"]
  /\ Disarm(c)

HandlingClosedToAddingIntoTt(c) ==
  /\ pending' = [pending EXCEPT ![c] = "NONE"]
  /\ AddTimer(c)
  /\ Enter(c, "ADDING_INTO_TT")
  /\ UNCHANGED <<sock, idle, sharedVars, TimerDelCache>>

(* handling_close_while_adding_into_tt, ..._while_adding_into_ot,          *)
(* ..._while_deling_from_ot_normal, handling_internal_err_while_adding_... *)
Remember(c, evt) ==
  /\ pending' = [pending EXCEPT ![c] = evt]
  /\ UNCHANGED <<state, sock, idle, sharedVars, timerCaches>>

(* del_timer, and the state is DELING_FROM_TT.                             *)
LeaveTimerTask(c) ==
  /\ DelTimer(c)
  /\ Enter(c, "DELING_FROM_TT")
  /\ UNCHANGED TimerAddCache

(* Mutation of HandlingAddingIntoTtToCheckingTimer: what is pending is not *)
(* looked at.                                                              *)
ChecksTimerWhatever(c) ==
  /\ Enter(c, "CHECKING_TIMER")
  /\ UNCHANGED <<pending, sock, idle, sharedVars, timerCaches>>

(* on_opened() may call close(), which this state only remembers.          *)
HandlingAddingIntoTtToCheckingTimer(c) ==
  \/ /\ pending[c] # "NONE"
     /\ LeaveTimerTask(c)
     /\ UNCHANGED <<pending, sock, idle, sharedVars>>
  \/ /\ pending[c] = "NONE"
     /\ pending' \in {pending, [pending EXCEPT ![c] = "CLOSE"]}
     /\ Enter(c, "CHECKING_TIMER")
     /\ UNCHANGED <<sock, idle, sharedVars, timerCaches>>

(* Mutation of HandlingCloseWhileCheckingTimer: the state is not left.     *)
ClosesInPlace(c) ==
  \/ sock[c] # "NULL" /\ Abort("m_pTcpSock")
  \/ /\ sock[c] = "NULL"
     /\ DelTimer(c)
     /\ UNCHANGED <<connectorVars, sharedVars, TimerAddCache>>

HandlingCloseWhileCheckingTimer(c) ==
  \/ sock[c] # "NULL" /\ Abort("m_pTcpSock")
  \/ /\ sock[c] = "NULL"
     /\ LeaveTimerTask(c)
     /\ UNCHANGED <<pending, sock, idle, sharedVars>>

(* A new socket, "closed" if socket() failed, starts to connect and is     *)
(* added to the output task whatever open() and connect() returned.        *)
HandlingCheckingTimerToAddingIntoOt(c) ==
  \/ sock[c] # "NULL" /\ Abort("m_pTcpSock")
  \/ /\ sock[c] = "NULL"
     /\ \E s \in IF MayFail THEN {"open", "closed"} ELSE {"open"} :
           sock' = [sock EXCEPT ![c] = s]
     /\ AddIoObj("OT", c)
     /\ Enter(c, "ADDING_INTO_OT")
     /\ UNCHANGED <<pending, idle, DelCache, armed, aborted, timerCaches>>

(* Mutations of LeaveOutputTask: the socket stays open; it is dropped.     *)
LeavesOpen(c, s) ==
  /\ DelIoObj("OT", c)
  /\ Enter(c, s)
  /\ UNCHANGED <<pending, sock, idle, AddCache, armed, aborted, timerCaches>>

DropsSock(c, s) ==
  /\ sock' = [sock EXCEPT ![c] = "NULL"] /\ Disarm(c)
  /\ DelIoObj("OT", c)
  /\ Enter(c, s)
  /\ UNCHANGED <<pending, idle, AddCache, aborted, timerCaches>>

(* Close the socket and leave the output task.                             *)
LeaveOutputTask(c, s) ==
  /\ CloseSock(c)
  /\ DelIoObj("OT", c)
  /\ Enter(c, s)
  /\ UNCHANGED <<pending, idle, AddCache, aborted, timerCaches>>

HandlingAddingIntoOtToConnecting(c) ==
  \/ /\ pending[c] # "NONE"
     /\ LeaveOutputTask(c, IF pending[c] = "CLOSE" THEN "DELING_FROM_OT_CLOSE"
                                                   ELSE "DELING_FROM_OT_NORMAL")
  \/ /\ pending[c] = "NONE"
     /\ Enter(c, "CONNECTING")
     /\ UNCHANGED <<pending, sock, idle, sharedVars, timerCaches>>

HandlingConnected(c) ==
  \/ sock[c] # "open" /\ Abort("is_opened")
  \/ /\ sock[c] = "open"
     /\ DelIoObj("OT", c)
     /\ Enter(c, "DELING_FROM_OT_NORMAL")
     /\ UNCHANGED <<pending, sock, idle, AddCache, armed, aborted, timerCaches>>

(* Mutation of HandlingDelingFromOtCloseToDelingFromTt: the timer stays.   *)
ClosesWithTimer(c) ==
  \/ sock[c] = "open" /\ Abort("is_opened")
  \/ /\ sock[c] # "open"
     /\ Enter(c, "CLOSED")
     /\ UNCHANGED <<pending, sock, idle, sharedVars, timerCaches>>

HandlingDelingFromOtCloseToDelingFromTt(c) ==
  \/ sock[c] = "open" /\ Abort("is_opened")
  \/ /\ sock[c] # "open"
     /\ LeaveTimerTask(c)
     /\ UNCHANGED <<pending, sock, idle, sharedVars>>

HandlingInternalErrWhileDelingFromOtNormal(c) ==
  /\ CloseSock(c)
  /\ UNCHANGED <<state, pending, idle, AddCache, DelCache, aborted, timerCaches>>

(* Mutations of HandlingDelingFromOtNormalToCheckingTimer: the timer is    *)
(* not deleted for a pending close(); the deque is popped untested.        *)
ForgetsTimer(c) ==
  \/ pending[c] = "INTERNAL_ERR" /\ Abort("pending")
  \/ /\ pending[c] = "CLOSE"
     /\ sock' = [sock EXCEPT ![c] = "NULL"] /\ Disarm(c)
     /\ Enter(c, "DELING_FROM_TT")
     /\ UNCHANGED <<pending, idle, AddCache, DelCache, aborted, timerCaches>>
  \/ /\ pending[c] = "NONE"
     /\ sock' = [sock EXCEPT ![c] = "NULL"] /\ Disarm(c)
     /\ idle' = IF sock[c] = "open" /\ idle[c] > 0
                THEN [idle EXCEPT ![c] = @ - 1] ELSE idle
     /\ Enter(c, "CHECKING_TIMER")
     /\ UNCHANGED <<pending, AddCache, DelCache, aborted, timerCaches>>

PopsUntested(c) ==
  /\ sock' = [sock EXCEPT ![c] = "NULL"] /\ Disarm(c)
  /\ idle' = [idle EXCEPT ![c] = @ - 1]
  /\ Enter(c, "CHECKING_TIMER")
  /\ UNCHANGED <<pending, AddCache, DelCache, aborted, timerCaches>>

(* The deletion is done.  A pending close() ends the connector.  An error  *)
(* meanwhile closed the socket: try again later.  Else the first endpoint  *)
(* of the deque takes it (an endpoint in the deque accepts a connection:   *)
(* RupEndpoint!IdleExact), or, the deque being empty, it is closed.        *)
HandlingDelingFromOtNormalToCheckingTimer(c) ==
  \/ pending[c] = "INTERNAL_ERR" /\ Abort("pending")
  \/ /\ pending[c] = "CLOSE"
     /\ sock' = [sock EXCEPT ![c] = "NULL"] /\ Disarm(c)
     /\ LeaveTimerTask(c)
     /\ UNCHANGED <<pending, idle, AddCache, DelCache, aborted>>
  \/ /\ pending[c] = "NONE"
     /\ sock' = [sock EXCEPT ![c] = "NULL"] /\ Disarm(c)
     /\ idle' = IF sock[c] = "open" /\ idle[c] > 0
                THEN [idle EXCEPT ![c] = @ - 1] ELSE idle
     /\ Enter(c, "CHECKING_TIMER")
     /\ UNCHANGED <<pending, AddCache, DelCache, aborted, timerCaches>>

(* on_closed() runs before the state is CLOSED: an open() it makes is      *)
(* refused.                                                                *)
HandlingDelingFromTtToClosed(c) ==
  /\ Enter(c, "CLOSED")
  /\ UNCHANGED <<pending, sock, idle, sharedVars, timerCaches>>

(* CStateMachine::post_evt                                                 *)
PostEvt(c, evt) ==
  \/ /\ <<state[c], evt>> \notin Handled
     /\ UNCHANGED <<connectorVars, sharedVars, timerCaches>>
  \/ /\ state[c] = "CLOSED" /\ evt = "OPEN"
     /\ HandlingClosedToAddingIntoTt(c)
  \/ /\ \/ state[c] \in {"ADDING_INTO_TT", "DELING_FROM_OT_NORMAL"} /\ evt = "CLOSE"
        \/ state[c] = "ADDING_INTO_OT" /\ evt \in {"CLOSE", "INTERNAL_ERR"}
     /\ Remember(c, evt)
  \/ /\ state[c] = "ADDING_INTO_TT" /\ evt = "ADDED_INTO_TT"
     /\ HandlingAddingIntoTtToCheckingTimer(c)
  \/ /\ state[c] = "CHECKING_TIMER" /\ evt = "CLOSE"
     /\ HandlingCloseWhileCheckingTimer(c)
  \/ /\ state[c] = "CHECKING_TIMER" /\ evt = "CONNECT"
     /\ HandlingCheckingTimerToAddingIntoOt(c)
  \/ /\ state[c] = "ADDING_INTO_OT" /\ evt = "ADDED_INTO_OT"
     /\ HandlingAddingIntoOtToConnecting(c)
  \/ /\ state[c] = "CONNECTING" /\ evt \in {"CLOSE", "INTERNAL_ERR"}
     /\ LeaveOutputTask(c, IF evt = "CLOSE" THEN "DELING_FROM_OT_CLOSE"
                                            ELSE "DELING_FROM_OT_NORMAL")
  \/ /\ state[c] = "CONNECTING" /\ evt = "CONNECTED"
     /\ HandlingConnected(c)
  \/ /\ state[c] = "DELING_FROM_OT_CLOSE" /\ evt = "DELED_FROM_OT"
     /\ HandlingDelingFromOtCloseToDelingFromTt(c)
  \/ /\ state[c] = "DELING_FROM_OT_NORMAL" /\ evt = "INTERNAL_ERR"
     /\ HandlingInternalErrWhileDelingFromOtNormal(c)
  \/ /\ state[c] = "DELING_FROM_OT_NORMAL" /\ evt = "DELED_FROM_OT"
     /\ HandlingDelingFromOtNormalToCheckingTimer(c)
  \/ /\ state[c] = "DELING_FROM_TT" /\ evt = "DELED_FROM_TT"
     /\ HandlingDelingFromTtToClosed(c)

-----------------------------------------------------------------------------
(* User threads.                                                           *)

ByUser(c, evt) == PostEvt(c, evt) /\ UNCHANGED <<taskVars, timerVars>>

Open(c)  == ByUser(c, "OPEN")
Close(c) == ByUser(c, "CLOSE")

(* An endpoint is opened (add_endpoint), or an idle one is closed          *)
(* (del_endpoint).                                                         *)
AddEndpoint(c) ==
  /\ idle[c] < MaxIdle
  /\ idle' = [idle EXCEPT ![c] = @ + 1]
  /\ UNCHANGED <<state, pending, sock, sharedVars, taskVars, timerCaches, timerVars>>

DelEndpoint(c) ==
  /\ idle[c] > 0
  /\ idle' = [idle EXCEPT ![c] = @ - 1]
  /\ UNCHANGED <<state, pending, sock, sharedVars, taskVars, timerCaches, timerVars>>

-----------------------------------------------------------------------------
(* The misc thread.                                                        *)

TimerOnly == UNCHANGED <<connectorVars, sharedVars, taskVars>>

(* CMN_ASSERT(1 == ret), CMN_ASSERT(ret.second)                            *)
TimerTaskErases(c) ==
  /\ EraseTimer(c)
  /\ aborted' = IF c \in setTimers THEN aborted ELSE "timer_erase"
  /\ UNCHANGED <<connectorVars, AddCache, DelCache, armed, taskVars>>

TimerTaskInserts(c) ==
  /\ InsertTimer(c)
  /\ aborted' = IF c \in setTimers THEN "timer_insert" ELSE aborted
  /\ UNCHANGED <<connectorVars, AddCache, DelCache, armed, taskVars>>

HandleDelFromTimerTask ==
  /\ NotifyTimerDeled
  /\ PostEvt(timerCur, "DELED_FROM_TT")
  /\ UNCHANGED taskVars

HandleAddIntoTimerTask ==
  /\ NotifyTimerAdded
  /\ PostEvt(timerCur, "ADDED_INTO_TT")
  /\ UNCHANGED taskVars

(* Mutation of OnTimerTests: off by one.                                   *)
LooksForTwo(c) ==
  /\ TimerDue(c)
  /\ IF idle[c] > 1 THEN TimerGoTo("on_timer", c) ELSE TimerGoTo("check", NoTimer)
  /\ TimerOnly

(* on_timer() looks whether endpoints wait, without a lock, ...            *)
OnTimerTests(c) ==
  /\ TimerDue(c)
  /\ IF idle[c] > 0 THEN TimerGoTo("on_timer", c) ELSE TimerGoTo("check", NoTimer)
  /\ TimerOnly

(* ... and then posts EE_CONNECT.                                          *)
OnTimerPosts ==
  /\ TimerReturns
  /\ PostEvt(timerCur, "CONNECT")
  /\ UNCHANGED taskVars

TimerStep ==
  \/ SwapTimerDels /\ TimerOnly
  \/ SwapTimerAdds /\ TimerOnly
  \/ StartChecks /\ TimerOnly
  \/ TimerExecReturns /\ TimerOnly
  \/ HandleDelFromTimerTask
  \/ HandleAddIntoTimerTask
  \/ OnTimerPosts
  \/ \E c \in IoObjs : \/ TimerTaskErases(c)
                       \/ TimerTaskInserts(c)
                       \/ NotDue(c) /\ TimerOnly
                       \/ OnTimerTests(c)

-----------------------------------------------------------------------------
(* The output task.                                                        *)

TaskOnly == UNCHANGED <<connectorVars, timerCaches, timerVars>>

(* epoll_ctl must fail on the descriptor of a socket that is not open.     *)
TaskInserts(c) == sock[c] = "open" /\ InsertIoObj("OT", c) /\ TaskOnly

TaskInsertFails(c) == MayFail /\ InsertFails("OT", c) /\ TaskOnly

(* handle_added_into_io_task with an error posts INTERNAL_ERR and nothing  *)
(* else (its CMN_ASSERT that the event is handled cannot fail: only this   *)
(* thread moves the connector out of ADDING_INTO_OT),                      *)
HandleAddFailed ==
  /\ phase["OT"] = "addfailed"
  /\ GoTo("OT", "adds", NoObj)
  /\ PostEvt(cur["OT"], "INTERNAL_ERR")
  /\ UNCHANGED <<setIoObjs, vecTmp, arrEvts, timerVars>>

(* without one ADDED_INTO_OT.                                              *)
HandleAddedIntoIoTask ==
  /\ NotifyAdded("OT")
  /\ PostEvt(cur["OT"], "ADDED_INTO_OT")
  /\ UNCHANGED timerVars

HandleDeledFromIoTask ==
  /\ NotifyDeled("OT")
  /\ PostEvt(cur["OT"], "DELED_FROM_OT")
  /\ UNCHANGED timerVars

(* handle_output_evt posts CONNECTED, handle_io_error INTERNAL_ERR.        *)
HandleIoEvt(c, evt) ==
  /\ DispatchEvent("OT", c)
  /\ GoTo("OT", "events", NoObj)
  /\ PostEvt(c, evt)
  /\ UNCHANGED timerVars

TaskStep ==
  \/ SwapDelCache("OT") /\ TaskOnly
  \/ SwapAddCache("OT") /\ TaskOnly
  \/ EpollWait("OT") /\ TaskOnly
  \/ ExecReturns("OT") /\ TaskOnly
  \/ HandleAddFailed
  \/ HandleAddedIntoIoTask
  \/ HandleDeledFromIoTask
  \/ \E c \in IoObjs : \/ EraseIoObj("OT", c) /\ TaskOnly
                       \/ TaskInserts(c)
                       \/ TaskInsertFails(c)
                       \/ HandleIoEvt(c, "CONNECTED")
                       \/ HandleIoEvt(c, "INTERNAL_ERR")

UserStep ==
  \E c \in IoObjs : Open(c) \/ Close(c) \/ AddEndpoint(c) \/ DelEndpoint(c)

Next == aborted = "none" /\ (UserStep \/ TimerStep \/ TaskStep)

(* epoll_wait reports c.                                                   *)
Reports(c) == EpollWait("OT") /\ TaskOnly /\ c \in arrEvts'["OT"]

(* The two threads loop for ever, time passes (a timer checked again and   *)
(* again is due at last), and TCP ends every attempt to connect, by a      *)
(* connection or an error, which epoll_wait then reports.                  *)
Fairness ==
  /\ WF_vars(aborted = "none" /\ TimerStep)
  /\ WF_vars(aborted = "none" /\ TaskStep)
  /\ \A c \in IoObjs :
       /\ SF_vars(aborted = "none" /\ OnTimerTests(c))
       /\ SF_vars(aborted = "none" /\ Reports(c))

Spec == Init /\ [][Next]_vars

FairSpec == Spec /\ Fairness

-----------------------------------------------------------------------------
(* Safety.                                                                 *)

Alive == aborted = "none"

(* Neither thread is asked to delete a connector it does not hold or to    *)
(* add one it holds: the four assertions on m_setIoObjs and m_setTimers    *)
(* hold through every retry, close() and re-open.  And on_closed() is the  *)
(* end: from then on neither thread holds, will add, will delete or has an *)
(* event of the connector, which its owner may destroy.                    *)
TasksAgree ==
  /\ aborted \notin {"erase", "insert", "timer_erase", "timer_insert"}
  /\ Alive => \A c \in IoObjs : state[c] = "CLOSED" =>
       /\ c \notin setIoObjs["OT"] \cup armed["OT"] \cup arrEvts["OT"]
       /\ c \notin setTimers \cup toCheck
       /\ AddCache["OT"][c] + DelCache["OT"][c] + vecTmp["OT"][c] = 0
       /\ TimerAddCache[c] + TimerDelCache[c] + timerVec[c] = 0
       /\ c \notin {cur["OT"], timerCur}

(* CMN_ASSERT(EE_CLOSE == m_i32PendingEvt) after a deletion, and           *)
(* CMN_ASSERT(... is_opened()) of a connected and of a closed attempt:     *)
(* no error or close() changes the socket or what is pending in between.   *)
(* get_ioobj_handle() asserts a socket: there is one whenever the output   *)
(* task is about to ask, and an event can only be of the attempt it is     *)
(* taken for, the socket being open and this attempt's.                    *)
HandlersFindExpected ==
  /\ aborted \notin {"pending", "is_opened"}
  /\ Alive => \A c \in IoObjs :
       /\ phase["OT"] \in {"dels", "adds"} /\ vecTmp["OT"][c] > 0 => sock[c] # "NULL"
       /\ c \in armed["OT"] => sock[c] = "open"
       /\ state[c] = "CONNECTING" => sock[c] = "open" /\ c \in setIoObjs["OT"]

-----------------------------------------------------------------------------
(* What the user sees, and its abstract specification.                     *)

Conn ==
  [c \in IoObjs |->
     CASE state[c] = "CLOSED" -> "closed"
       [] \/ state[c] \in {"DELING_FROM_OT_CLOSE", "DELING_FROM_TT"}
          \/ /\ state[c] \in {"ADDING_INTO_TT", "ADDING_INTO_OT", "DELING_FROM_OT_NORMAL"}
             /\ pending[c] # "NONE"
            -> "closing"
       [] state[c] = "ADDING_INTO_TT" /\ pending[c] = "NONE" -> "opening"
       [] OTHER -> "opened"]

C == INSTANCE Connection WITH Endpoints <- IoObjs, conn <- Conn

(* A connector, too, opens once and closes only through closing: a         *)
(* remembered close() is never overtaken by on_opened() or by the next     *)
(* attempt.                                                                *)
ImplementsConnection == C!Spec

(* After a failed addition no event is posted that ADDING_INTO_OT leaves.  *)
Stuck(c) ==
  /\ state[c] = "ADDING_INTO_OT"
  /\ AddCache["OT"][c] = 0
  /\ phase["OT"] = "adds" => vecTmp["OT"][c] = 0
  /\ phase["OT"] \in {"addfailed", "added"} => vecTmp["OT"][c] = 0 /\ cur["OT"] # c

(* A close() that was taken leads to on_closed(), unless the connector is  *)
(* stuck or the process died.                                              *)
CloseCompletes ==
  \A c \in IoObjs :
    Conn[c] = "closing" ~> (Conn[c] # "closing" \/ Stuck(c) \/ ~Alive)

(* While endpoints wait an open connector tries again and again: the timer *)
(* starts an attempt, and an attempt ends, whatever comes of it.           *)
RetriesGoOn ==
  \A c \in IoObjs :
    /\ (state[c] = "CHECKING_TIMER" /\ idle[c] > 0)
         ~> (state[c] # "CHECKING_TIMER" \/ idle[c] = 0 \/ ~Alive)
    /\ (state[c] \in {"ADDING_INTO_OT", "CONNECTING", "DELING_FROM_OT_NORMAL"})
         ~> (state[c] \in {"CHECKING_TIMER", "CLOSED"} \/ Stuck(c) \/ ~Alive)

-----------------------------------------------------------------------------
(* What the source asserts and its code does not keep.                     *)

(* CMN_ASSERT(NULL == m_pTcpSock): an attempt starts, and a connector      *)
(* without one closes, with no socket left over.                           *)
NoSockLeftOver == aborted # "m_pTcpSock"
=============================================================================
