------------------------------ MODULE IoServices ------------------------------
(***************************************************************************)
(* Multicast endpoints and TCP acceptors served by the same io tasks: the  *)
(* state machines of RmpEndpoint and RupAcceptor, the two task threads of  *)
(* Epoll that call them back, and the threads of the user.                 *)
(***************************************************************************)
EXTENDS RmpEndpoint, RupAcceptor

CONSTANT InsertMayFail  (* whether epoll_ctl may fail on an open descriptor  *)

(* The output task and the input task serve the two kinds of objects.      *)
ASSUME IoServicesAssumption ==
  /\ InsertMayFail \in BOOLEAN
  /\ IoObjs = RmpEps \cup Acceptors /\ RmpEps \cap Acceptors = {}
  /\ IoTasks = {"OT", "IT"}

vars == <<rmpVars, accVars, sharedVars, taskVars>>

Init == EpollInit /\ RmpInit /\ AccInit

PostEvt(o, evt) ==
  \/ o \in RmpEps /\ RmpPostEvt(o, evt) /\ UNCHANGED accVars
  \/ o \in Acceptors /\ AccPostEvt(o, evt) /\ UNCHANGED rmpVars

PostOrDie(o, evt) ==
  \/ o \in RmpEps /\ RmpPostEvt(o, evt) /\ UNCHANGED accVars
  \/ o \in Acceptors /\ AccPostOrDie(o, evt) /\ UNCHANGED rmpVars

State(o) == IF o \in RmpEps THEN rmpState[o] ELSE accState[o]
Sock(o)  == IF o \in RmpEps THEN rmpSock[o] ELSE listener[o]

-----------------------------------------------------------------------------
(* User threads.                                                           *)

Open(o)  == PostEvt(o, "OPEN") /\ UNCHANGED taskVars
Close(o) == PostEvt(o, "CLOSE") /\ UNCHANGED taskVars

-----------------------------------------------------------------------------
(* The threads of the tasks.                                               *)

TaskOnly == UNCHANGED <<rmpVars, accVars>>

(* get_ioobj_handle() of an object without a socket follows a NULL pointer. *)
TaskInsertsNull(t, o) ==
  /\ Sock(o) = "NULL"
  /\ TakeFrom(t, "adds", o)
  /\ aborted' = "get_ioobj_handle"
  /\ UNCHANGED <<AddCache, DelCache, armed, setIoObjs, arrEvts, phase, cur>>
  /\ TaskOnly

TaskInserts(t, o) == Sock(o) = "open" /\ InsertIoObj(t, o) /\ TaskOnly

TaskInsertFails(t, o) ==
  /\ Sock(o) = "closed" \/ (Sock(o) = "open" /\ InsertMayFail)
  /\ InsertFails(t, o) /\ TaskOnly

HandleAddFailed(t) == NotifyAddFailed(t) /\ PostEvt(cur[t], "INTERNAL_ERR")

HandleAddedIntoIoTask(t) ==
  /\ NotifyAdded(t)
  /\ PostEvt(cur[t], IF t = "OT" THEN "ADDED_INTO_OT" ELSE "ADDED_INTO_IT")

HandleDeledFromIoTask(t) ==
  /\ NotifyDeled(t)
  /\ PostOrDie(cur[t], IF t = "OT" THEN "DELED_FROM_OT" ELSE "DELED_FROM_IT")

(* EPOLLERR or EPOLLHUP                                                    *)
HandleIoError(t, o) ==
  /\ DispatchEvent(t, o)
  /\ PostOrDie(o, "INTERNAL_ERR")
  /\ GoTo(t, "events", NoObj)

(* EPOLLIN or EPOLLOUT                                                     *)
HandleIoEvt(t, o) ==
  /\ DispatchEvent(t, o)
  /\ \/ o \in RmpEps /\ RmpHandlesIo(t, o) /\ UNCHANGED accVars
     \/ /\ o \in Acceptors /\ AccHandlesInput(o)
        /\ GoTo(t, "events", NoObj) /\ UNCHANGED rmpVars

RmpIo(t) ==
  /\ phase[t] = "io"
  /\ RmpIoReturns(t, cur[t])
  /\ GoTo(t, "events", NoObj)
  /\ UNCHANGED <<accVars, setIoObjs, vecTmp, arrEvts>>

TaskStep(t) ==
  \/ SwapDelCache(t) /\ TaskOnly
  \/ SwapAddCache(t) /\ TaskOnly
  \/ EpollWait(t) /\ TaskOnly
  \/ ExecReturns(t) /\ TaskOnly
  \/ HandleAddFailed(t)
  \/ HandleAddedIntoIoTask(t)
  \/ HandleDeledFromIoTask(t)
  \/ RmpIo(t)
  \/ \E o \in IoObjs : \/ EraseIoObj(t, o) /\ TaskOnly
                       \/ TaskInsertsNull(t, o)
                       \/ TaskInserts(t, o)
                       \/ TaskInsertFails(t, o)
                       \/ HandleIoError(t, o)
                       \/ HandleIoEvt(t, o)

Next ==
  /\ aborted = "none"
  /\ \/ \E o \in IoObjs : Open(o) \/ Close(o)
     \/ \E t \in IoTasks : TaskStep(t)

(* The threads of the tasks run for ever.                                  *)
Fairness == \A t \in IoTasks : WF_vars(aborted = "none" /\ TaskStep(t))

Spec == Init /\ [][Next]_vars

FairSpec == Spec /\ Fairness

-----------------------------------------------------------------------------
Alive == aborted = "none"

TypeOK == EpollTypeOK /\ RmpTypeOK /\ AccTypeOK

(* A multicast endpoint is registered with exactly the tasks its state     *)
(* says: both when opened, none when closed; and what is opened has an     *)
(* open socket.  An acceptor is in the input task when opened, and a       *)
(* listener is open whenever the handlers assert it (the handlers of       *)
(* CRmpEndpoint and CRupAcceptor, CEpoll::exec).                           *)
TasksAgree ==
  Alive =>
    /\ \A e \in RmpEps :
         /\ rmpState[e] = "OPENED" =>
              /\ rmpSock[e] = "open"
              /\ \A t \in {"OT", "IT"} : e \in setIoObjs[t] /\ DelCache[t][e] = 0
         /\ rmpState[e] = "CLOSED" =>
              \A t \in {"OT", "IT"} : e \notin setIoObjs[t] /\ DelCache[t][e] = 0
         /\ rmpState[e] = "DELING_FROM_OT" => e \notin setIoObjs["IT"]
    /\ \A a \in Acceptors :
         /\ accState[a] = "OPENED" =>
              a \in setIoObjs["IT"] /\ listener[a] = "open" /\ DelCache["IT"][a] = 0
         /\ accState[a] = "CLOSED" => a \notin setIoObjs["IT"] /\ DelCache["IT"][a] = 0
         /\ accState[a] = "ADDING_INTO_IT" => listener[a] = "open"

(* The user sees each of them go through the phases of a connection, on_   *)
(* opened() and on_closed() at most once for each open() (Connection).     *)
conn ==
  [o \in IoObjs |->
     CASE State(o) = "CLOSED" -> "closed"
       [] State(o) \in {"ADDING_INTO_OT", "ADDING_INTO_IT"} -> "opening"
       [] State(o) = "OPENED" -> "opened"
       [] State(o) \in {"DELING_FROM_IT", "DELING_FROM_OT"} -> "closing"]

Conn == INSTANCE Connection WITH Endpoints <- IoObjs, conn <- conn

ImplementsConnection == Conn!Spec

(* What is being closed is closed in the end, unless the program dies      *)
(* (handling_deling_from_it_to_closed, handling_deling_from_ot_to_closed). *)
CloseCompletes ==
  \A o \in IoObjs :
    State(o) \in {"DELING_FROM_IT", "DELING_FROM_OT"}
      ~> (State(o) \notin {"DELING_FROM_IT", "DELING_FROM_OT"} \/ ~ Alive)

=============================================================================
