-------------------------------- MODULE Epoll --------------------------------
(***************************************************************************)
(* CEpoll (libsmart_net/src/framework/sn_io_evt_notifier_impl.cpp): one    *)
(* epoll instance per io task, driven by the task's own thread, which runs *)
(* exec() in a loop.  Other threads reach it only through two caches that  *)
(* spin locks protect; exec() first applies the deletions, then the        *)
(* additions, then waits for events and hands each to its io object.       *)
(*                                                                         *)
(* The module holds the notifier's state and the steps of exec().  What an *)
(* io object does in the callbacks (handle_added_into_io_task, ...) is the *)
(* business of the module that EXTENDS this one: it conjoins the callback  *)
(* to the steps named Notify... and Dispatch....                           *)
(*                                                                         *)
(* The order of the elements inside one cache is dropped: a cache is the   *)
(* number of copies of each object in the vector, and the loop over it     *)
(* takes them in any order, the vector's included.                         *)
(***************************************************************************)
EXTENDS Naturals

CONSTANTS
  IoObjs,   (* the io objects: endpoints, acceptors, connectors            *)
  IoTasks,  (* the io tasks of the engine the objects are assigned to      *)
  NoObj     (* "no object is being handled"                                *)

ASSUME NoObjAssumption == NoObj \notin IoObjs

VARIABLES
  AddCache,   (* m_vecIoObjsAddCache, copies of each object                *)
  DelCache,   (* m_vecIoObjsDelCache                                       *)
  armed,      (* objects whose open descriptor the kernel's set contains   *)
  aborted,    (* the CMN_ASSERT or NULL dereference the process died of    *)
  setIoObjs,  (* m_setIoObjs                                               *)
  vecTmp,     (* the local vector exec() swapped a cache into              *)
  arrEvts,    (* m_arrEvts: raw pointers epoll_wait returned, not handled  *)
  phase,      (* where the task's thread is in exec()                      *)
  cur         (* the object whose callback exec() is in                    *)

(* What callbacks and user threads may change, and what only the task's    *)
(* thread does.                                                            *)
sharedVars == <<AddCache, DelCache, armed, aborted>>
taskVars   == <<setIoObjs, vecTmp, arrEvts, phase, cur>>

Phases == {"top", "dels", "deled", "adds", "addfailed", "added", "events", "io"}

NoCopies == [o \in IoObjs |-> 0]

EpollTypeOK ==
  /\ AddCache  \in [IoTasks -> [IoObjs -> Nat]]
  /\ DelCache  \in [IoTasks -> [IoObjs -> Nat]]
  /\ armed     \in [IoTasks -> SUBSET IoObjs]
  /\ setIoObjs \in [IoTasks -> SUBSET IoObjs]
  /\ vecTmp    \in [IoTasks -> [IoObjs -> Nat]]
  /\ arrEvts   \in [IoTasks -> SUBSET IoObjs]
  /\ phase     \in [IoTasks -> Phases]
  /\ cur       \in [IoTasks -> IoObjs \cup {NoObj}]

EpollInit ==
  /\ AddCache  = [t \in IoTasks |-> NoCopies]
  /\ DelCache  = [t \in IoTasks |-> NoCopies]
  /\ armed     = [t \in IoTasks |-> {}]
  /\ aborted   = "none"
  /\ setIoObjs = [t \in IoTasks |-> {}]
  /\ vecTmp    = [t \in IoTasks |-> NoCopies]
  /\ arrEvts   = [t \in IoTasks |-> {}]
  /\ phase     = [t \in IoTasks |-> "top"]
  /\ cur       = [t \in IoTasks |-> NoObj]

-----------------------------------------------------------------------------
(* Calls of other components, under the spin lock of the cache.            *)

(* add_ioobj *)
AddIoObj(t, o) == AddCache' = [AddCache EXCEPT ![t][o] = @ + 1]

(* del_ioobj *)
DelIoObj(t, o) == DelCache' = [DelCache EXCEPT ![t][o] = @ + 1]

(* ::close on the object's descriptor: the kernel drops it from every set.  *)
Disarm(o) == armed' = [t \in IoTasks |-> armed[t] \ {o}]

-----------------------------------------------------------------------------
(* The steps of exec().                                                    *)

GoTo(t, p, o) ==
  /\ phase' = [phase EXCEPT ![t] = p]
  /\ cur' = [cur EXCEPT ![t] = o]

(* The delete cache is swapped into a local vector.                        *)
SwapDelCache(t) ==
  /\ phase[t] = "top"
  /\ vecTmp' = [vecTmp EXCEPT ![t] = DelCache[t]]
  /\ DelCache' = [DelCache EXCEPT ![t] = NoCopies]
  /\ GoTo(t, "dels", NoObj)
  /\ UNCHANGED <<AddCache, armed, aborted, setIoObjs, arrEvts>>

(* Mutation of TakeFrom: the loop goes one element too far.                *)
TakesOneTooMany(t, p, o) ==
  /\ phase[t] = p
  /\ vecTmp' = [vecTmp EXCEPT ![t][o] = @ - 1]

(* One element of the local vector, in phase p.                            *)
TakeFrom(t, p, o) ==
  /\ phase[t] = p
  /\ vecTmp[t][o] > 0
  /\ vecTmp' = [vecTmp EXCEPT ![t][o] = @ - 1]

(* One object of it leaves the kernel's set and m_setIoObjs, which must    *)
(* have held it (CMN_ASSERT(1 == stRet)).                                  *)
EraseIoObj(t, o) ==
  /\ TakeFrom(t, "dels", o)
  /\ armed' = [armed EXCEPT ![t] = @ \ {o}]
  /\ setIoObjs' = [setIoObjs EXCEPT ![t] = @ \ {o}]
  /\ aborted' = IF o \in setIoObjs[t] THEN aborted ELSE "erase"
  /\ GoTo(t, "deled", o)
  /\ UNCHANGED <<AddCache, DelCache, arrEvts>>

(* ... and its handle_deled_from_io_task is called.                        *)
NotifyDeled(t) ==
  /\ phase[t] = "deled"
  /\ GoTo(t, "dels", NoObj)
  /\ UNCHANGED <<setIoObjs, vecTmp, arrEvts>>

(* The add cache is swapped once the deletions are done.                   *)
SwapAddCache(t) ==
  /\ phase[t] = "dels"
  /\ vecTmp[t] = NoCopies
  /\ vecTmp' = [vecTmp EXCEPT ![t] = AddCache[t]]
  /\ AddCache' = [AddCache EXCEPT ![t] = NoCopies]
  /\ GoTo(t, "adds", NoObj)
  /\ UNCHANGED <<DelCache, armed, aborted, setIoObjs, arrEvts>>

(* epoll_ctl(EPOLL_CTL_ADD) succeeds, and the object must be new to        *)
(* m_setIoObjs (CMN_ASSERT(pairRet.second)).                               *)
InsertIoObj(t, o) ==
  /\ TakeFrom(t, "adds", o)
  /\ armed' = [armed EXCEPT ![t] = @ \cup {o}]
  /\ setIoObjs' = [setIoObjs EXCEPT ![t] = @ \cup {o}]
  /\ aborted' = IF o \in setIoObjs[t] THEN "insert" ELSE aborted
  /\ GoTo(t, "added", o)
  /\ UNCHANGED <<AddCache, DelCache, arrEvts>>

(* epoll_ctl fails: handle_added_into_io_task gets the error code.         *)
InsertFails(t, o) ==
  /\ TakeFrom(t, "adds", o)
  /\ GoTo(t, "addfailed", o)
  /\ UNCHANGED <<AddCache, DelCache, armed, aborted, setIoObjs, arrEvts>>

(* handle_added_into_io_task with an error posts an error event first,     *)
NotifyAddFailed(t) ==
  /\ phase[t] = "addfailed"
  /\ GoTo(t, "added", cur[t])
  /\ UNCHANGED <<setIoObjs, vecTmp, arrEvts>>

(* and, failed or not, ends with the event of the task.                    *)
NotifyAdded(t) ==
  /\ phase[t] = "added"
  /\ GoTo(t, "adds", NoObj)
  /\ UNCHANGED <<setIoObjs, vecTmp, arrEvts>>

(* epoll_wait returns any of the armed objects, none on a timeout or EINTR. *)
EpollWait(t) ==
  /\ phase[t] = "adds"
  /\ vecTmp[t] = NoCopies
  /\ \E ready \in SUBSET armed[t] : arrEvts' = [arrEvts EXCEPT ![t] = ready]
  /\ GoTo(t, "events", NoObj)
  /\ UNCHANGED <<sharedVars, setIoObjs, vecTmp>>

(* The callback of one event starts: EPOLLERR/EPOLLHUP calls               *)
(* handle_io_error, EPOLLIN and EPOLLOUT the handler of the task's type.   *)
DispatchEvent(t, o) ==
  /\ phase[t] = "events"
  /\ o \in arrEvts[t]
  /\ arrEvts' = [arrEvts EXCEPT ![t] = @ \ {o}]
  /\ UNCHANGED <<setIoObjs, vecTmp>>

(* Mutation of ExecReturns: events left over wait for the next call.       *)
ReturnsWithEvents(t) ==
  /\ phase[t] = "events"
  /\ GoTo(t, "top", NoObj)
  /\ UNCHANGED <<sharedVars, setIoObjs, vecTmp, arrEvts>>

(* exec() returns and the task's loop calls it again.                      *)
ExecReturns(t) ==
  /\ phase[t] = "events"
  /\ arrEvts[t] = {}
  /\ GoTo(t, "top", NoObj)
  /\ UNCHANGED <<sharedVars, setIoObjs, vecTmp, arrEvts>>

=============================================================================
