------------------------------- MODULE Engine -------------------------------
(***************************************************************************)
(* CSNEngine (libsmart_net/src/framework/sn_engine.cpp): it makes the io   *)
(* tasks and the timer task and a thread for each, and hands every io      *)
(* object to the input or output task that holds the fewest.  One mutex,   *)
(* the state machine's, is held over start(), stop(), add_endpoint() and   *)
(* del_endpoint(); the threads of the tasks take no part in it, so they    *)
(* run while the others are still being started, counted or stopped.       *)
(*                                                                         *)
(* The io objects are clients that keep the protocol of the endpoints: an  *)
(* endpoint enters its output task, then its input task, and leaves them   *)
(* in reverse, each step when told that the last is done; an acceptor has  *)
(* only an input task.  Their io events and failing epoll_ctl calls belong *)
(* to the modules of the objects.                                          *)
(***************************************************************************)
EXTENDS Epoll, Sequences, FiniteSets, Functions

CONSTANTS
  Acceptors,        (* the io objects that never enter an output task      *)
  Misc,             (* the timer task, CMiscTask                           *)
  InputThreadCnt,   (* the arguments of start()                            *)
  OutputThreadCnt

(* The io tasks are numbered as start() makes them; their number bounds    *)
(* how often start() is called.                                            *)
ASSUME CountsAssumption ==
  /\ InputThreadCnt \in Nat \ {0} /\ OutputThreadCnt \in Nat \ {0}
  /\ IsFiniteSet(IoObjs) /\ IsFiniteSet(IoTasks)
  /\ IoTasks = 1..Cardinality(IoTasks)
  /\ Misc \notin IoTasks

Types == {"IT", "OT"}

VARIABLES
  engine,    (* [state, op: who holds the mutex, pos: how far it has come]  *)
  vec,       (* m_vecInputTasks, m_vecOutputTasks                          *)
  miscTask,  (* m_pMiscTask: "null", made but without a notifier, "inited" *)
  indx,      (* m_i32TaskId of each io task                                *)
  threads,   (* m_vecThreads, each by its task                             *)
  thread,    (* where the thread of an io task is; what the timer task's   *)
             (* does is in TimeNotifier                                    *)
  bStop,     (* CThread::m_bStop                                           *)
  taskStop,  (* IThreadTask::m_bStop                                       *)
  hasTask,   (* CThread::m_pTask is not NULL                               *)
  taskId,    (* m_i32InputTaskId, m_i32OutputTaskId of each io object      *)
  client,    (* what each io object waits for                              *)
  scan       (* add_endpoint's locals                                      *)

engineVars == <<engine, vec, miscTask, indx, threads>>
threadVars == <<thread, bStop, taskStop, hasTask>>
clientVars == <<taskId, client, scan>>
epollVars  == <<sharedVars, taskVars>>
vars == <<epollVars, engineVars, threadVars, clientVars>>

NoScan == [type |-> "IT", obj |-> NoObj, at |-> 0, term |-> 1, cnt |-> 0, min |-> 0, best |-> 1]

Init ==
  /\ EpollInit
  /\ engine = [state |-> "STOPPED", op |-> "none", pos |-> 0]
  /\ vec = [k \in Types |-> <<>>]
  /\ miscTask = "null"
  /\ indx = [t \in IoTasks |-> 0]
  /\ threads = <<>>
  /\ thread = [t \in IoTasks |-> "none"]
  /\ bStop = [t \in IoTasks |-> FALSE]
  /\ taskStop = [t \in IoTasks |-> FALSE]
  /\ hasTask = [t \in IoTasks |-> FALSE]
  /\ taskId = [k \in Types |-> [o \in IoObjs |-> 0]]
  /\ client = [k \in Types |-> [o \in IoObjs |-> "out"]]
  /\ scan = NoScan

(* The process dies of an assertion or of a NULL dereference.              *)
Dies(why) == aborted' = why

Made == Len(vec["IT"]) + Len(vec["OT"])
Lock(op) == engine.op = "none" /\ engine' = [engine EXCEPT !.op = op, !.pos = 1]
Unlock(state) == engine' = [state |-> state, op |-> "none", pos |-> 0]

-----------------------------------------------------------------------------
(* start(): the output tasks, the input tasks, the timer task.             *)

Start ==
  /\ engine.state = "STOPPED"
  /\ Made + OutputThreadCnt + InputThreadCnt <= Cardinality(IoTasks)
  /\ Lock("start")
  /\ UNCHANGED <<epollVars, vec, miscTask, indx, threads, threadVars, clientVars>>

Starting == engine.op = "start"
TypeAt(pos) == IF pos <= OutputThreadCnt THEN "OT" ELSE "IT"
AllIoTasks == OutputThreadCnt + InputThreadCnt

(* CThread::start: pthread_create's error number is positive, so a thread  *)
(* that was not created passes for one that was.                           *)
StartThread(t) ==
  /\ \E outcome \in {"created", "none"} : thread' = [thread EXCEPT ![t] = outcome]
  /\ UNCHANGED <<bStop, taskStop>>
  /\ hasTask' = [hasTask EXCEPT ![t] = TRUE]

(* Mutation of SetIndx: the index is taken before the task is pushed back. *)
IndxOfLast(k) == Len(vec[k]) - 1

(* set_id, set_indx: the position the task gets in its vector.             *)
SetIndx(k) == Len(vec[k])

StartIoTask ==
  /\ Starting /\ engine.pos <= AllIoTasks
  /\ LET t == Made + 1
         k == TypeAt(engine.pos)
     IN /\ StartThread(t)
        /\ vec' = [vec EXCEPT ![k] = Append(@, t)]
        /\ indx' = [indx EXCEPT ![t] = SetIndx(k)]
        /\ threads' = Append(threads, t)
  /\ engine' = [engine EXCEPT !.pos = @ + 1]
  /\ UNCHANGED <<epollVars, miscTask, clientVars>>

(* create_obj has no notifier to give: start() fails and leaves what it    *)
(* has started running, in state ES_STOPPED.                               *)
CreateObjFails ==
  /\ Starting /\ engine.pos <= AllIoTasks
  /\ Unlock("STOPPED")
  /\ UNCHANGED <<epollVars, vec, miscTask, indx, threads, threadVars, clientVars>>

(* epoll_create fails: the task is destroyed, and CEpoll::destroy asserts  *)
(* a descriptor.                                                           *)
EpollCreateFails ==
  /\ Starting /\ engine.pos <= AllIoTasks
  /\ Dies("destroy")
  /\ UNCHANGED <<AddCache, DelCache, armed, taskVars, engineVars, threadVars, clientVars>>

StartMiscTask ==
  /\ Starting /\ engine.pos > AllIoTasks
  /\ miscTask' = "inited"
  /\ threads' = Append(threads, Misc)
  /\ Unlock("STARTED")
  /\ UNCHANGED <<epollVars, vec, indx, threadVars, clientVars>>

(* The timer task is assigned before it fails to initialise.               *)
MiscInitFails ==
  /\ Starting /\ engine.pos > AllIoTasks
  /\ miscTask' = "uninited"
  /\ Unlock("STOPPED")
  /\ UNCHANGED <<epollVars, vec, indx, threads, threadVars, clientVars>>

-----------------------------------------------------------------------------
(* stop()                                                                  *)

Stop ==
  /\ engine.state = "STARTED"
  /\ Lock("stop")
  /\ UNCHANGED <<epollVars, vec, miscTask, indx, threads, threadVars, clientVars>>

Stopping == engine.op = "stop"

(* CThread::stop_wait stops the task and the thread and resets m_pTask,    *)
(* and does not wait for the thread: the macro __PLATEFORM_LINUX__ is not  *)
(* the one the build defines.                                              *)
StopWait ==
  /\ Stopping /\ engine.pos <= Len(threads)
  /\ LET this(t) == t = threads[engine.pos]
     IN /\ taskStop' = [t \in IoTasks |-> taskStop[t] \/ this(t)]
        /\ bStop' = [t \in IoTasks |-> bStop[t] \/ this(t)]
        /\ hasTask' = [t \in IoTasks |-> hasTask[t] /\ ~ this(t)]
  /\ engine' = [engine EXCEPT !.pos = @ + 1]
  /\ UNCHANGED <<epollVars, vec, miscTask, indx, threads, thread, clientVars>>

(* stopping() resets every task once more, and reset_task asserts there is *)
(* one: stop() of a started engine never returns.                          *)
ResetTaskAgain ==
  /\ Stopping /\ engine.pos > Len(threads)
  /\ Dies("reset")
  /\ UNCHANGED <<AddCache, DelCache, armed, taskVars, engineVars, threadVars, clientVars>>

-----------------------------------------------------------------------------
(* add_endpoint and del_endpoint.  begin_lock_state takes the mutex and    *)
(* returns whether the state is ES_STARTED, as a bool that is never < 0:   *)
(* both go on in any state.                                                *)

MayAdd(k, o) ==
  /\ client[k][o] = "out"
  /\ IF k = "OT" THEN o \notin Acceptors
                 ELSE o \in Acceptors \/ client["OT"][o] = "in"

MayDel(k, o) == client[k][o] = "in" /\ (k = "OT" => client["IT"][o] = "out")

AddEndpoint(k, o) ==
  /\ MayAdd(k, o)
  /\ Lock("scan")
  /\ client' = [client EXCEPT ![k][o] = "adding"]
  /\ scan' = [NoScan EXCEPT !.type = k, !.obj = o]
  /\ UNCHANGED <<epollVars, vec, miscTask, indx, threads, threadVars, taskId>>

Scanning == engine.op = "scan"

(* There is no task: CMN_ASSERT(!m_vecInputTasks.empty()), or *begin() of  *)
(* the empty vector of output tasks.                                       *)
NoTasks ==
  /\ Scanning /\ vec[scan.type] = <<>>
  /\ Dies("notask")
  /\ UNCHANGED <<AddCache, DelCache, armed, taskVars, engineVars, threadVars, clientVars>>

(* The size of a cache: each copy of an object counts.                     *)
Size(copies) == Cardinality(UNION {{o} \X (1..copies[o]) : o \in IoObjs})

(* Mutation of Terms: the operands are read from right to left.            *)
RightToLeft == <<"dels", "adds", "set">>

(* get_ioobj_cnt reads three sizes without a lock, as the build's compiler *)
(* orders them, and each may change before the next is read.               *)
Terms == <<"set", "adds", "dels">>

(* The first task is counted before the loop and again in it.              *)
Counted == vec[scan.type][IF scan.at = 0 THEN 1 ELSE scan.at]

ReadTerm ==
  /\ Scanning /\ vec[scan.type] # <<>> /\ scan.term <= 3
  /\ scan' = [scan EXCEPT !.term = @ + 1,
                !.cnt = @ + CASE Terms[scan.term] = "set"  -> Cardinality(setIoObjs[Counted])
                              [] Terms[scan.term] = "adds" -> Size(AddCache[Counted])
                              [] Terms[scan.term] = "dels" -> - Size(DelCache[Counted])]
  /\ UNCHANGED <<epollVars, engineVars, threadVars, taskId, client>>

HaveCount == Scanning /\ scan.term > 3

(* The first task with no object, else the first with the fewest.          *)
Best == IF scan.at > 0 /\ (scan.cnt = 0 \/ scan.min > scan.cnt) THEN scan.at ELSE scan.best
LastOne == scan.at > 0 /\ (scan.cnt = 0 \/ scan.at = Len(vec[scan.type]))

CountNext ==
  /\ HaveCount /\ ~ LastOne
  /\ scan' = [scan EXCEPT !.at = @ + 1, !.term = 1, !.cnt = 0, !.best = Best,
                !.min = IF @ > scan.cnt \/ scan.at = 0 THEN scan.cnt ELSE @]
  /\ UNCHANGED <<epollVars, engineVars, threadVars, taskId, client>>

(* add_io_obj of the task chosen.                                          *)
AddIoObjToTask ==
  /\ HaveCount /\ LastOne
  /\ LET t == vec[scan.type][Best]
     IN /\ taskId' = [taskId EXCEPT ![scan.type][scan.obj] = indx[t]]
        /\ AddIoObj(t, scan.obj)
  /\ scan' = NoScan
  /\ Unlock(engine.state)
  /\ UNCHANGED <<DelCache, armed, aborted, taskVars, vec, miscTask, indx, threads, threadVars, client>>

DelEndpoint(k, o) ==
  /\ MayDel(k, o)
  /\ engine.op = "none"
  /\ DelIoObj(vec[k][taskId[k][o] + 1], o)
  /\ client' = [client EXCEPT ![k][o] = "deling"]
  /\ UNCHANGED <<AddCache, armed, aborted, taskVars, engineVars, threadVars, taskId, scan>>

(* add_timer and del_timer dereference m_pMiscTask in any state, and the   *)
(* timer task asserts its notifier.  What they do else is in TimeNotifier. *)
TimerCall ==
  /\ engine.op = "none" /\ miscTask # "inited"
  /\ Dies("timer")
  /\ UNCHANGED <<AddCache, DelCache, armed, taskVars, engineVars, threadVars, clientVars>>

-----------------------------------------------------------------------------
(* The threads.                                                            *)

Goes(t, from, to) == thread[t] = from /\ thread' = [thread EXCEPT ![t] = to]

(* CThread::exec: while (!is_stopped())                                    *)
ThreadTests(t) ==
  /\ Goes(t, "created", IF bStop[t] THEN "left" ELSE "calls")
  /\ UNCHANGED <<epollVars, engineVars, bStop, taskStop, hasTask, clientVars>>

(* LOG_ASSERT(NULL != m_pTask), and the task's exec().                     *)
ThreadCalls(t) ==
  /\ Goes(t, "calls", "task")
  /\ IF hasTask[t] THEN UNCHANGED aborted ELSE Dies("nulltask")
  /\ UNCHANGED <<AddCache, DelCache, armed, taskVars, engineVars, bStop, taskStop, hasTask, clientVars>>

(* The task's exec() sees that it is stopped and returns to the thread's.  *)
TaskReturns(t) ==
  /\ Goes(t, "task", "created")
  /\ taskStop[t]
  /\ phase[t] = "top"
  /\ UNCHANGED <<epollVars, engineVars, bStop, taskStop, hasTask, clientVars>>

TypeOf(t) == CHOOSE k \in Types : t \in Range(vec[k])

Notified(t, c) == client' = [client EXCEPT ![TypeOf(t)][cur[t]] = c]

(* Mutation of WaitsInVain: a timeout ends the loop of the task.           *)
EndsOnTimeout(t) ==
  /\ phase[t] = "adds" /\ vecTmp[t] = NoCopies
  /\ GoTo(t, "events", NoObj)
  /\ UNCHANGED <<sharedVars, setIoObjs, vecTmp, arrEvts>>

(* epoll_wait with no event, and exec() returns.                           *)
WaitsInVain(t) ==
  /\ phase[t] = "adds" /\ vecTmp[t] = NoCopies
  /\ GoTo(t, "top", NoObj)
  /\ UNCHANGED <<sharedVars, setIoObjs, vecTmp, arrEvts>>

(* CInputHandleTask::exec, COutputHandleTask::exec: exec() of the notifier *)
(* again and again.                                                        *)
TaskExec(t) ==
  /\ thread[t] = "task"
  /\ \/ ~ taskStop[t] /\ SwapDelCache(t) /\ UNCHANGED client
     \/ \E o \in IoObjs : (EraseIoObj(t, o) \/ InsertIoObj(t, o)) /\ UNCHANGED client
     \/ NotifyDeled(t) /\ Notified(t, "out") /\ UNCHANGED sharedVars
     \/ SwapAddCache(t) /\ UNCHANGED client
     \/ NotifyAdded(t) /\ Notified(t, "in") /\ UNCHANGED sharedVars
     \/ WaitsInVain(t) /\ UNCHANGED client
  /\ UNCHANGED <<engineVars, threadVars, taskId, scan>>

-----------------------------------------------------------------------------
EngineStep ==
  \/ StartIoTask \/ StartMiscTask \/ CreateObjFails \/ EpollCreateFails \/ MiscInitFails
  \/ StopWait \/ ResetTaskAgain
  \/ NoTasks \/ ReadTerm \/ CountNext \/ AddIoObjToTask

ThreadStep(t) ==
  \/ ThreadTests(t) \/ ThreadCalls(t) \/ TaskReturns(t)
  \/ TaskExec(t)

Next ==
  /\ aborted = "none"
  /\ \/ Start \/ Stop \/ TimerCall
     \/ \E k \in Types, o \in IoObjs : AddEndpoint(k, o) \/ DelEndpoint(k, o)
     \/ EngineStep
     \/ \E t \in IoTasks : ThreadStep(t)

Spec == Init /\ [][Next]_vars

(* Whoever holds the mutex goes on, and so do the threads.                 *)
Fairness ==
  /\ WF_vars(aborted = "none" /\ EngineStep)
  /\ \A t \in IoTasks : WF_vars(aborted = "none" /\ ThreadStep(t))

FairSpec == Spec /\ Fairness

-----------------------------------------------------------------------------
TypeOK ==
  /\ EpollTypeOK
  /\ aborted \in {"none", "erase", "insert", "destroy", "reset", "notask", "timer", "nulltask"}
  /\ engine \in [state : {"STOPPED", "STARTED"}, op : {"none", "start", "stop", "scan"}, pos : Nat]
  /\ \A k \in Types : Range(vec[k]) \subseteq IoTasks
  /\ miscTask \in {"null", "uninited", "inited"}
  /\ indx \in [IoTasks -> Nat]
  /\ Range(threads) \subseteq IoTasks \cup {Misc}
  /\ thread \in [IoTasks -> {"none", "created", "calls", "task", "left"}]
  /\ {bStop, taskStop, hasTask} \subseteq [IoTasks -> BOOLEAN]
  /\ taskId \in [Types -> [IoObjs -> Nat]]
  /\ client \in [Types -> [IoObjs -> {"out", "adding", "in", "deling"}]]

Holds(t, o) == o \in setIoObjs[t] \/ AddCache[t][o] + DelCache[t][o] + vecTmp[t][o] > 0

(* An object is with one task of each kind, the one the task id it was     *)
(* given names, so that del_endpoint finds it: exec() never meets an       *)
(* object that is there twice, or not at all (add_endpoint, set_indx).     *)
HeldWhereIdSays ==
  /\ aborted \notin {"erase", "insert"}
  /\ \A k \in Types, o \in IoObjs, n \in 1..Cardinality(IoTasks) :
       n \in DOMAIN vec[k] /\ Holds(vec[k][n], o) => taskId[k][o] + 1 = n

(* The count add_endpoint balances by is never negative, although its      *)
(* three parts are read one by one while the task's thread moves objects   *)
(* between them (CEpoll::get_ioobj_cnt).                                   *)
CountNeverWraps == HaveCount => scan.cnt >= 0

(* What is being added is told so in the end, unless the program dies or   *)
(* the task it was given never got a thread (pthread_create failed).       *)
AddedIsNotified ==
  \A k \in Types, o \in IoObjs :
    (client[k][o] = "adding" /\ aborted = "none")
      ~> \/ client[k][o] # "adding" \/ aborted # "none"
         \/ \E t \in Range(vec[k]) : thread[t] = "none" /\ AddCache[t][o] > 0

=============================================================================
