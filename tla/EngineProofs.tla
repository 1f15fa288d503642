---------------------------- MODULE EngineProofs ----------------------------
(***************************************************************************)
(* Every io object is with the task its id names, for any number of        *)
(* objects, tasks and calls of start(), and the count add_endpoint         *)
(* balances by is never negative.                                          *)
(*                                                                         *)
(* The invariant says, for every task and object, in which of four ways    *)
(* the object stands to the task -- not there, being added, there, being   *)
(* deleted -- by where its copies are: in a cache, in the local vector of  *)
(* exec(), in m_setIoObjs or in the callback.  Which of the four it is     *)
(* follows from what the object waits for and from its task ids.           *)
(***************************************************************************)
EXTENDS Engine, Integers, FiniteSetTheorems, TLAPS

TaskCnt == Cardinality(IoTasks)

(* The vectors of tasks: a task is in one place of one of them, and its    *)
(* index is that place.                                                    *)
VectorsHold ==
  /\ vec \in [Types -> Seq(IoTasks)]
  /\ \A k \in Types : \A n \in 1..Len(vec[k]) :
       vec[k][n] <= Made /\ indx[vec[k][n]] = n - 1
  /\ \A n \in 1..Len(vec["IT"]), m \in 1..Len(vec["OT"]) : vec["IT"][n] # vec["OT"][m]

(* start() makes no more tasks than it had numbers left for.               *)
NumbersLast ==
  Starting => /\ engine.pos \in 1..AllIoTasks + 1
              /\ Made + AllIoTasks + 1 - engine.pos <= TaskCnt

(* What add_endpoint holds while it has the mutex.                         *)
ScanHolds ==
  /\ scan \in [type : Types, obj : IoObjs \cup {NoObj}, at : Nat, term : 1..4,
               cnt : Int, min : Int, best : Nat]
  /\ Scanning =>
       /\ scan.obj \in IoObjs
       /\ client[scan.type][scan.obj] = "adding"
       /\ scan.at \in 0..Len(vec[scan.type])
       /\ scan.term > 1 => vec[scan.type] # <<>>
       /\ vec[scan.type] # <<>> => scan.best \in 1..Len(vec[scan.type])

(* What was read covers what is still to be subtracted.                    *)
CountCovers ==
  Scanning =>
    /\ scan.term = 1 => scan.cnt = 0
    /\ scan.term \in {2, 3} => scan.cnt >= Size(DelCache[Counted])
    /\ scan.term = 4 => scan.cnt >= 0

(* The object has been given to the task its id names.                     *)
Waiting(k, o) == Scanning /\ scan.type = k /\ scan.obj = o
Placed(k, o)  == client[k][o] # "out" /\ ~ Waiting(k, o)
Where(t, k, o) == Placed(k, o) /\ vec[k][taskId[k][o] + 1] = t

IdsInRange ==
  \A k \in Types, o \in IoObjs : Placed(k, o) => taskId[k][o] + 1 \in 1..Len(vec[k])

(* The copies of an object with a task: in the two caches, in the local    *)
(* vector, in the callback.                                                *)
Copies(t, o, a, d, v, c) ==
  AddCache[t][o] = a /\ DelCache[t][o] = d /\ vecTmp[t][o] = v /\ (cur[t] = o <=> c)

OutAt(t, o) == Copies(t, o, 0, 0, 0, FALSE) /\ o \notin setIoObjs[t]
InAt(t, o)  == Copies(t, o, 0, 0, 0, FALSE) /\ o \in setIoObjs[t]
AddingAt(t, o) ==
  \/ Copies(t, o, 1, 0, 0, FALSE) /\ o \notin setIoObjs[t]
  \/ Copies(t, o, 0, 0, 1, FALSE) /\ o \notin setIoObjs[t] /\ phase[t] \in {"adds", "added"}
  \/ Copies(t, o, 0, 0, 0, TRUE) /\ o \in setIoObjs[t] /\ phase[t] = "added"
DelingAt(t, o) ==
  \/ Copies(t, o, 0, 1, 0, FALSE) /\ o \in setIoObjs[t]
  \/ Copies(t, o, 0, 0, 1, FALSE) /\ o \in setIoObjs[t] /\ phase[t] \in {"dels", "deled"}
  \/ Copies(t, o, 0, 0, 0, TRUE) /\ o \notin setIoObjs[t] /\ phase[t] = "deled"

Stands(t, o, c) ==
  \/ c = "out" /\ OutAt(t, o)
  \/ c = "in" /\ InAt(t, o)
  \/ c = "adding" /\ AddingAt(t, o)
  \/ c = "deling" /\ DelingAt(t, o)

StandsAsToldAt(t, o) ==
  /\ \A k \in Types : Where(t, k, o) => Stands(t, o, client[k][o])
  /\ (\A k \in Types : ~ Where(t, k, o)) => Stands(t, o, "out")

StandsAsTold == \A t \in IoTasks, o \in IoObjs : StandsAsToldAt(t, o)

(* A task is in a callback exactly while it has an object for it.          *)
PhasesHold ==
  \A t \in IoTasks : /\ phase[t] \in {"top", "dels", "deled", "adds", "added"}
                     /\ phase[t] \in {"deled", "added"} => cur[t] \in IoObjs

(* The type invariant, but for the ranges of the sequences, by the groups  *)
(* of variables that steps leave alone together.                           *)
EngineTyped ==
  /\ engine \in [state : {"STOPPED", "STARTED"}, op : {"none", "start", "stop", "scan"}, pos : Nat]
  /\ miscTask \in {"null", "uninited", "inited"}
  /\ indx \in [IoTasks -> Nat]

ThreadsTyped ==
  /\ thread \in [IoTasks -> {"none", "created", "calls", "task", "left"}]
  /\ bStop \in [IoTasks -> BOOLEAN]
  /\ taskStop \in [IoTasks -> BOOLEAN]
  /\ hasTask \in [IoTasks -> BOOLEAN]

ClientsTyped ==
  /\ taskId \in [Types -> [IoObjs -> Nat]]
  /\ client \in [Types -> [IoObjs -> {"out", "adding", "in", "deling"}]]

AbortedTyped ==
  aborted \in {"none", "erase", "insert", "destroy", "reset", "notask", "timer", "nulltask"}

Typed == EpollTypeOK /\ AbortedTyped /\ EngineTyped /\ ThreadsTyped /\ ClientsTyped

Kept == VectorsHold /\ ScanHolds /\ CountCovers /\ IdsInRange /\ StandsAsTold /\ PhasesHold

EngineInv ==
  /\ Typed
  /\ threads \in Seq(IoTasks \cup {Misc})
  /\ NumbersLast
  /\ Kept
  /\ aborted \notin {"erase", "insert"}

-----------------------------------------------------------------------------
(* Facts about the vectors and the sizes of the caches.                    *)

LEMMA CountsAreNumbers ==
  /\ TaskCnt \in Nat
  /\ AllIoTasks \in Nat
  /\ OutputThreadCnt \in Nat /\ InputThreadCnt \in Nat
  BY CountsAssumption, FS_CardinalityType DEF TaskCnt, AllIoTasks

LEMMA TasksAreNumbers == \A t \in IoTasks : t \in Nat
  <1>1. TaskCnt \in Nat /\ IoTasks = 1..TaskCnt
    BY CountsAreNumbers, CountsAssumption DEF TaskCnt
  <1> QED
    BY <1>1

LEMMA TypesAre == \A k : k \in Types <=> k = "IT" \/ k = "OT"
  BY DEF Types

(* What the vectors hold are tasks, and each is in one place.              *)
LEMMA VectorFacts ==
  ASSUME VectorsHold
  PROVE  /\ Made \in Nat
         /\ \A k \in Types : Len(vec[k]) \in Nat
         /\ \A k \in Types : \A n \in 1..Len(vec[k]) : vec[k][n] \in IoTasks
         /\ \A k \in Types : Range(vec[k]) = {vec[k][n] : n \in 1..Len(vec[k])}
  <1>1. \A k \in Types : vec[k] \in Seq(IoTasks)
    BY DEF VectorsHold
  <1>2. \A k \in Types : /\ Len(vec[k]) \in Nat
                         /\ DOMAIN vec[k] = 1..Len(vec[k])
                         /\ \A n \in 1..Len(vec[k]) : vec[k][n] \in IoTasks
    BY <1>1
  <1>3. Len(vec["IT"]) \in Nat /\ Len(vec["OT"]) \in Nat
    BY <1>2 DEF Types
  <1>4. Made \in Nat
    <2>1. \A a, b \in Nat : a + b \in Nat
      OBVIOUS
    <2> QED
      BY <1>3, <2>1 DEF Made
  <1>5. \A k \in Types : Range(vec[k]) = {vec[k][n] : n \in 1..Len(vec[k])}
    BY <1>2 DEF Range
  <1> QED
    BY <1>2, <1>4, <1>5

LEMMA OnePlaceEach ==
  ASSUME VectorsHold,
         NEW k \in Types, NEW n \in 1..Len(vec[k]),
         NEW j \in Types, NEW m \in 1..Len(vec[j]), vec[k][n] = vec[j][m]
  PROVE  k = j /\ n = m
  <1>0. \A a \in 1..Len(vec["IT"]), b \in 1..Len(vec["OT"]) : vec["IT"][a] # vec["OT"][b]
    BY DEF VectorsHold
  <1>1. k = j
    <2>1. ~ (k = "IT" /\ j = "OT")
      BY <1>0
    <2>2. ~ (k = "OT" /\ j = "IT")
      BY <1>0
    <2> QED
      BY <2>1, <2>2, TypesAre
  <1>2. indx[vec[k][n]] = n - 1 /\ indx[vec[j][m]] = m - 1
    BY DEF VectorsHold
  <1>3. n \in Int /\ m \in Int
    OBVIOUS
  <1> QED
    BY <1>1, <1>2, <1>3

LEMMA TypeOfTask ==
  ASSUME VectorsHold, NEW k \in Types, NEW n \in 1..Len(vec[k])
  PROVE  TypeOf(vec[k][n]) = k
  <1> DEFINE t == vec[k][n]
  <1>1. k \in Types /\ t \in Range(vec[k])
    BY VectorFacts
  <1>2. \A j \in Types : t \in Range(vec[j]) => j = k
    <2> SUFFICES ASSUME NEW j \in Types, t \in Range(vec[j]) PROVE j = k
      OBVIOUS
    <2>1. PICK m \in 1..Len(vec[j]) : vec[j][m] = t
      BY VectorFacts
    <2> QED
      BY <2>1, OnePlaceEach
  <1> HIDE DEF t
  <1>3. (CHOOSE j \in Types : t \in Range(vec[j])) = k
    BY <1>1, <1>2
  <1> QED
    BY <1>3 DEF TypeOf, t

(* A cache that holds no object twice is no larger than a set of all it    *)
(* holds.                                                                  *)
LEMMA SizeOfSingles ==
  ASSUME NEW f \in [IoObjs -> Nat], \A o \in IoObjs : f[o] \in {0, 1},
         NEW S \in SUBSET IoObjs, \A o \in IoObjs : f[o] = 1 => o \in S
  PROVE  /\ Size(f) \in Nat
         /\ Cardinality(S) \in Nat
         /\ Size(f) <= Cardinality(S)
  <1> DEFINE C == UNION {{o} \X (1..f[o]) : o \in IoObjs}
             g == [c \in C |-> c[1]]
  <1>1. IsFiniteSet(S)
    BY FS_Subset, CountsAssumption
  <1>2. \A c \in C : \E o \in IoObjs : f[o] = 1 /\ c = <<o, 1>>
    <2> SUFFICES ASSUME NEW c \in C PROVE \E o \in IoObjs : f[o] = 1 /\ c = <<o, 1>>
      OBVIOUS
    <2>1. PICK o \in IoObjs : c \in {o} \X (1..f[o])
      OBVIOUS
    <2>2. PICK n \in 1..f[o] : c = <<o, n>>
      BY <2>1
    <2>3. f[o] \in {0, 1} /\ n \in Int /\ 1 <= n /\ n <= f[o]
      BY <2>2
    <2>4. f[o] = 1 /\ n = 1
      BY <2>3
    <2> QED
      BY <2>2, <2>4
  <1>3. g \in Injection(C, S)
    <2>1. \A c \in C : c[1] \in S
      BY <1>2
    <2>2. g \in [C -> S]
      BY <2>1
    <2>3. \A c, d \in C : c[1] = d[1] => c = d
      <3> HIDE DEF C
      <3> QED
        BY <1>2
    <2>4. \A c, d \in C : g[c] = g[d] => c = d
      BY <2>3
    <2> HIDE DEF C, g
    <2> QED
      BY <2>2, <2>4 DEF Injection, IsInjective
  <1> HIDE DEF C, g
  <1>4. IsFiniteSet(C) /\ Cardinality(C) <= Cardinality(S)
    BY <1>1, <1>3, FS_Injection
  <1>5. Cardinality(C) \in Nat /\ Cardinality(S) \in Nat
    BY <1>1, <1>4, FS_CardinalityType
  <1> QED
    BY <1>4, <1>5 DEF Size, C

LEMMA SizeOfNone == Size(NoCopies) = 0
  <1>1. UNION {{o} \X (1..NoCopies[o]) : o \in IoObjs} = {}
    BY DEF NoCopies
  <1> QED
    BY <1>1, FS_EmptySet DEF Size

-----------------------------------------------------------------------------
(* Types.                                                                  *)

LEMMA TypesHold ==
  ASSUME Typed, VectorsHold, threads \in Seq(IoTasks \cup {Misc})
  PROVE  TypeOK
  <1>1. \A k \in Types : Range(vec[k]) \subseteq IoTasks
    <2>1. \A k \in Types : \A x \in Range(vec[k]) : \E n \in 1..Len(vec[k]) : x = vec[k][n]
      BY VectorFacts
    <2> QED
      BY <2>1, VectorFacts
  <1>2. Range(threads) \subseteq IoTasks \cup {Misc}
    BY DEF Range
  <1>3. {bStop, taskStop, hasTask} \subseteq [IoTasks -> BOOLEAN]
    BY DEF Typed, ThreadsTyped
  <1> QED
    BY <1>1, <1>2, <1>3 DEF Typed, EngineTyped, ThreadsTyped, ClientsTyped, AbortedTyped, TypeOK

(* While add_endpoint has counted a task there is a best one so far.       *)
LEMMA BestIsThere ==
  ASSUME ScanHolds, VectorsHold, HaveCount
  PROVE  /\ scan.type \in Types /\ scan.obj \in IoObjs
         /\ Best \in 1..Len(vec[scan.type])
         /\ vec[scan.type][Best] \in IoTasks
  <1>1. /\ Scanning /\ scan.term > 3
        /\ scan.type \in Types /\ scan.obj \in IoObjs
        /\ scan.at \in 0..Len(vec[scan.type])
        /\ scan.best \in 1..Len(vec[scan.type])
    <2>1. Scanning /\ scan.term > 3 /\ scan.term \in 1..4 /\ scan.type \in Types
      BY DEF ScanHolds, HaveCount
    <2>2. scan.term > 1
      BY <2>1
    <2> QED
      BY <2>1, <2>2 DEF ScanHolds
  <1>2. Len(vec[scan.type]) \in Nat
    BY <1>1, VectorFacts
  <1>3. Best \in 1..Len(vec[scan.type])
    <2>1. scan.at > 0 => scan.at \in 1..Len(vec[scan.type])
      BY <1>1, <1>2
    <2> QED
      BY <1>1, <2>1 DEF Best
  <1> QED
    BY <1>1, <1>3, VectorFacts

(* What leaves the variables of a group alone leaves them typed.           *)
LEMMA TypedKept ==
  /\ Typed /\ UNCHANGED epollVars => EpollTypeOK' /\ AbortedTyped'
  /\ Typed /\ UNCHANGED <<AddCache, DelCache, armed, taskVars>> => EpollTypeOK'
  /\ Typed /\ UNCHANGED <<engine, miscTask, indx>> => EngineTyped'
  /\ Typed /\ UNCHANGED threadVars => ThreadsTyped'
  /\ Typed /\ UNCHANGED <<taskId, client>> => ClientsTyped'
  BY DEF Typed, EpollTypeOK, AbortedTyped, EngineTyped, ThreadsTyped, ClientsTyped,
         epollVars, sharedVars, taskVars, threadVars

LEMMA TypedByStarting ==
  ASSUME EngineInv, Start \/ StartIoTask \/ StartMiscTask \/ CreateObjFails \/ MiscInitFails
  PROVE  Typed'
  <1>1. EpollTypeOK' /\ AbortedTyped'
    <2>1. Typed /\ UNCHANGED epollVars
      BY DEF EngineInv, Start, StartIoTask, StartMiscTask, CreateObjFails, MiscInitFails
    <2> QED
      BY <2>1, TypedKept
  <1>2. ClientsTyped'
    <2>1. Typed /\ UNCHANGED <<taskId, client>>
      BY DEF EngineInv, Start, StartIoTask, StartMiscTask, CreateObjFails, MiscInitFails, clientVars
    <2> QED
      BY <2>1, TypedKept
  <1>3. ThreadsTyped'
    <2>1. Typed /\ ThreadsTyped
      BY DEF EngineInv, Typed
    <2>2. CASE StartIoTask
      <3>1. StartThread(Made + 1)
        BY <2>2 DEF StartIoTask
      <3> QED
        BY <2>1, <3>1 DEF StartThread, ThreadsTyped
    <2>3. CASE Start \/ StartMiscTask \/ CreateObjFails \/ MiscInitFails
      <3>1. UNCHANGED threadVars
        BY <2>3 DEF Start, StartMiscTask, CreateObjFails, MiscInitFails
      <3> QED
        BY <2>1, <3>1, TypedKept
    <2> QED
      BY <2>2, <2>3
  <1>4. EngineTyped'
    <2>1. EngineTyped
      BY DEF EngineInv, Typed
    <2>2. CASE StartIoTask
      <3>1. \A k \in Types : SetIndx(k) \in Nat
        BY VectorFacts DEF EngineInv, Kept, SetIndx
      <3>2. TypeAt(engine.pos) \in Types
        BY DEF Types, TypeAt
      <3>3. SetIndx(TypeAt(engine.pos)) \in Nat
        BY <3>1, <3>2
      <3>4. /\ indx' = [indx EXCEPT ![Made + 1] = SetIndx(TypeAt(engine.pos))]
            /\ engine' = [engine EXCEPT !.pos = @ + 1]
            /\ UNCHANGED miscTask
        BY <2>2 DEF StartIoTask
      <3>5. indx' \in [IoTasks -> Nat]
        BY <2>1, <3>3, <3>4 DEF EngineTyped
      <3> QED
        BY <2>1, <3>4, <3>5 DEF EngineTyped
    <2>3. CASE Start
      BY <2>1, <2>3 DEF Start, Lock, EngineTyped
    <2>4. CASE StartMiscTask
      BY <2>1, <2>4 DEF StartMiscTask, Unlock, EngineTyped
    <2>5. CASE CreateObjFails
      BY <2>1, <2>5 DEF CreateObjFails, Unlock, EngineTyped
    <2>6. CASE MiscInitFails
      BY <2>1, <2>6 DEF MiscInitFails, Unlock, EngineTyped
    <2> QED
      BY <2>2, <2>3, <2>4, <2>5, <2>6
  <1> QED
    BY <1>1, <1>2, <1>3, <1>4 DEF Typed

LEMMA TypedByStopping ==
  ASSUME EngineInv, Stop \/ StopWait
  PROVE  Typed'
  <1>1. Typed /\ UNCHANGED epollVars /\ UNCHANGED <<taskId, client>>
    BY DEF EngineInv, Stop, StopWait, clientVars
  <1>2. EngineTyped'
    <2>1. EngineTyped
      BY DEF EngineInv, Typed
    <2>2. CASE Stop
      BY <2>1, <2>2 DEF Stop, Lock, EngineTyped
    <2>3. CASE StopWait
      <3>1. engine' = [engine EXCEPT !.pos = @ + 1] /\ UNCHANGED <<miscTask, indx>>
        BY <2>3 DEF StopWait
      <3> QED
        BY <2>1, <3>1 DEF EngineTyped
    <2> QED
      BY <2>2, <2>3
  <1>3. ThreadsTyped'
    <2>1. ThreadsTyped
      BY DEF EngineInv, Typed
    <2>2. CASE Stop
      BY <2>1, <2>2 DEF Stop, ThreadsTyped, threadVars
    <2>3. CASE StopWait
      BY <2>1, <2>3 DEF StopWait, ThreadsTyped
    <2> QED
      BY <2>2, <2>3
  <1> QED
    BY <1>1, <1>2, <1>3, TypedKept DEF Typed

(* Steps in which the process dies of an assertion.                        *)
LEMMA TypedByDying ==
  ASSUME EngineInv, EpollCreateFails \/ ResetTaskAgain \/ NoTasks \/ TimerCall
  PROVE  Typed'
  <1>1. /\ Typed /\ UNCHANGED <<AddCache, DelCache, armed, taskVars>>
        /\ UNCHANGED <<engine, miscTask, indx>> /\ UNCHANGED threadVars
        /\ UNCHANGED <<taskId, client>>
    BY DEF EngineInv, EpollCreateFails, ResetTaskAgain, NoTasks, TimerCall, engineVars, clientVars
  <1>2. AbortedTyped'
    BY DEF EpollCreateFails, ResetTaskAgain, NoTasks, TimerCall, Dies, AbortedTyped
  <1> QED
    BY <1>1, <1>2, TypedKept DEF Typed

(* An object that is to be deleted is with a task.                         *)
LEMMA DeletedIsPlaced ==
  ASSUME EngineInv, NEW k \in Types, NEW o \in IoObjs, DelEndpoint(k, o)
  PROVE  /\ Placed(k, o) /\ client[k][o] = "in"
         /\ ~ Scanning
         /\ taskId[k][o] + 1 \in 1..Len(vec[k])
         /\ vec[k][taskId[k][o] + 1] \in IoTasks
  <1>1. client[k][o] = "in" /\ ~ Scanning
    BY DEF DelEndpoint, MayDel, Scanning
  <1>2. Placed(k, o)
    BY <1>1 DEF Placed, Waiting
  <1>3. taskId[k][o] + 1 \in 1..Len(vec[k])
    BY <1>2 DEF EngineInv, Kept, IdsInRange
  <1> QED
    BY <1>1, <1>2, <1>3, VectorFacts DEF EngineInv, Kept, Kept

LEMMA TypedByCalls ==
  ASSUME EngineInv,
         \/ ReadTerm \/ CountNext \/ AddIoObjToTask
         \/ \E k \in Types, o \in IoObjs : AddEndpoint(k, o) \/ DelEndpoint(k, o)
  PROVE  Typed'
  <1>1. Typed /\ EpollTypeOK /\ EngineTyped /\ ClientsTyped
    BY DEF EngineInv, Typed
  <1>2. CASE ReadTerm \/ CountNext
    <2>1. /\ UNCHANGED epollVars /\ UNCHANGED <<engine, miscTask, indx>>
          /\ UNCHANGED threadVars /\ UNCHANGED <<taskId, client>>
      BY <1>2 DEF ReadTerm, CountNext, engineVars
    <2> QED
      BY <1>1, <2>1, TypedKept DEF Typed
  <1>3. CASE AddIoObjToTask
    <2> DEFINE t == vec[scan.type][Best]
    <2>1. scan.type \in Types /\ scan.obj \in IoObjs /\ t \in IoTasks
      BY <1>3, BestIsThere DEF EngineInv, Kept, AddIoObjToTask
    <2>2. /\ taskId' = [taskId EXCEPT ![scan.type][scan.obj] = indx[t]]
          /\ AddIoObj(t, scan.obj)
          /\ Unlock(engine.state)
          /\ UNCHANGED <<DelCache, armed, taskVars, miscTask, indx, client>>
          /\ UNCHANGED threadVars /\ UNCHANGED aborted
      BY <1>3 DEF AddIoObjToTask
    <2> HIDE DEF t
    <2>3. AddCache' \in [IoTasks -> [IoObjs -> Nat]]
      BY <1>1, <2>1, <2>2 DEF AddIoObj, EpollTypeOK
    <2>4. EpollTypeOK'
      BY <1>1, <2>2, <2>3 DEF EpollTypeOK, taskVars
    <2>5. ClientsTyped'
      <3>1. indx[t] \in Nat
        BY <1>1, <2>1 DEF EngineTyped
      <3>2. taskId' \in [Types -> [IoObjs -> Nat]]
        BY <1>1, <2>1, <2>2, <3>1 DEF ClientsTyped
      <3> QED
        BY <1>1, <2>2, <3>2 DEF ClientsTyped
    <2>6. EngineTyped'
      BY <1>1, <2>2 DEF EngineTyped, Unlock
    <2>7. AbortedTyped'
      BY <1>1, <2>2 DEF Typed, AbortedTyped
    <2> QED
      BY <1>1, <2>2, <2>4, <2>5, <2>6, <2>7, TypedKept DEF Typed
  <1>4. ASSUME NEW k \in Types, NEW o \in IoObjs, AddEndpoint(k, o)
        PROVE  Typed'
    <2>1. /\ UNCHANGED epollVars /\ UNCHANGED threadVars /\ UNCHANGED <<miscTask, indx, taskId>>
          /\ Lock("scan") /\ client' = [client EXCEPT ![k][o] = "adding"]
      BY <1>4 DEF AddEndpoint
    <2>2. EngineTyped'
      BY <1>1, <2>1 DEF EngineTyped, Lock
    <2>3. ClientsTyped'
      BY <1>1, <2>1 DEF ClientsTyped
    <2> QED
      BY <1>1, <2>1, <2>2, <2>3, TypedKept DEF Typed
  <1>5. ASSUME NEW k \in Types, NEW o \in IoObjs, DelEndpoint(k, o)
        PROVE  Typed'
    <2> DEFINE t == vec[k][taskId[k][o] + 1]
    <2>1. t \in IoTasks
      BY <1>5, DeletedIsPlaced
    <2>2. /\ UNCHANGED <<AddCache, armed, aborted, taskVars, taskId>> /\ UNCHANGED threadVars
          /\ UNCHANGED <<engine, miscTask, indx>> /\ UNCHANGED aborted
          /\ DelIoObj(t, o) /\ client' = [client EXCEPT ![k][o] = "deling"]
      BY <1>5 DEF DelEndpoint, engineVars
    <2> HIDE DEF t
    <2>3. DelCache' \in [IoTasks -> [IoObjs -> Nat]]
      BY <1>1, <2>1, <2>2 DEF DelIoObj, EpollTypeOK
    <2>4. EpollTypeOK'
      BY <1>1, <2>2, <2>3 DEF EpollTypeOK, taskVars
    <2>5. ClientsTyped' /\ AbortedTyped'
      BY <1>1, <2>2 DEF ClientsTyped, Typed, AbortedTyped
    <2> QED
      BY <1>1, <2>2, <2>4, <2>5, TypedKept DEF Typed
  <1> QED
    BY <1>2, <1>3, <1>4, <1>5

LEMMA TypedByThreads ==
  ASSUME EngineInv, NEW t \in IoTasks, ThreadTests(t) \/ ThreadCalls(t) \/ TaskReturns(t)
  PROVE  Typed'
  <1>1. Typed /\ ThreadsTyped /\ AbortedTyped
    BY DEF EngineInv, Typed
  <1>2. /\ UNCHANGED <<AddCache, DelCache, armed, taskVars>>
        /\ UNCHANGED <<engine, miscTask, indx>> /\ UNCHANGED <<taskId, client>>
        /\ UNCHANGED <<bStop, taskStop, hasTask>>
    BY DEF ThreadTests, ThreadCalls, TaskReturns, epollVars, sharedVars, engineVars, clientVars
  <1>3. AbortedTyped'
    BY <1>1 DEF ThreadTests, ThreadCalls, TaskReturns, epollVars, sharedVars, Dies, AbortedTyped
  <1>4. ThreadsTyped'
    BY <1>1, <1>2 DEF ThreadTests, ThreadCalls, TaskReturns, Goes, ThreadsTyped
  <1> QED
    BY <1>1, <1>2, <1>3, <1>4, TypedKept DEF Typed

LEMMA TypedByTask ==
  ASSUME EngineInv, NEW t \in IoTasks, TaskExec(t)
  PROVE  Typed'
  <1>1. Typed /\ EpollTypeOK /\ AbortedTyped /\ ClientsTyped
    BY DEF EngineInv, Typed
  <1>2. UNCHANGED <<engine, miscTask, indx>> /\ UNCHANGED threadVars /\ UNCHANGED taskId
    BY DEF TaskExec, engineVars
  <1>3. NoCopies \in [IoObjs -> Nat]
    BY DEF NoCopies
  <1>4. ClientsTyped'
    <2>1. CASE \E c \in {"out", "in"} : Notified(t, c)
      <3>1. PICK c \in {"out", "in"} : client' = [client EXCEPT ![TypeOf(t)][cur[t]] = c]
        BY <2>1 DEF Notified
      <3>2. ASSUME NEW k, NEW o, client' = [client EXCEPT ![k][o] = c]
            PROVE  client' \in [Types -> [IoObjs -> {"out", "adding", "in", "deling"}]]
        BY <1>1, <3>2 DEF ClientsTyped
      <3> QED
        BY <1>1, <1>2, <3>1, <3>2 DEF ClientsTyped
    <2>2. CASE UNCHANGED client
      BY <1>1, <1>2, <2>2 DEF ClientsTyped
    <2> QED
      BY <2>1, <2>2 DEF TaskExec
  <1>5. EpollTypeOK' /\ AbortedTyped'
    <2>1. CASE SwapDelCache(t)
      BY <1>1, <1>3, <2>1 DEF SwapDelCache, GoTo, EpollTypeOK, AbortedTyped, Phases
    <2>2. CASE SwapAddCache(t)
      BY <1>1, <1>3, <2>2 DEF SwapAddCache, GoTo, EpollTypeOK, AbortedTyped, Phases
    <2>3. ASSUME NEW o \in IoObjs, NEW p, TakeFrom(t, p, o)
          PROVE  vecTmp' \in [IoTasks -> [IoObjs -> Nat]]
      <3>1. /\ vecTmp \in [IoTasks -> [IoObjs -> Nat]]
            /\ vecTmp[t][o] > 0 /\ vecTmp' = [vecTmp EXCEPT ![t][o] = @ - 1]
        BY <1>1, <2>3 DEF TakeFrom, EpollTypeOK
      <3>2. vecTmp[t][o] - 1 \in Nat
        BY <3>1
      <3>3. [vecTmp[t] EXCEPT ![o] = @ - 1] \in [IoObjs -> Nat]
        BY <3>1, <3>2
      <3> QED
        BY <3>1, <3>3
    <2>4. ASSUME NEW o \in IoObjs, EraseIoObj(t, o)
          PROVE  EpollTypeOK' /\ AbortedTyped'
      <3>1. vecTmp' \in [IoTasks -> [IoObjs -> Nat]]
        BY <2>3, <2>4 DEF EraseIoObj
      <3> QED
        BY <1>1, <2>4, <3>1 DEF EraseIoObj, GoTo, EpollTypeOK, AbortedTyped, Phases
    <2>5. ASSUME NEW o \in IoObjs, InsertIoObj(t, o)
          PROVE  EpollTypeOK' /\ AbortedTyped'
      <3>1. vecTmp' \in [IoTasks -> [IoObjs -> Nat]]
        BY <2>3, <2>5 DEF InsertIoObj
      <3> QED
        BY <1>1, <2>5, <3>1 DEF InsertIoObj, GoTo, EpollTypeOK, AbortedTyped, Phases
    <2>6. CASE /\ NotifyDeled(t) \/ NotifyAdded(t) \/ WaitsInVain(t)
               /\ UNCHANGED sharedVars
      BY <1>1, <2>6 DEF NotifyDeled, NotifyAdded, WaitsInVain, GoTo, EpollTypeOK, AbortedTyped,
                        Phases, sharedVars
    <2> QED
      BY <2>1, <2>2, <2>4, <2>5, <2>6 DEF TaskExec, WaitsInVain
  <1> QED
    BY <1>1, <1>2, <1>4, <1>5, TypedKept DEF Typed

-----------------------------------------------------------------------------
(* How objects stand to tasks.                                             *)

LEMMA StandsKept ==
  ASSUME StandsAsTold,
         \A t \in IoTasks, o \in IoObjs : \A c : Stands(t, o, c) => Stands(t, o, c)',
         \A t \in IoTasks, k \in Types, o \in IoObjs : Where(t, k, o)' <=> Where(t, k, o),
         \A k \in Types, o \in IoObjs : Placed(k, o) => client'[k][o] = client[k][o]
  PROVE  StandsAsTold'
  <1> SUFFICES ASSUME NEW t \in IoTasks, NEW o \in IoObjs PROVE StandsAsToldAt(t, o)'
    BY DEF StandsAsTold
  <1>1. StandsAsToldAt(t, o)
    BY DEF StandsAsTold
  <1>2. ASSUME NEW k \in Types, Where(t, k, o)' PROVE Stands(t, o, client[k][o])'
    <2>1. Where(t, k, o) /\ Stands(t, o, client[k][o])
      BY <1>1, <1>2 DEF StandsAsToldAt
    <2>2. client'[k][o] = client[k][o]
      BY <2>1 DEF Where
    <2>3. \A c : Stands(t, o, c) => Stands(t, o, c)'
      OBVIOUS
    <2>4. ASSUME NEW c, c = client[k][o] PROVE Stands(t, o, c)'
      BY <2>1, <2>3, <2>4
    <2> QED
      BY <2>2, <2>4 DEF Stands
  <1>3. (\A k \in Types : ~ Where(t, k, o)') => Stands(t, o, "out")'
    BY <1>1 DEF StandsAsToldAt
  <1> QED
    BY <1>2, <1>3 DEF StandsAsToldAt

copyVars == <<AddCache, DelCache, vecTmp, setIoObjs, phase, cur>>

LEMMA SameCopies ==
  ASSUME UNCHANGED copyVars
  PROVE  \A t \in IoTasks, o \in IoObjs : \A c : Stands(t, o, c) => Stands(t, o, c)'
  BY DEF copyVars, Stands, OutAt, InAt, AddingAt, DelingAt, Copies

(* A step that moves no copy, and changes neither the vectors nor what an  *)
(* object waits for nor who is being added.                                *)
LEMMA QuietStep ==
  ASSUME Kept, UNCHANGED copyVars, UNCHANGED <<vec, indx, taskId, client, scan>>,
         Scanning' <=> Scanning
  PROVE  Kept'
  <1> USE DEF Kept
  <1>1. VectorsHold'
    BY DEF VectorsHold, Made
  <1>2. ScanHolds'
    BY DEF ScanHolds
  <1>3. CountCovers'
    BY DEF CountCovers, Counted, Size, copyVars
  <1>4. \A k \in Types, o \in IoObjs : Placed(k, o)' <=> Placed(k, o)
    BY DEF Placed, Waiting
  <1>5. IdsInRange'
    BY <1>4 DEF IdsInRange
  <1>6. \A t \in IoTasks, k \in Types, o \in IoObjs : Where(t, k, o)' <=> Where(t, k, o)
    BY <1>4 DEF Where
  <1>7. StandsAsTold'
    BY <1>6, SameCopies, StandsKept
  <1>8. PhasesHold'
    BY DEF PhasesHold, copyVars
  <1> QED
    BY <1>1, <1>2, <1>3, <1>5, <1>7, <1>8

-----------------------------------------------------------------------------
(* A task is made.                                                         *)

LEMMA VectorsGrow ==
  ASSUME EngineInv, StartIoTask
  PROVE  \E k \in Types : LET t == Made + 1 IN
           /\ t \in IoTasks
           /\ vec' \in [Types -> Seq(IoTasks)]
           /\ Made' = t
           /\ Len(vec'[k]) = Len(vec[k]) + 1 /\ vec'[k][Len(vec[k]) + 1] = t
           /\ \A j \in Types : j # k => vec'[j] = vec[j]
           /\ \A j \in Types : \A n \in 1..Len(vec[j]) : vec'[j][n] = vec[j][n]
           /\ indx'[t] = Len(vec[k])
           /\ \A u \in IoTasks : u # t => indx'[u] = indx[u]
  <1> DEFINE t == Made + 1
             k == TypeAt(engine.pos)
  <1>1. VectorsHold /\ NumbersLast /\ indx \in [IoTasks -> Nat]
    BY DEF EngineInv, Kept, Typed, EngineTyped
  <1>2. k \in Types
    BY DEF Types, TypeAt
  <1>3. Made \in Nat /\ AllIoTasks \in Nat /\ TaskCnt \in Nat
    BY <1>1, VectorFacts, CountsAreNumbers
  <1>4. t \in IoTasks
    <2>1. engine.pos \in Nat /\ engine.pos <= AllIoTasks
      BY DEF StartIoTask, EngineInv, Typed, EngineTyped
    <2>2. Made + AllIoTasks + 1 - engine.pos <= TaskCnt
      BY <1>1 DEF NumbersLast, StartIoTask
    <2>3. t \in 1..TaskCnt
      BY <1>3, <2>1, <2>2
    <2> QED
      BY <2>3, CountsAssumption DEF TaskCnt
  <1>5. vec' = [vec EXCEPT ![k] = Append(@, t)] /\ indx' = [indx EXCEPT ![t] = SetIndx(k)]
    BY DEF StartIoTask
  <1>6. vec \in [Types -> Seq(IoTasks)]
    BY <1>1 DEF VectorsHold
  <1>7. /\ indx'[t] = Len(vec[k])
        /\ \A u \in IoTasks : u # t => indx'[u] = indx[u]
    BY <1>1, <1>4, <1>5 DEF SetIndx
  <1>8. vec'[k] = Append(vec[k], t) /\ \A j \in Types : j # k => vec'[j] = vec[j]
    BY <1>2, <1>5, <1>6
  <1> HIDE DEF t, k
  <1>9. /\ Append(vec[k], t) \in Seq(IoTasks)
        /\ Len(Append(vec[k], t)) = Len(vec[k]) + 1
        /\ Append(vec[k], t)[Len(vec[k]) + 1] = t
        /\ \A n \in 1..Len(vec[k]) : Append(vec[k], t)[n] = vec[k][n]
        /\ Len(vec[k]) \in Nat
    <2>1. vec[k] \in Seq(IoTasks)
      BY <1>2, <1>6
    <2> QED
      BY <1>4, <2>1
  <1>10. vec' \in [Types -> Seq(IoTasks)]
    BY <1>2, <1>4, <1>5, <1>6, <1>9
  <1>11. \A j \in Types : \A n \in 1..Len(vec[j]) : vec'[j][n] = vec[j][n]
    BY <1>8, <1>9
  <1>12. Made' = t
    <2>1. \A j \in Types : Len(vec'[j]) = IF j = k THEN Len(vec[j]) + 1 ELSE Len(vec[j])
      BY <1>8, <1>9
    <2>2. "IT" \in Types /\ "OT" \in Types /\ (k = "IT" \/ k = "OT")
      BY <1>2 DEF Types
    <2>3. Len(vec["IT"]) \in Nat /\ Len(vec["OT"]) \in Nat
      BY <1>1, <2>2, VectorFacts
    <2>4. Len(vec'["IT"]) + Len(vec'["OT"]) = Len(vec["IT"]) + Len(vec["OT"]) + 1
      <3>1. \A a, b \in Nat : (a + 1) + b = a + b + 1 /\ a + (b + 1) = a + b + 1
        OBVIOUS
      <3>2. CASE k = "IT"
        <4>1. Len(vec'["IT"]) = Len(vec["IT"]) + 1 /\ Len(vec'["OT"]) = Len(vec["OT"])
          BY <2>1, <2>2, <3>2
        <4> QED
          BY <2>3, <3>1, <4>1
      <3>3. CASE k = "OT"
        <4>1. Len(vec'["IT"]) = Len(vec["IT"]) /\ Len(vec'["OT"]) = Len(vec["OT"]) + 1
          BY <2>1, <2>2, <3>3
        <4> QED
          BY <2>3, <3>1, <4>1
      <3> QED
        BY <2>2, <3>2, <3>3
    <2> QED
      BY <2>4 DEF Made, t
  <1> QED
    BY <1>2, <1>4, <1>7, <1>8, <1>9, <1>10, <1>11, <1>12 DEF t

LEMMA StartIoTaskKeeps ==
  ASSUME EngineInv, StartIoTask
  PROVE  Kept'
  <1>1. Kept /\ VectorsHold
    BY DEF EngineInv, Kept
  <1>2. ~ Scanning /\ ~ Scanning' /\ UNCHANGED copyVars /\ UNCHANGED <<taskId, client, scan>>
    BY DEF StartIoTask, Starting, Scanning, epollVars, sharedVars, taskVars, clientVars, copyVars,
           EngineInv, Typed, EngineTyped
  <1> DEFINE t == Made + 1
  <1>3. PICK k \in Types :
           /\ t \in IoTasks
           /\ vec' \in [Types -> Seq(IoTasks)]
           /\ Made' = t
           /\ Len(vec'[k]) = Len(vec[k]) + 1 /\ vec'[k][Len(vec[k]) + 1] = t
           /\ \A j \in Types : j # k => vec'[j] = vec[j]
           /\ \A j \in Types : \A n \in 1..Len(vec[j]) : vec'[j][n] = vec[j][n]
           /\ indx'[t] = Len(vec[k])
           /\ \A u \in IoTasks : u # t => indx'[u] = indx[u]
    BY VectorsGrow
  <1>4. Made \in Nat /\ t = Made + 1 /\ \A j \in Types : Len(vec[j]) \in Nat
    BY <1>1, VectorFacts
  <1> HIDE DEF t
  (* A place of a vector is the new one or an old one.                     *)
  <1>5. ASSUME NEW j \in Types, NEW n \in 1..Len(vec'[j])
        PROVE  \/ n \in 1..Len(vec[j]) /\ vec'[j][n] = vec[j][n]
                  /\ vec[j][n] \in IoTasks /\ vec[j][n] <= Made /\ vec[j][n] # t
               \/ j = k /\ n = Len(vec[k]) + 1 /\ vec'[j][n] = t
    <2>1. CASE n \in 1..Len(vec[j])
      <3>1. vec[j][n] \in IoTasks /\ vec[j][n] <= Made
        BY <1>1, <2>1, VectorFacts DEF VectorsHold
      <3>2. vec[j][n] \in Nat
        BY <3>1, TasksAreNumbers
      <3> QED
        BY <1>3, <1>4, <2>1, <3>1, <3>2
    <2>2. CASE n \notin 1..Len(vec[j])
      <3>1. j = k
        BY <1>3, <2>2
      <3> QED
        BY <1>3, <1>4, <2>2, <3>1
    <2> QED
      BY <2>1, <2>2
  <1>6. VectorsHold'
    <2>1. ASSUME NEW j \in Types, NEW n \in 1..Len(vec'[j])
          PROVE  vec'[j][n] <= Made' /\ indx'[vec'[j][n]] = n - 1
      <3>1. CASE n \in 1..Len(vec[j]) /\ vec'[j][n] = vec[j][n]
                 /\ vec[j][n] \in IoTasks /\ vec[j][n] <= Made /\ vec[j][n] # t
        <4>1. indx[vec[j][n]] = n - 1
          BY <1>1, <3>1 DEF VectorsHold
        <4>2. vec[j][n] \in Nat
          BY <3>1, TasksAreNumbers
        <4> QED
          BY <1>3, <1>4, <3>1, <4>1, <4>2
      <3>2. CASE j = k /\ n = Len(vec[k]) + 1 /\ vec'[j][n] = t
        BY <1>3, <1>4, <3>2
      <3> QED
        BY <1>5, <3>1, <3>2
    <2>2. ASSUME NEW n \in 1..Len(vec'["IT"]), NEW m \in 1..Len(vec'["OT"])
          PROVE  vec'["IT"][n] # vec'["OT"][m]
      <3>1. "IT" \in Types /\ "OT" \in Types /\ "IT" # "OT"
        BY DEF Types
      <3>2. n \in 1..Len(vec["IT"]) /\ m \in 1..Len(vec["OT"]) => vec["IT"][n] # vec["OT"][m]
        BY <1>1 DEF VectorsHold
      <3> QED
        BY <1>5, <3>1, <3>2
    <2> QED
      BY <1>3, <2>1, <2>2 DEF VectorsHold
  <1>7. ScanHolds' /\ CountCovers'
    BY <1>1, <1>2 DEF Kept, ScanHolds, CountCovers
  <1>8. \A j \in Types, o \in IoObjs : Placed(j, o)' <=> Placed(j, o)
    BY <1>2 DEF Placed, Waiting
  <1>9. \A j \in Types, o \in IoObjs : Placed(j, o) => taskId[j][o] + 1 \in 1..Len(vec[j])
    BY <1>1 DEF Kept, IdsInRange
  <1>11. IdsInRange'
    <2>1. \A j \in Types : \A n \in 1..Len(vec[j]) : n \in 1..Len(vec'[j])
      BY <1>3, <1>4
    <2> QED
      BY <1>2, <1>8, <1>9, <2>1 DEF IdsInRange
  <1>12. \A u \in IoTasks, j \in Types, o \in IoObjs : Where(u, j, o)' <=> Where(u, j, o)
    BY <1>2, <1>3, <1>8, <1>9 DEF Where
  <1>13. StandsAsTold'
    BY <1>1, <1>2, <1>12, SameCopies, StandsKept DEF Kept
  <1>14. PhasesHold'
    BY <1>1, <1>2 DEF Kept, PhasesHold, copyVars
  <1> QED
    BY <1>6, <1>7, <1>11, <1>13, <1>14 DEF Kept

-----------------------------------------------------------------------------
(* One object changes how it stands to one task.                           *)

LEMMA StandsMoves ==
  ASSUME StandsAsTold,
         NEW t \in IoTasks, NEW k \in Types, NEW o \in IoObjs,
         \A u \in IoTasks, p \in IoObjs :
           u # t \/ p # o => \A c : Stands(u, p, c) => Stands(u, p, c)',
         \A u \in IoTasks, j \in Types, p \in IoObjs :
           u # t \/ j # k \/ p # o => (Where(u, j, p)' <=> Where(u, j, p)),
         \A j \in Types : j # k => ~ Where(t, j, o),
         \A u \in IoTasks : u # t => ~ Where(u, k, o),
         \A j \in Types, p \in IoObjs : j # k \/ p # o => client'[j][p] = client[j][p],
         Where(t, k, o)' => Stands(t, o, client[k][o])',
         ~ Where(t, k, o)' => Stands(t, o, "out")'
  PROVE  StandsAsTold'
  <1> SUFFICES ASSUME NEW u \in IoTasks, NEW p \in IoObjs PROVE StandsAsToldAt(u, p)'
    BY DEF StandsAsTold
  <1>1. StandsAsToldAt(u, p)
    BY DEF StandsAsTold
  <1>2. CASE u = t /\ p = o
    <2>1. ASSUME NEW j \in Types, Where(u, j, p)' PROVE Stands(u, p, client[j][p])'
      <3>1. j = k
        BY <1>2, <2>1
      <3> QED
        BY <1>2, <2>1, <3>1
    <2>2. (\A j \in Types : ~ Where(u, j, p)') => Stands(u, p, "out")'
      BY <1>2
    <2> QED
      BY <2>1, <2>2 DEF StandsAsToldAt
  <1>3. CASE u # t \/ p # o
    <2>1. \A c : Stands(u, p, c) => Stands(u, p, c)'
      BY <1>3
    <2>2. \A j \in Types : Where(u, j, p)' <=> Where(u, j, p)
      BY <1>3
    <2>3. ASSUME NEW j \in Types, Where(u, j, p)' PROVE Stands(u, p, client[j][p])'
      <3>1. Where(u, j, p) /\ Stands(u, p, client[j][p])
        BY <1>1, <2>2, <2>3 DEF StandsAsToldAt
      <3>2. j # k \/ p # o
        BY <1>3, <3>1
      <3>3. client'[j][p] = client[j][p]
        BY <3>2
      <3>4. ASSUME NEW c, c = client[j][p] PROVE Stands(u, p, c)'
        BY <2>1, <3>1, <3>4
      <3> QED
        BY <3>3, <3>4 DEF Stands
    <2>4. (\A j \in Types : ~ Where(u, j, p)') => Stands(u, p, "out")'
      BY <1>1, <2>1, <2>2 DEF StandsAsToldAt
    <2> QED
      BY <2>3, <2>4 DEF StandsAsToldAt
  <1> QED
    BY <1>2, <1>3

(* An object stands to a task in one of the four ways, and unless it is    *)
(* not there it is with no other task of the kind.                         *)
LEMMA StandsSomehow ==
  ASSUME StandsAsTold, NEW t \in IoTasks, NEW o \in IoObjs
  PROVE  \/ Stands(t, o, "out")
         \/ \E k \in Types : Where(t, k, o) /\ Stands(t, o, client[k][o])
  BY DEF StandsAsTold, StandsAsToldAt

LEMMA OneWhere ==
  ASSUME VectorsHold, IdsInRange,
         NEW t \in IoTasks, NEW k \in Types, NEW o \in IoObjs, Where(t, k, o)
  PROVE  /\ \A j \in Types : j # k => ~ Where(t, j, o)
         /\ \A u \in IoTasks : u # t => ~ Where(u, k, o)
         /\ TypeOf(t) = k
  <1>1. taskId[k][o] + 1 \in 1..Len(vec[k]) /\ vec[k][taskId[k][o] + 1] = t
    BY DEF IdsInRange, Where
  <1>2. ASSUME NEW j \in Types, Where(t, j, o) PROVE j = k
    <2>1. taskId[j][o] + 1 \in 1..Len(vec[j]) /\ vec[j][taskId[j][o] + 1] = t
      BY <1>2 DEF IdsInRange, Where
    <2> QED
      BY <1>1, <2>1, OnePlaceEach
  <1>3. TypeOf(t) = k
    BY <1>1, TypeOfTask
  <1> QED
    BY <1>2, <1>3 DEF Where

(* A cache never holds an object twice, and what is to be deleted is       *)
(* still in m_setIoObjs.                                                   *)
LEMMA Singles ==
  ASSUME Typed, StandsAsTold, NEW t \in IoTasks
  PROVE  /\ Size(AddCache[t]) \in Nat
         /\ Size(DelCache[t]) \in Nat
         /\ Cardinality(setIoObjs[t]) \in Nat
         /\ Size(DelCache[t]) <= Cardinality(setIoObjs[t])
  <1>1. /\ AddCache[t] \in [IoObjs -> Nat] /\ DelCache[t] \in [IoObjs -> Nat]
        /\ setIoObjs[t] \in SUBSET IoObjs
    BY DEF Typed, EpollTypeOK
  <1>2. \A o \in IoObjs : /\ AddCache[t][o] \in {0, 1} /\ DelCache[t][o] \in {0, 1}
                          /\ DelCache[t][o] = 1 => o \in setIoObjs[t]
    BY StandsSomehow DEF Stands, OutAt, InAt, AddingAt, DelingAt, Copies
  <1>3. Size(AddCache[t]) \in Nat
    <2>1. IoObjs \in SUBSET IoObjs /\ \A o \in IoObjs : AddCache[t][o] = 1 => o \in IoObjs
      OBVIOUS
    <2> QED
      BY <1>1, <1>2, <2>1, SizeOfSingles
  <1> QED
    BY <1>1, <1>2, <1>3, SizeOfSingles

-----------------------------------------------------------------------------
(* add_endpoint takes the mutex, counts, and hands the object over.        *)

LEMMA AddEndpointKeeps ==
  ASSUME EngineInv, NEW k \in Types, NEW o \in IoObjs, AddEndpoint(k, o)
  PROVE  Kept'
  <1>1. Kept /\ ClientsTyped
    BY DEF EngineInv, Typed
  <1>2. /\ ~ Scanning /\ Scanning' /\ client[k][o] = "out"
        /\ client' = [client EXCEPT ![k][o] = "adding"]
        /\ scan' = [NoScan EXCEPT !.type = k, !.obj = o]
        /\ UNCHANGED copyVars /\ UNCHANGED <<vec, indx, taskId>>
    BY DEF AddEndpoint, MayAdd, Lock, Scanning, copyVars, epollVars, sharedVars, taskVars,
           EngineInv, Typed, EngineTyped
  <1>3. /\ scan' = [type |-> k, obj |-> o, at |-> 0, term |-> 1, cnt |-> 0, min |-> 0, best |-> 1]
    BY <1>2 DEF NoScan
  <1>4. /\ client'[k][o] = "adding"
        /\ \A j \in Types, p \in IoObjs : j # k \/ p # o => client'[j][p] = client[j][p]
    BY <1>1, <1>2 DEF ClientsTyped
  <1>5. ScanHolds'
    <2>1. 0 \in 0..Len(vec'[k]) /\ (vec'[k] # <<>> => 1 \in 1..Len(vec'[k]))
      <3>1. vec'[k] \in Seq(IoTasks) /\ Len(vec'[k]) \in Nat
        BY <1>1, <1>2, VectorFacts DEF Kept, VectorsHold
      <3> QED
        BY <3>1
    <2> QED
      BY <1>3, <1>4, <2>1 DEF ScanHolds
  <1>6. CountCovers'
    BY <1>3 DEF CountCovers
  <1>7. \A j \in Types, p \in IoObjs : Placed(j, p)' <=> Placed(j, p)
    BY <1>2, <1>3, <1>4 DEF Placed, Waiting
  <1>8. \A j \in Types, p \in IoObjs : Placed(j, p) => client'[j][p] = client[j][p]
    BY <1>2, <1>4 DEF Placed
  <1>9. \A u \in IoTasks, j \in Types, p \in IoObjs : Where(u, j, p)' <=> Where(u, j, p)
    BY <1>2, <1>7 DEF Where
  <1>10. StandsAsTold'
    BY <1>1, <1>2, <1>8, <1>9, SameCopies, StandsKept DEF Kept
  <1>11. VectorsHold' /\ IdsInRange' /\ PhasesHold'
    BY <1>1, <1>2, <1>7 DEF Kept, VectorsHold, Made, IdsInRange, PhasesHold, copyVars
  <1> QED
    BY <1>5, <1>6, <1>10, <1>11 DEF Kept

(* A step of the counting changes only scan, and not what is being added.  *)
LEMMA CountingKeeps ==
  ASSUME Kept, UNCHANGED copyVars, UNCHANGED <<engine, vec, indx, taskId, client>>,
         scan'.type = scan.type, scan'.obj = scan.obj,
         ScanHolds', CountCovers'
  PROVE  Kept'
  <1>1. \A j \in Types, p \in IoObjs : Placed(j, p)' <=> Placed(j, p)
    BY DEF Placed, Waiting, Scanning
  <1>2. \A u \in IoTasks, j \in Types, p \in IoObjs : Where(u, j, p)' <=> Where(u, j, p)
    BY <1>1 DEF Where
  <1>3. StandsAsTold'
    BY <1>2, SameCopies, StandsKept DEF Kept
  <1>4. VectorsHold' /\ IdsInRange' /\ PhasesHold'
    BY <1>1 DEF Kept, VectorsHold, Made, IdsInRange, PhasesHold, copyVars
  <1> QED
    BY <1>3, <1>4 DEF Kept

LEMMA CountedIsTask ==
  ASSUME VectorsHold, ScanHolds, Scanning, vec[scan.type] # <<>>
  PROVE  Counted \in IoTasks
  <1>1. scan.type \in Types /\ scan.at \in 0..Len(vec[scan.type])
    BY DEF ScanHolds
  <1>2. vec[scan.type] \in Seq(IoTasks) /\ Len(vec[scan.type]) \in Nat
    BY <1>1 DEF VectorsHold
  <1>3. Len(vec[scan.type]) # 0
    BY <1>2
  <1>4. (IF scan.at = 0 THEN 1 ELSE scan.at) \in 1..Len(vec[scan.type])
    BY <1>1, <1>2, <1>3
  <1> QED
    BY <1>1, <1>4, VectorFacts DEF Counted

LEMMA ReadTermKeeps ==
  ASSUME EngineInv, ReadTerm
  PROVE  Kept'
  <1>1. Kept /\ Typed /\ StandsAsTold /\ VectorsHold /\ ScanHolds /\ CountCovers
    BY DEF EngineInv, Kept
  <1>2. /\ Scanning /\ vec[scan.type] # <<>> /\ scan.term \in 1..3
        /\ UNCHANGED copyVars /\ UNCHANGED <<engine, vec, indx, taskId, client>>
    BY <1>1 DEF ReadTerm, copyVars, epollVars, sharedVars, taskVars, engineVars, ScanHolds
  <1> SUFFICES ASSUME NEW t, t = Counted PROVE Kept'
    OBVIOUS
  <1> DEFINE read == CASE Terms[scan.term] = "set"  -> Cardinality(setIoObjs[t])
                       [] Terms[scan.term] = "adds" -> Size(AddCache[t])
                       [] Terms[scan.term] = "dels" -> - Size(DelCache[t])
  <1>3. scan' = [scan EXCEPT !.term = @ + 1, !.cnt = @ + read]
    BY DEF ReadTerm
  <1>4. t \in IoTasks
    BY <1>1, <1>2, CountedIsTask
  <1>5. /\ Size(AddCache[t]) \in Nat /\ Size(DelCache[t]) \in Nat
        /\ Cardinality(setIoObjs[t]) \in Nat
        /\ Size(DelCache[t]) <= Cardinality(setIoObjs[t])
    BY <1>1, <1>4, Singles
  <1>6. /\ scan.term = 1 => read = Cardinality(setIoObjs[t])
        /\ scan.term = 2 => read = Size(AddCache[t])
        /\ scan.term = 3 => read = - Size(DelCache[t])
    BY DEF Terms
  <1> HIDE DEF read
  <1>7. read \in Int
    BY <1>2, <1>5, <1>6
  <1>8. scan \in [type : Types, obj : IoObjs \cup {NoObj}, at : Nat, term : 1..4,
                  cnt : Int, min : Int, best : Nat]
    BY <1>1 DEF ScanHolds
  <1>9. /\ scan'.type = scan.type /\ scan'.obj = scan.obj /\ scan'.at = scan.at
        /\ scan'.best = scan.best /\ scan'.term = scan.term + 1 /\ scan'.cnt = scan.cnt + read
    BY <1>3, <1>8
  <1>10. scan' \in [type : Types, obj : IoObjs \cup {NoObj}, at : Nat, term : 1..4,
                    cnt : Int, min : Int, best : Nat]
    <2>1. scan.term + 1 \in 1..4 /\ scan.cnt + read \in Int
      BY <1>2, <1>7, <1>8
    <2> QED
      BY <1>3, <1>8, <2>1
  <1>11. Scanning' /\ Size(DelCache[Counted])' = Size(DelCache[t])
    <2>1. Scanning' /\ Counted' = t /\ DelCache' = DelCache
      BY <1>2, <1>9 DEF Scanning, Counted, copyVars
    <2> QED
      BY <2>1 DEF Size
  <1>12. ScanHolds'
    BY <1>1, <1>2, <1>9, <1>10 DEF ScanHolds
  <1>13. CountCovers'
    <2>1. CASE scan.term = 1
      <3>1. scan.cnt = 0 /\ read = Cardinality(setIoObjs[t])
        BY <1>1, <1>2, <1>6, <2>1 DEF CountCovers
      <3>2. scan'.term = 2 /\ scan'.cnt >= Size(DelCache[t])
        BY <1>5, <1>9, <2>1, <3>1
      <3> QED
        BY <1>11, <3>2 DEF CountCovers
    <2>2. CASE scan.term = 2
      <3>1. scan.cnt >= Size(DelCache[t]) /\ read = Size(AddCache[t])
        BY <1>1, <1>2, <1>6, <2>2 DEF CountCovers
      <3>2. scan'.term = 3 /\ scan'.cnt >= Size(DelCache[t])
        BY <1>5, <1>8, <1>9, <2>2, <3>1
      <3> QED
        BY <1>11, <3>2 DEF CountCovers
    <2>3. CASE scan.term = 3
      <3>1. scan.cnt >= Size(DelCache[t]) /\ read = - Size(DelCache[t])
        BY <1>1, <1>2, <1>6, <2>3 DEF CountCovers
      <3>2. scan'.term = 4 /\ scan'.cnt >= 0
        BY <1>5, <1>8, <1>9, <2>3, <3>1
      <3> QED
        BY <1>11, <3>2 DEF CountCovers
    <2> QED
      BY <1>2, <2>1, <2>2, <2>3
  <1> QED
    BY <1>1, <1>2, <1>9, <1>12, <1>13, CountingKeeps

LEMMA CountNextKeeps ==
  ASSUME EngineInv, CountNext
  PROVE  Kept'
  <1>1. Kept /\ VectorsHold /\ ScanHolds
    BY DEF EngineInv, Kept
  <1>2. /\ Scanning /\ HaveCount /\ ~ LastOne
        /\ UNCHANGED copyVars /\ UNCHANGED <<engine, vec, indx, taskId, client>>
    BY DEF CountNext, HaveCount, copyVars, epollVars, sharedVars, taskVars, engineVars
  <1> DEFINE least == IF scan.min > scan.cnt \/ scan.at = 0 THEN scan.cnt ELSE scan.min
  <1>3. scan' = [scan EXCEPT !.at = @ + 1, !.term = 1, !.cnt = 0, !.best = Best, !.min = least]
    BY DEF CountNext
  <1>4. scan \in [type : Types, obj : IoObjs \cup {NoObj}, at : Nat, term : 1..4,
                  cnt : Int, min : Int, best : Nat]
    BY <1>1 DEF ScanHolds
  <1>5. least \in Int /\ Best \in 1..Len(vec[scan.type])
    BY <1>1, <1>2, <1>4, BestIsThere
  <1> HIDE DEF least
  <1>6. /\ scan'.type = scan.type /\ scan'.obj = scan.obj /\ scan'.at = scan.at + 1
        /\ scan'.best = Best /\ scan'.term = 1 /\ scan'.cnt = 0
    BY <1>3, <1>4
  <1>7. scan' \in [type : Types, obj : IoObjs \cup {NoObj}, at : Nat, term : 1..4,
                   cnt : Int, min : Int, best : Nat]
    <2>1. Best \in Nat /\ scan.at + 1 \in Nat
      BY <1>4, <1>5
    <2> DEFINE R == [type : Types, obj : IoObjs \cup {NoObj}, at : Nat, term : 1..4,
                     cnt : Int, min : Int, best : Nat]
    <2>2. /\ \A r \in R, a \in Nat : [r EXCEPT !.at = a] \in R
          /\ \A r \in R, b \in Nat : [r EXCEPT !.best = b] \in R
          /\ \A r \in R, c \in Int : [r EXCEPT !.cnt = c] \in R
          /\ \A r \in R, m \in Int : [r EXCEPT !.min = m] \in R
      OBVIOUS
    <2>3. \A r \in R, n \in 1..4 : [r EXCEPT !.term = n] \in R
      OBVIOUS
    <2>4. 0 \in Int /\ 1 \in 1..4
      OBVIOUS
    <2>5. scan' = [[[[[scan EXCEPT !.at = scan.at + 1] EXCEPT !.term = 1]
                           EXCEPT !.cnt = 0] EXCEPT !.best = Best] EXCEPT !.min = least]
      BY <1>3
    <2>6. scan \in R
      BY <1>4
    <2> HIDE DEF R
    <2>7. scan' \in R
      BY <1>5, <2>1, <2>2, <2>3, <2>4, <2>5, <2>6
    <2> QED
      BY <2>7 DEF R
  <1>8. scan.at + 1 \in 0..Len(vec[scan.type])
    <2>1. scan.at \in 0..Len(vec[scan.type]) /\ Len(vec[scan.type]) \in Nat
      BY <1>1, <1>2, <1>4, VectorFacts DEF ScanHolds
    <2>2. scan.at = 0 \/ scan.at # Len(vec[scan.type])
      BY <1>2, <2>1 DEF LastOne
    <2> QED
      BY <1>5, <2>1, <2>2
  <1>9. ScanHolds'
    BY <1>1, <1>2, <1>5, <1>6, <1>7, <1>8 DEF ScanHolds
  <1>10. CountCovers'
    BY <1>6 DEF CountCovers
  <1> QED
    BY <1>1, <1>2, <1>6, <1>9, <1>10, CountingKeeps

LEMMA AddIoObjToTaskKeeps ==
  ASSUME EngineInv, AddIoObjToTask
  PROVE  Kept'
  <1> SUFFICES ASSUME NEW k, NEW o, NEW n, NEW t,
                      k = scan.type, o = scan.obj, n = Best, t = vec[k][n]
               PROVE  Kept'
    OBVIOUS
  <1>1. Kept /\ Typed /\ VectorsHold /\ ScanHolds /\ IdsInRange /\ StandsAsTold
    BY DEF EngineInv, Kept
  <1>2. /\ k \in Types /\ o \in IoObjs /\ n \in 1..Len(vec[k]) /\ t \in IoTasks
        /\ Scanning /\ client[k][o] = "adding"
    BY <1>1, BestIsThere DEF AddIoObjToTask, HaveCount, ScanHolds
  <1>3. /\ taskId' = [taskId EXCEPT ![k][o] = indx[t]]
        /\ AddCache' = [AddCache EXCEPT ![t][o] = @ + 1]
        /\ ~ Scanning' /\ scan' = NoScan
        /\ UNCHANGED <<DelCache, vecTmp, setIoObjs, phase, cur, vec, indx, client>>
    BY DEF AddIoObjToTask, AddIoObj, Unlock, Scanning, taskVars
  <1>3a. UNCHANGED <<DelCache, vecTmp, setIoObjs, phase, cur>>
    BY <1>3
  <1>4. indx[t] = n - 1
    BY <1>1, <1>2 DEF VectorsHold
  <1>5. ~ Placed(k, o) /\ Placed(k, o)'
    BY <1>2, <1>3 DEF Placed, Waiting
  <1>6. \A j \in Types, p \in IoObjs : j # k \/ p # o => (Placed(j, p)' <=> Placed(j, p))
    BY <1>2, <1>3 DEF Placed, Waiting
  <1>7. /\ taskId'[k][o] = n - 1
        /\ \A j \in Types, p \in IoObjs : j # k \/ p # o => taskId'[j][p] = taskId[j][p]
    <2>1. taskId \in [Types -> [IoObjs -> Nat]]
      BY <1>1 DEF Typed, ClientsTyped
    <2> QED
      BY <1>2, <1>3, <1>4, <2>1
  <1>8. /\ AddCache'[t][o] = AddCache[t][o] + 1
        /\ \A u \in IoTasks, p \in IoObjs : u # t \/ p # o => AddCache'[u][p] = AddCache[u][p]
    <2>1. AddCache \in [IoTasks -> [IoObjs -> Nat]]
      BY <1>1 DEF Typed, EpollTypeOK
    <2> QED
      BY <1>2, <1>3, <2>1
  <1>9. t = vec[k][n]
    OBVIOUS
  <1>10. n \in Int
    BY <1>2
  <1>11. \A u \in IoTasks, j \in Types, p \in IoObjs :
           j # k \/ p # o => (Where(u, j, p)' <=> Where(u, j, p))
    BY <1>3, <1>6, <1>7 DEF Where
  <1>12. \A u \in IoTasks : ~ Where(u, k, o) /\ (Where(u, k, o)' <=> u = t)
    BY <1>3, <1>5, <1>7, <1>9, <1>10 DEF Where
  <1>13. \A j \in Types : ~ Where(t, j, o)
    <2> SUFFICES ASSUME NEW j \in Types, Where(t, j, o) PROVE FALSE
      OBVIOUS
    <2>1. taskId[j][o] + 1 \in 1..Len(vec[j]) /\ vec[j][taskId[j][o] + 1] = t
      BY <1>1, <1>2 DEF IdsInRange, Where
    <2>2. j = k
      BY <1>2, <1>9, <2>1, OnePlaceEach, <1>1
    <2> QED
      BY <1>12, <2>2, <1>2
  <1>14. Stands(t, o, "adding")'
    <2>1. Stands(t, o, "out")
      BY <1>1, <1>2, <1>13 DEF StandsAsTold, StandsAsToldAt
    <2> QED
      <3>1. Copies(t, o, 0, 0, 0, FALSE) /\ o \notin setIoObjs[t]
        BY <2>1 DEF Stands, OutAt
      <3>2. Copies(t, o, 1, 0, 0, FALSE)' /\ (o \notin setIoObjs[t])'
        BY <1>3a, <1>8, <3>1 DEF Copies
      <3> QED
        BY <3>2 DEF Stands, AddingAt
  <1>15. \A u \in IoTasks, p \in IoObjs :
           u # t \/ p # o => \A c : Stands(u, p, c) => Stands(u, p, c)'
    <2> SUFFICES ASSUME NEW u \in IoTasks, NEW p \in IoObjs, u # t \/ p # o,
                        NEW c, Stands(u, p, c)
                 PROVE  Stands(u, p, c)'
      OBVIOUS
    <2>1. AddCache'[u][p] = AddCache[u][p]
      BY <1>8
    <2> QED
      BY <1>3a, <2>1 DEF Stands, OutAt, InAt, AddingAt, DelingAt, Copies
  <1>16. StandsAsTold'
    <2>1. \A u \in IoTasks, j \in Types, p \in IoObjs :
            u # t \/ j # k \/ p # o => (Where(u, j, p)' <=> Where(u, j, p))
      BY <1>11, <1>12
    <2>2. client'[k][o] = "adding"
      BY <1>2, <1>3
    <2>3. Stands(t, o, client[k][o])'
      BY <1>14, <2>2 DEF Stands
    <2> QED
      BY <1>1, <1>2, <1>3, <1>12, <1>13, <1>15, <2>1, <2>3, StandsMoves
  <1>17. IdsInRange'
    <2>1. ASSUME NEW j \in Types, NEW p \in IoObjs, Placed(j, p)'
          PROVE  taskId'[j][p] + 1 \in 1..Len(vec'[j])
      <3>1. CASE j = k /\ p = o
        BY <1>2, <1>3, <1>7, <1>10, <3>1
      <3>2. CASE j # k \/ p # o
        BY <1>1, <1>3, <1>6, <1>7, <2>1, <3>2 DEF IdsInRange
      <3> QED
        BY <3>1, <3>2
    <2> QED
      BY <2>1 DEF IdsInRange
  <1>18. ScanHolds' /\ CountCovers'
    BY <1>3 DEF ScanHolds, CountCovers, NoScan, Types
  <1>19. VectorsHold' /\ PhasesHold'
    BY <1>1, <1>3 DEF Kept, VectorsHold, Made, PhasesHold
  <1> QED
    BY <1>16, <1>17, <1>18, <1>19 DEF Kept

-----------------------------------------------------------------------------
(* del_endpoint and the threads of the tasks.                              *)

LEMMA DelEndpointKeeps ==
  ASSUME EngineInv, NEW k \in Types, NEW o \in IoObjs, DelEndpoint(k, o)
  PROVE  Kept'
  <1> SUFFICES ASSUME NEW t, t = vec[k][taskId[k][o] + 1] PROVE Kept'
    OBVIOUS
  <1>1. Kept /\ Typed /\ VectorsHold /\ ScanHolds /\ IdsInRange /\ StandsAsTold
    BY DEF EngineInv, Kept
  <1>2. t \in IoTasks /\ Where(t, k, o) /\ client[k][o] = "in" /\ ~ Scanning
    BY DeletedIsPlaced DEF Where
  <1>3. /\ DelCache' = [DelCache EXCEPT ![t][o] = @ + 1]
        /\ client' = [client EXCEPT ![k][o] = "deling"]
        /\ UNCHANGED <<AddCache, vecTmp, setIoObjs, phase, cur>>
        /\ UNCHANGED <<engine, vec, indx, taskId, scan>>
    BY DEF DelEndpoint, DelIoObj, taskVars, engineVars
  <1>4. ~ Scanning'
    BY <1>2, <1>3 DEF Scanning
  <1>5. /\ client'[k][o] = "deling"
        /\ \A j \in Types, p \in IoObjs : j # k \/ p # o => client'[j][p] = client[j][p]
    BY <1>1, <1>3 DEF Typed, ClientsTyped
  <1>6. /\ DelCache'[t][o] = DelCache[t][o] + 1
        /\ \A u \in IoTasks, p \in IoObjs : u # t \/ p # o => DelCache'[u][p] = DelCache[u][p]
    <2>1. DelCache \in [IoTasks -> [IoObjs -> Nat]]
      BY <1>1 DEF Typed, EpollTypeOK
    <2> QED
      BY <1>2, <1>3, <2>1
  <1>7. \A j \in Types, p \in IoObjs : Placed(j, p)' <=> Placed(j, p)
    BY <1>2, <1>4, <1>5 DEF Placed, Waiting
  <1>8. \A u \in IoTasks, j \in Types, p \in IoObjs : Where(u, j, p)' <=> Where(u, j, p)
    BY <1>3, <1>7 DEF Where
  <1>9. /\ \A j \in Types : j # k => ~ Where(t, j, o)
        /\ \A u \in IoTasks : u # t => ~ Where(u, k, o)
    BY <1>1, <1>2, OneWhere
  <1>9a. UNCHANGED <<AddCache, vecTmp, setIoObjs, phase, cur>>
    BY <1>3
  <1>10. Stands(t, o, "deling")'
    <2>1. Stands(t, o, "in")
      <3>1. Stands(t, o, client[k][o])
        BY <1>1, <1>2 DEF StandsAsTold, StandsAsToldAt
      <3> QED
        BY <1>2, <3>1 DEF Stands
    <2> QED
      <3>1. Copies(t, o, 0, 0, 0, FALSE) /\ o \in setIoObjs[t]
        BY <2>1 DEF Stands, InAt
      <3>2. Copies(t, o, 0, 1, 0, FALSE)' /\ (o \in setIoObjs[t])'
        BY <1>6, <1>9a, <3>1 DEF Copies
      <3> QED
        BY <3>2 DEF Stands, DelingAt
  <1>11. \A u \in IoTasks, p \in IoObjs :
           u # t \/ p # o => \A c : Stands(u, p, c) => Stands(u, p, c)'
    <2> SUFFICES ASSUME NEW u \in IoTasks, NEW p \in IoObjs, u # t \/ p # o,
                        NEW c, Stands(u, p, c)
                 PROVE  Stands(u, p, c)'
      OBVIOUS
    <2>1. DelCache'[u][p] = DelCache[u][p]
      BY <1>6
    <2> QED
      BY <1>9a, <2>1 DEF Stands, OutAt, InAt, AddingAt, DelingAt, Copies
  <1>12. Stands(t, o, client[k][o])'
    BY <1>5, <1>10 DEF Stands
  <1>13. StandsAsTold'
    BY <1>1, <1>2, <1>5, <1>8, <1>9, <1>11, <1>12, StandsMoves
  <1>14. ScanHolds' /\ CountCovers'
    BY <1>1, <1>3, <1>4 DEF ScanHolds, CountCovers
  <1>15. VectorsHold' /\ PhasesHold' /\ IdsInRange'
    BY <1>1, <1>3, <1>7 DEF Kept, VectorsHold, Made, PhasesHold, IdsInRange
  <1> QED
    BY <1>13, <1>14, <1>15 DEF Kept

(* A task tells an object that it was deleted, or added.                   *)
LEMMA NotifyKeeps ==
  ASSUME EngineInv, NEW t \in IoTasks, NEW c \in {"out", "in"}, UNCHANGED sharedVars,
         UNCHANGED <<engineVars, threadVars, taskId, scan>>,
         \/ c = "out" /\ NotifyDeled(t)
         \/ c = "in" /\ NotifyAdded(t),
         Notified(t, c)
  PROVE  Kept'
  <1> SUFFICES ASSUME NEW o, o = cur[t] PROVE Kept'
    OBVIOUS
  <1>1. Kept /\ Typed /\ VectorsHold /\ ScanHolds /\ CountCovers /\ IdsInRange /\ StandsAsTold
        /\ PhasesHold
    BY DEF EngineInv, Kept
  <1>2. /\ phase[t] = (IF c = "out" THEN "deled" ELSE "added")
        /\ phase' = [phase EXCEPT ![t] = IF c = "out" THEN "dels" ELSE "adds"]
        /\ cur' = [cur EXCEPT ![t] = NoObj]
        /\ UNCHANGED <<AddCache, DelCache, vecTmp, setIoObjs, engine, vec, indx, taskId, scan>>
    BY DEF NotifyDeled, NotifyAdded, GoTo, sharedVars, engineVars
  <1>3. o \in IoObjs
    BY <1>1, <1>2 DEF PhasesHold
  <1>4. PICK k \in Types : Where(t, k, o) /\ Stands(t, o, client[k][o])
    <2>1. ~ Stands(t, o, "out")
      BY DEF Stands, OutAt, Copies
    <2> QED
      BY <1>1, <1>3, <2>1, StandsSomehow
  <1>5. /\ \A j \in Types : j # k => ~ Where(t, j, o)
        /\ \A u \in IoTasks : u # t => ~ Where(u, k, o)
        /\ TypeOf(t) = k
    BY <1>1, <1>3, <1>4, OneWhere
  <1>6. client' = [client EXCEPT ![k][o] = c]
    BY <1>5 DEF Notified
  <1>7. /\ client'[k][o] = c
        /\ \A j \in Types, p \in IoObjs : j # k \/ p # o => client'[j][p] = client[j][p]
    BY <1>1, <1>3, <1>6 DEF Typed, ClientsTyped
  <1>8. /\ phase'[t] = (IF c = "out" THEN "dels" ELSE "adds") /\ cur'[t] = NoObj
        /\ \A u \in IoTasks : u # t => phase'[u] = phase[u] /\ cur'[u] = cur[u]
    BY <1>1, <1>2 DEF Typed, EpollTypeOK
  <1>9. Placed(k, o) /\ ~ Waiting(k, o) /\ ~ Waiting(k, o)'
    BY <1>2, <1>4 DEF Where, Placed, Waiting, Scanning
  <1>10. \A j \in Types, p \in IoObjs : j # k \/ p # o => (Placed(j, p)' <=> Placed(j, p))
    BY <1>2, <1>7 DEF Placed, Waiting, Scanning
  <1>11. Placed(k, o)' <=> c # "out"
    BY <1>7, <1>9 DEF Placed
  <1>12. \A u \in IoTasks, j \in Types, p \in IoObjs :
           j # k \/ p # o => (Where(u, j, p)' <=> Where(u, j, p))
    BY <1>2, <1>10 DEF Where
  <1>13. \A u \in IoTasks : u # t => ~ Where(u, k, o)'
    BY <1>2, <1>4, <1>5, <1>9 DEF Where
  <1>14. Stands(t, o, c)'
    BY <1>2, <1>3, <1>4, <1>8, NoObjAssumption DEF Stands, OutAt, InAt, AddingAt, DelingAt, Copies
  <1>15. \A u \in IoTasks, p \in IoObjs :
           u # t \/ p # o => \A d : Stands(u, p, d) => Stands(u, p, d)'
    <2> SUFFICES ASSUME NEW u \in IoTasks, NEW p \in IoObjs, u # t \/ p # o,
                        NEW d, Stands(u, p, d)
                 PROVE  Stands(u, p, d)'
      OBVIOUS
    <2>1. CASE u # t
      BY <1>2, <1>8, <2>1 DEF Stands, OutAt, InAt, AddingAt, DelingAt, Copies
    <2>2. CASE u = t
      BY <1>2, <1>8, <2>2, NoObjAssumption DEF Stands, OutAt, InAt, AddingAt, DelingAt, Copies
    <2> QED
      BY <2>1, <2>2
  <1>16. StandsAsTold'
    <2>1. \A u \in IoTasks, j \in Types, p \in IoObjs :
            u # t \/ j # k \/ p # o => (Where(u, j, p)' <=> Where(u, j, p))
      BY <1>5, <1>12, <1>13
    <2>2. Where(t, k, o)' => Stands(t, o, client[k][o])'
      BY <1>7, <1>14 DEF Stands
    <2>3. ~ Where(t, k, o)' => Stands(t, o, "out")'
      <3>1. c # "out" => Where(t, k, o)'
        BY <1>2, <1>4, <1>11 DEF Where
      <3> QED
        BY <1>14, <3>1
    <2> QED
      BY <1>1, <1>3, <1>5, <1>7, <1>15, <2>1, <2>2, <2>3, StandsMoves
  <1>17. ScanHolds'
    <2>1. Scanning => scan.type # k \/ scan.obj # o
      BY <1>9 DEF Waiting
    <2>2. Scanning' <=> Scanning
      BY <1>2 DEF Scanning
    <2>3. scan.type \in Types
      BY <1>1 DEF ScanHolds
    <2> QED
      BY <1>1, <1>2, <1>7, <2>1, <2>2, <2>3 DEF ScanHolds
  <1>18. CountCovers'
    BY <1>1, <1>2 DEF CountCovers, Scanning, Counted, Size
  <1>19. IdsInRange'
    BY <1>1, <1>2, <1>9, <1>10 DEF IdsInRange
  <1>20. PhasesHold'
    BY <1>1, <1>8 DEF PhasesHold
  <1>21. VectorsHold'
    BY <1>1, <1>2 DEF VectorsHold, Made
  <1> QED
    BY <1>16, <1>17, <1>18, <1>19, <1>20, <1>21 DEF Kept

(* Any other step of exec(): it moves copies of objects, none of which     *)
(* comes to stand to the task in another way.                              *)
LEMMA CopiesMove ==
  ASSUME Kept, UNCHANGED <<engine, vec, indx, taskId, client, scan>>,
         \A t \in IoTasks, o \in IoObjs : \A c : Stands(t, o, c) => Stands(t, o, c)',
         PhasesHold', CountCovers'
  PROVE  Kept'
  <1>1. \A j \in Types, p \in IoObjs : Placed(j, p)' <=> Placed(j, p)
    BY DEF Placed, Waiting, Scanning
  <1>2. \A u \in IoTasks, j \in Types, p \in IoObjs : Where(u, j, p)' <=> Where(u, j, p)
    BY <1>1 DEF Where
  <1>3. StandsAsTold'
    BY <1>2, StandsKept DEF Kept
  <1>4. VectorsHold' /\ IdsInRange' /\ ScanHolds'
    BY <1>1 DEF Kept, VectorsHold, Made, IdsInRange, ScanHolds, Scanning
  <1> QED
    BY <1>3, <1>4 DEF Kept

(* exec() finds in m_setIoObjs what it erases, and not what it inserts.    *)
LEMMA FoundWhereExpected ==
  ASSUME EngineInv, NEW t \in IoTasks, NEW o \in IoObjs, vecTmp[t][o] > 0
  PROVE  /\ phase[t] = "dels" => Stands(t, o, "deling") /\ o \in setIoObjs[t]
         /\ phase[t] = "adds" => Stands(t, o, "adding") /\ o \notin setIoObjs[t]
         /\ vecTmp[t][o] = 1
         /\ phase[t] # "top"
  <1>1. PICK c : Stands(t, o, c)
    BY StandsSomehow DEF EngineInv, Kept
  <1> QED
    BY <1>1 DEF Stands, OutAt, InAt, AddingAt, DelingAt, Copies

LEMMA SwapKeeps ==
  ASSUME EngineInv, NEW t \in IoTasks, SwapDelCache(t) \/ SwapAddCache(t) \/ WaitsInVain(t),
         UNCHANGED <<engineVars, threadVars, taskId, scan, client>>
  PROVE  Kept'
  <1>1. Kept /\ Typed /\ StandsAsTold /\ PhasesHold /\ CountCovers /\ VectorsHold /\ ScanHolds
        /\ EpollTypeOK /\ NoCopies = [o \in IoObjs |-> 0]
    BY DEF EngineInv, Kept, Typed, NoCopies
  <1>2. UNCHANGED <<engine, vec, indx, taskId, client, scan>> /\ UNCHANGED setIoObjs
    BY DEF engineVars, SwapDelCache, SwapAddCache, WaitsInVain
  <1>3. \A o \in IoObjs : cur[t] # o /\ vecTmp[t][o] = 0
    <2> SUFFICES ASSUME NEW o \in IoObjs PROVE cur[t] # o /\ vecTmp[t][o] = 0
      OBVIOUS
    <2>1. PICK c : Stands(t, o, c)
      BY <1>1, StandsSomehow
    <2>2. phase[t] \in {"top", "dels", "adds"} /\ (phase[t] # "top" => vecTmp[t][o] = 0)
      BY <1>1 DEF SwapDelCache, SwapAddCache, WaitsInVain
    <2> QED
      BY <2>1, <2>2 DEF Stands, OutAt, InAt, AddingAt, DelingAt, Copies
  <1>4. \A u \in IoTasks : /\ u # t => phase'[u] = phase[u] /\ cur'[u] = cur[u]
                           /\ u # t => AddCache'[u] = AddCache[u] /\ DelCache'[u] = DelCache[u]
                                       /\ vecTmp'[u] = vecTmp[u]
    BY <1>1 DEF SwapDelCache, SwapAddCache, WaitsInVain, GoTo, sharedVars, EpollTypeOK
  <1>5. cur'[t] = NoObj
    BY <1>1 DEF SwapDelCache, SwapAddCache, WaitsInVain, GoTo, EpollTypeOK
  <1>6. \/ /\ phase'[t] = "dels" /\ AddCache'[t] = AddCache[t]
           /\ DelCache'[t] = NoCopies /\ vecTmp'[t] = DelCache[t]
        \/ /\ phase'[t] = "adds" /\ DelCache'[t] = DelCache[t]
           /\ AddCache'[t] = NoCopies /\ vecTmp'[t] = AddCache[t]
        \/ /\ phase'[t] = "top" /\ AddCache'[t] = AddCache[t]
           /\ DelCache'[t] = DelCache[t] /\ vecTmp'[t] = vecTmp[t]
    BY <1>1 DEF SwapDelCache, SwapAddCache, WaitsInVain, GoTo, sharedVars, EpollTypeOK
  <1>7. ASSUME NEW u \in IoTasks, NEW o \in IoObjs, NEW c, Stands(u, o, c)
        PROVE  Stands(u, o, c)'
    <2>1. CASE u # t
      BY <1>2, <1>4, <1>7, <2>1 DEF Stands, OutAt, InAt, AddingAt, DelingAt, Copies
    <2>2. CASE u = t
      <3>1. cur'[t] # o /\ cur[t] # o /\ vecTmp[t][o] = 0 /\ NoCopies[o] = 0
        BY <1>1, <1>3, <1>5, NoObjAssumption
      <3>2. CASE /\ phase'[t] = "dels" /\ AddCache'[t] = AddCache[t]
                 /\ DelCache'[t] = NoCopies /\ vecTmp'[t] = DelCache[t]
        BY <1>2, <1>7, <2>2, <3>1, <3>2 DEF Stands, OutAt, InAt, AddingAt, DelingAt, Copies
      <3>3. CASE /\ phase'[t] = "adds" /\ DelCache'[t] = DelCache[t]
                 /\ AddCache'[t] = NoCopies /\ vecTmp'[t] = AddCache[t]
        BY <1>2, <1>7, <2>2, <3>1, <3>3 DEF Stands, OutAt, InAt, AddingAt, DelingAt, Copies
      <3>4. CASE /\ phase'[t] = "top" /\ AddCache'[t] = AddCache[t]
                 /\ DelCache'[t] = DelCache[t] /\ vecTmp'[t] = vecTmp[t]
        BY <1>2, <1>7, <2>2, <3>1, <3>4 DEF Stands, OutAt, InAt, AddingAt, DelingAt, Copies
      <3> QED
        BY <1>6, <3>2, <3>3, <3>4
    <2> QED
      BY <2>1, <2>2
  <1>8. PhasesHold'
    BY <1>1, <1>4, <1>6 DEF PhasesHold
  <1>9. CountCovers'
    <2> SUFFICES ASSUME Scanning, NEW n, n = Counted PROVE CountCovers'
      BY <1>2 DEF CountCovers, Scanning
    <2>1. Counted' = n /\ scan' = scan
      BY <1>2 DEF Counted
    <2>2. ASSUME scan.term \in {2, 3} PROVE scan.cnt >= Size(DelCache[Counted])'
      <3>1. n \in IoTasks
        <4>1. vec[scan.type] # <<>>
          BY <1>1, <2>2 DEF ScanHolds
        <4> QED
          BY <1>1, <4>1, CountedIsTask
      <3>2. scan.cnt >= Size(DelCache[n]) /\ scan.cnt \in Int
        BY <1>1, <2>2 DEF CountCovers, ScanHolds
      <3>3. Size(DelCache[n]) \in Nat
        BY <1>1, <3>1, Singles
      <3>4. CASE DelCache'[n] = DelCache[n]
        BY <2>1, <3>2, <3>4 DEF Size
      <3>5. CASE DelCache'[n] = NoCopies
        <4>1. Size(DelCache[Counted])' = Size(NoCopies)
          BY <2>1, <3>5 DEF Size, NoCopies
        <4> QED
          BY <3>2, <3>3, <4>1, SizeOfNone
      <3> QED
        BY <1>4, <1>6, <3>1, <3>4, <3>5
    <2> QED
      BY <1>1, <2>1, <2>2 DEF CountCovers
  <1> QED
    BY <1>1, <1>2, <1>7, <1>8, <1>9, CopiesMove

(* exec() takes an object out of its local vector.                         *)
LEMMA TakeKeeps ==
  ASSUME EngineInv, NEW t \in IoTasks, NEW o \in IoObjs, EraseIoObj(t, o) \/ InsertIoObj(t, o),
         UNCHANGED <<engineVars, threadVars, taskId, scan, client>>
  PROVE  Kept' /\ aborted' = aborted
  <1>1. Kept /\ Typed /\ StandsAsTold /\ PhasesHold /\ CountCovers /\ EpollTypeOK
    BY DEF EngineInv, Kept, Typed
  <1>2. UNCHANGED <<engine, vec, indx, taskId, client, scan>> /\ UNCHANGED <<AddCache, DelCache>>
    BY DEF engineVars, EraseIoObj, InsertIoObj
  <1>3. vecTmp[t][o] > 0 /\ vecTmp' = [vecTmp EXCEPT ![t][o] = @ - 1]
    BY DEF EraseIoObj, InsertIoObj, TakeFrom
  <1>4. vecTmp[t][o] = 1
    BY <1>3, FoundWhereExpected
  <1>5. /\ vecTmp'[t][o] = 0
        /\ \A u \in IoTasks, p \in IoObjs : u # t \/ p # o => vecTmp'[u][p] = vecTmp[u][p]
    BY <1>1, <1>3, <1>4 DEF EpollTypeOK
  <1>6. \/ /\ phase[t] = "dels" /\ phase'[t] = "deled" /\ setIoObjs'[t] = setIoObjs[t] \ {o}
           /\ aborted' = IF o \in setIoObjs[t] THEN aborted ELSE "erase"
        \/ /\ phase[t] = "adds" /\ phase'[t] = "added" /\ setIoObjs'[t] = setIoObjs[t] \cup {o}
           /\ aborted' = IF o \in setIoObjs[t] THEN "insert" ELSE aborted
    BY <1>1 DEF EraseIoObj, InsertIoObj, TakeFrom, GoTo, EpollTypeOK
  <1>7. cur'[t] = o
    BY <1>1 DEF EraseIoObj, InsertIoObj, GoTo, EpollTypeOK
  <1>8. \A u \in IoTasks : u # t => /\ phase'[u] = phase[u] /\ cur'[u] = cur[u]
                                    /\ setIoObjs'[u] = setIoObjs[u]
    BY <1>1 DEF EraseIoObj, InsertIoObj, GoTo, EpollTypeOK
  <1>9. aborted' = aborted
    BY <1>3, <1>6, FoundWhereExpected
  <1>10. ASSUME NEW u \in IoTasks, NEW p \in IoObjs, NEW c, Stands(u, p, c)
         PROVE  Stands(u, p, c)'
    <2>1. CASE u # t
      BY <1>2, <1>5, <1>8, <1>10, <2>1 DEF Stands, OutAt, InAt, AddingAt, DelingAt, Copies
    <2>2. CASE u = t /\ p # o
      <3>1. vecTmp'[u][p] = vecTmp[u][p] /\ cur'[u] # p /\ (p \in setIoObjs'[u] <=> p \in setIoObjs[u])
        BY <1>5, <1>6, <1>7, <2>2
      <3>2. cur[u] # p
        BY <1>6, <1>10, <2>2 DEF Stands, OutAt, InAt, AddingAt, DelingAt, Copies
      <3> QED
        BY <1>2, <1>6, <1>10, <2>2, <3>1, <3>2 DEF Stands, OutAt, InAt, AddingAt, DelingAt, Copies
    <2>3. CASE u = t /\ p = o
      BY <1>2, <1>4, <1>5, <1>6, <1>7, <1>10, <2>3
         DEF Stands, OutAt, InAt, AddingAt, DelingAt, Copies
    <2> QED
      BY <2>1, <2>2, <2>3
  <1>11. PhasesHold'
    BY <1>1, <1>6, <1>7, <1>8 DEF PhasesHold
  <1>12. CountCovers'
    BY <1>1, <1>2 DEF CountCovers, Scanning, Counted, Size
  <1> QED
    BY <1>1, <1>2, <1>9, <1>10, <1>11, <1>12, CopiesMove

-----------------------------------------------------------------------------
(* The invariant.                                                          *)

LEMMA InitEstablishes == Init => EngineInv
  <1> SUFFICES ASSUME Init PROVE EngineInv
    OBVIOUS
  <1>1. Typed
    BY DEF Init, EpollInit, NoCopies, Typed, EpollTypeOK, AbortedTyped, EngineTyped, ThreadsTyped,
           ClientsTyped, Phases
  <1>2. /\ vec = [k \in Types |-> <<>>] /\ threads = <<>> /\ engine.op = "none"
        /\ scan = NoScan
    BY DEF Init
  <1>3. VectorsHold /\ threads \in Seq(IoTasks \cup {Misc})
    <2>1. "IT" \in Types /\ "OT" \in Types
      BY DEF Types
    <2>2. \A k \in Types : vec[k] = <<>> /\ Len(vec[k]) = 0
      BY <1>2
    <2>3. vec \in [Types -> Seq(IoTasks)]
      BY <1>2
    <2>4. threads \in Seq(IoTasks \cup {Misc})
      BY <1>2
    <2> QED
      BY <2>1, <2>2, <2>3, <2>4 DEF VectorsHold
  <1>4. NumbersLast /\ ScanHolds /\ CountCovers
    BY <1>2 DEF NumbersLast, Starting, ScanHolds, CountCovers, Scanning, NoScan, Types
  <1>5. \A k \in Types, o \in IoObjs : ~ Placed(k, o)
    BY DEF Init, Placed
  <1>6. \A t \in IoTasks, o \in IoObjs : Stands(t, o, "out")
    BY NoObjAssumption DEF Init, EpollInit, NoCopies, Stands, OutAt, Copies
  <1>7. StandsAsTold /\ IdsInRange
    BY <1>5, <1>6 DEF StandsAsTold, StandsAsToldAt, Where, IdsInRange
  <1>8. PhasesHold /\ aborted \notin {"erase", "insert"}
    BY DEF Init, EpollInit, PhasesHold
  <1> QED
    BY <1>1, <1>3, <1>4, <1>7, <1>8 DEF EngineInv, Kept

(* Who holds the mutex after a step of the engine.                         *)
LEMMA HolderAfter ==
  ASSUME EngineTyped
  PROVE  /\ \A op : Lock(op) => engine.op = "none" /\ engine'.op = op
         /\ \A state : Unlock(state) => engine'.op = "none"
         /\ StopWait => engine.op = "stop" /\ engine'.op = "stop"
  <1>1. ASSUME NEW op, Lock(op) PROVE engine.op = "none" /\ engine'.op = op
    <2>1. engine' = [[engine EXCEPT !.op = op] EXCEPT !.pos = 1] /\ engine.op = "none"
      BY <1>1 DEF Lock
    <2>2. \A e \in [state : {"STOPPED", "STARTED"}, op : {op}, pos : Nat], p \in Nat :
            [e EXCEPT !.pos = p].op = e.op
      OBVIOUS
    <2>3. /\ [engine EXCEPT !.op = op].op = op
          /\ [engine EXCEPT !.op = op] \in [state : {"STOPPED", "STARTED"}, op : {op}, pos : Nat]
      BY DEF EngineTyped
    <2> QED
      BY <2>1, <2>2, <2>3
  <1>2. \A state : Unlock(state) => engine'.op = "none"
    BY DEF Unlock
  <1>3. StopWait => engine.op = "stop" /\ engine'.op = "stop"
    BY DEF EngineTyped, StopWait, Stopping
  <1> QED
    BY <1>1, <1>2, <1>3

(* The vector of threads, and the numbers left for tasks.                  *)
LEMMA NumbersKept ==
  ASSUME EngineInv, Next
  PROVE  threads' \in Seq(IoTasks \cup {Misc}) /\ NumbersLast'
  <1>1. /\ threads \in Seq(IoTasks \cup {Misc}) /\ NumbersLast /\ VectorsHold /\ EngineTyped
        /\ Made \in Nat
    BY VectorFacts DEF EngineInv, Kept, Typed
  <1>2. CASE Start
    <2>1. /\ engine'.op = "start" /\ engine'.pos = 1 /\ UNCHANGED <<vec, threads>>
          /\ Made + OutputThreadCnt + InputThreadCnt <= TaskCnt
      BY <1>1, <1>2 DEF Start, Lock, EngineTyped, TaskCnt
    <2>2. 1 \in 1..AllIoTasks + 1 /\ Made + AllIoTasks + 1 - 1 <= TaskCnt
      BY <1>1, <2>1, CountsAreNumbers DEF AllIoTasks
    <2> QED
      BY <1>1, <2>1, <2>2 DEF NumbersLast, Made
  <1>3. CASE StartIoTask
    <2>1. Made' = Made + 1 /\ Made + 1 \in IoTasks
      BY <1>3, VectorsGrow
    <2>2. /\ threads' = Append(threads, Made + 1) /\ engine' = [engine EXCEPT !.pos = @ + 1]
          /\ Starting /\ engine.pos <= AllIoTasks
      BY <1>3 DEF StartIoTask
    <2>3. threads' \in Seq(IoTasks \cup {Misc})
      BY <1>1, <2>1, <2>2
    <2>4. engine'.op = engine.op /\ engine'.pos = engine.pos + 1
      BY <1>1, <2>2 DEF EngineTyped
    <2>5. engine.pos \in 1..AllIoTasks + 1 /\ Made + AllIoTasks + 1 - engine.pos <= TaskCnt
      BY <1>1, <2>2 DEF NumbersLast
    <2>6. /\ engine'.pos \in 1..AllIoTasks + 1
          /\ Made' + AllIoTasks + 1 - engine'.pos <= TaskCnt
      <3>1. AllIoTasks \in Nat /\ TaskCnt \in Nat
        BY CountsAreNumbers
      <3>2. engine.pos \in Nat /\ 1 <= engine.pos /\ engine.pos <= AllIoTasks
        BY <2>2, <2>5, <3>1
      <3>3. engine.pos + 1 \in 1..AllIoTasks + 1
        BY <3>1, <3>2
      <3>4. (Made + 1) + AllIoTasks + 1 - (engine.pos + 1) = Made + AllIoTasks + 1 - engine.pos
        BY <1>1, <3>1, <3>2
      <3> QED
        BY <2>1, <2>4, <2>5, <3>3, <3>4
    <2> QED
      BY <2>3, <2>6 DEF NumbersLast
  <1>4. CASE StartMiscTask
    <2>1. threads' = Append(threads, Misc) /\ ~ Starting'
      BY <1>4 DEF StartMiscTask, Unlock, Starting
    <2> QED
      BY <1>1, <2>1 DEF NumbersLast
  <1>5. CASE Stop \/ StopWait \/ CreateObjFails \/ MiscInitFails \/ AddIoObjToTask
             \/ \E k \in Types, o \in IoObjs : AddEndpoint(k, o)
    <2>1. ~ Starting' /\ UNCHANGED threads
      <3>1. \/ Lock("stop") \/ Lock("scan") \/ StopWait
            \/ \E state : Unlock(state)
        BY <1>5 DEF Stop, CreateObjFails, MiscInitFails, AddIoObjToTask, AddEndpoint
      <3>2. engine'.op \in {"none", "stop", "scan"}
        BY <1>1, <3>1, HolderAfter
      <3>3. UNCHANGED threads
        BY <1>5 DEF Stop, StopWait, CreateObjFails, MiscInitFails, AddIoObjToTask, AddEndpoint
      <3> QED
        BY <3>2, <3>3 DEF Starting
    <2> QED
      BY <1>1, <2>1 DEF NumbersLast
  <1>6. CASE \/ TimerCall \/ EpollCreateFails \/ ResetTaskAgain \/ NoTasks \/ ReadTerm \/ CountNext
             \/ \E k \in Types, o \in IoObjs : DelEndpoint(k, o)
             \/ \E t \in IoTasks : ThreadStep(t)
    <2>1. UNCHANGED <<engine, vec, threads>>
      BY <1>6 DEF TimerCall, EpollCreateFails, ResetTaskAgain, NoTasks, ReadTerm, CountNext,
                  DelEndpoint, ThreadStep, ThreadTests, ThreadCalls, TaskReturns, TaskExec, engineVars
    <2> QED
      BY <1>1, <2>1 DEF NumbersLast, Starting, Made
  <1> QED
    BY <1>2, <1>3, <1>4, <1>5, <1>6 DEF Next, EngineStep

LEMMA NextPreserves ==
  ASSUME EngineInv, Next
  PROVE  Typed' /\ Kept' /\ aborted' \notin {"erase", "insert"}
  <1>1. Kept /\ aborted \notin {"erase", "insert"}
    BY DEF EngineInv
  <1>2. CASE \/ Start \/ StartMiscTask \/ CreateObjFails \/ MiscInitFails
             \/ Stop \/ StopWait
    <2>1. /\ UNCHANGED epollVars /\ UNCHANGED <<vec, indx, taskId, client, scan>>
          /\ (Scanning' <=> Scanning)
      <3>1. EngineTyped
        BY DEF EngineInv, Typed
      <3>2. /\ UNCHANGED epollVars /\ UNCHANGED <<vec, indx, taskId, client, scan>>
        BY <1>2 DEF Start, StartMiscTask, CreateObjFails, MiscInitFails, Stop, StopWait, clientVars
      <3>3. engine.op \in {"none", "start", "stop"} /\ engine'.op \in {"none", "start", "stop"}
        BY <1>2, <3>1, HolderAfter DEF Start, StartMiscTask, CreateObjFails, MiscInitFails, Stop,
                                       Starting
      <3> QED
        BY <3>2, <3>3 DEF Scanning
    <2>2. UNCHANGED copyVars /\ UNCHANGED aborted
      BY <2>1 DEF copyVars, epollVars, sharedVars, taskVars
    <2> QED
      BY <1>1, <1>2, <2>1, <2>2, QuietStep, TypedByStarting, TypedByStopping
  <1>3. CASE TimerCall \/ EpollCreateFails \/ ResetTaskAgain \/ NoTasks
    <2>1. /\ UNCHANGED copyVars /\ UNCHANGED <<vec, indx, taskId, client, scan>>
          /\ (Scanning' <=> Scanning) /\ aborted' \in {"timer", "destroy", "reset", "notask"}
      BY <1>3 DEF TimerCall, EpollCreateFails, ResetTaskAgain, NoTasks, Dies, Scanning, copyVars,
                  taskVars, engineVars, clientVars
    <2> QED
      BY <1>1, <1>3, <2>1, QuietStep, TypedByDying
  <1>4. CASE StartIoTask
    <2>1. UNCHANGED aborted
      BY <1>4 DEF StartIoTask, epollVars, sharedVars
    <2> QED
      BY <1>1, <1>4, <2>1, StartIoTaskKeeps, TypedByStarting
  <1>5. CASE ReadTerm \/ CountNext \/ AddIoObjToTask
    <2>1. UNCHANGED aborted
      BY <1>5 DEF ReadTerm, CountNext, AddIoObjToTask, epollVars, sharedVars
    <2> QED
      BY <1>1, <1>5, <2>1, ReadTermKeeps, CountNextKeeps, AddIoObjToTaskKeeps, TypedByCalls
  <1>6. ASSUME NEW k \in Types, NEW o \in IoObjs, AddEndpoint(k, o) \/ DelEndpoint(k, o)
        PROVE  Typed' /\ Kept' /\ aborted' \notin {"erase", "insert"}
    <2>1. UNCHANGED aborted
      BY <1>6 DEF AddEndpoint, DelEndpoint, epollVars, sharedVars
    <2> QED
      BY <1>1, <1>6, <2>1, AddEndpointKeeps, DelEndpointKeeps, TypedByCalls
  <1>7. ASSUME NEW t \in IoTasks, ThreadTests(t) \/ ThreadCalls(t) \/ TaskReturns(t)
        PROVE  Typed' /\ Kept' /\ aborted' \notin {"erase", "insert"}
    <2>1. /\ UNCHANGED copyVars /\ UNCHANGED <<vec, indx, taskId, client, scan>>
          /\ (Scanning' <=> Scanning) /\ (aborted' = aborted \/ aborted' = "nulltask")
      BY <1>7 DEF ThreadTests, ThreadCalls, TaskReturns, Dies, Scanning, copyVars, epollVars,
                  sharedVars, taskVars, engineVars, clientVars
    <2> QED
      BY <1>1, <1>7, <2>1, QuietStep, TypedByThreads
  <1>8. ASSUME NEW t \in IoTasks, TaskExec(t)
        PROVE  Typed' /\ Kept' /\ aborted' \notin {"erase", "insert"}
    <2>1. Typed' /\ UNCHANGED <<engineVars, threadVars, taskId, scan>>
      BY <1>8, TypedByTask DEF TaskExec
    <2>2. CASE /\ SwapDelCache(t) \/ SwapAddCache(t) \/ WaitsInVain(t)
               /\ UNCHANGED client
      <3>1. UNCHANGED aborted
        BY <2>2 DEF SwapDelCache, SwapAddCache, WaitsInVain, sharedVars
      <3> QED
        BY <1>1, <2>1, <2>2, <3>1, SwapKeeps
    <2>3. ASSUME NEW o \in IoObjs, EraseIoObj(t, o) \/ InsertIoObj(t, o), UNCHANGED client
          PROVE  Typed' /\ Kept' /\ aborted' \notin {"erase", "insert"}
      BY <1>1, <2>1, <2>3, TakeKeeps
    <2>4. CASE \/ NotifyDeled(t) /\ Notified(t, "out") /\ UNCHANGED sharedVars
               \/ NotifyAdded(t) /\ Notified(t, "in") /\ UNCHANGED sharedVars
      <3>1. Kept'
        BY <2>1, <2>4, NotifyKeeps
      <3>2. UNCHANGED aborted
        BY <2>4 DEF sharedVars
      <3> QED
        BY <1>1, <2>1, <3>1, <3>2
    <2> QED
      BY <1>8, <2>2, <2>3, <2>4 DEF TaskExec
  <1> QED
    BY <1>2, <1>3, <1>4, <1>5, <1>6, <1>7, <1>8 DEF Next, EngineStep, ThreadStep

LEMMA StutterPreserves ==
  ASSUME EngineInv, UNCHANGED vars
  PROVE  EngineInv'
  <1>1. /\ UNCHANGED copyVars /\ UNCHANGED <<vec, indx, taskId, client, scan, engine, threads, aborted>>
        /\ UNCHANGED epollVars /\ UNCHANGED threadVars /\ UNCHANGED miscTask
    BY DEF vars, copyVars, epollVars, sharedVars, taskVars, engineVars, clientVars
  <1>2. Kept'
    BY <1>1, QuietStep DEF EngineInv, Scanning
  <1>3. Typed'
    BY <1>1, TypedKept DEF EngineInv, Typed
  <1>4. threads' \in Seq(IoTasks \cup {Misc}) /\ NumbersLast' /\ aborted' \notin {"erase", "insert"}
    BY <1>1 DEF EngineInv, NumbersLast, Starting, Made
  <1> QED
    BY <1>2, <1>3, <1>4 DEF EngineInv

(* Where the objects are, and what add_endpoint has read.                  *)
THEOREM Invariance == Spec => []EngineInv
  <1>1. ASSUME EngineInv, [Next]_vars PROVE EngineInv'
    <2>1. CASE Next
      <3>1. threads' \in Seq(IoTasks \cup {Misc}) /\ NumbersLast'
        BY <1>1, <2>1, NumbersKept
      <3>2. Typed' /\ Kept' /\ aborted' \notin {"erase", "insert"}
        BY <1>1, <2>1, NextPreserves
      <3> QED
        BY <3>1, <3>2 DEF EngineInv
    <2>2. CASE UNCHANGED vars
      BY <1>1, <2>2, StutterPreserves
    <2> QED
      BY <1>1, <2>1, <2>2
  <1> QED
    BY <1>1, InitEstablishes, PTL DEF Spec

(* Every variable keeps its type: every task that add_endpoint or          *)
(* del_endpoint reaches through a vector is one start() made.              *)
THEOREM TypeCorrect == Spec => []TypeOK
  <1>1. EngineInv => TypeOK
    BY TypesHold DEF EngineInv, Kept
  <1> QED
    BY <1>1, Invariance, PTL

(* add_endpoint, set_indx, del_endpoint: an object is with one task of     *)
(* each kind, the one its task id names, and CEpoll::exec never erases     *)
(* what is not there nor inserts what is.                                  *)
THEOREM HeldAsNamed == Spec => []HeldWhereIdSays
  <1>1. EngineInv => HeldWhereIdSays
    <2> SUFFICES ASSUME EngineInv PROVE HeldWhereIdSays
      OBVIOUS
    <2>1. VectorsHold /\ StandsAsTold /\ IdsInRange /\ Typed /\ EpollTypeOK
      BY DEF EngineInv, Kept, Typed
    <2>2. ASSUME NEW k \in Types, NEW o \in IoObjs, NEW n \in 1..Cardinality(IoTasks),
                 n \in DOMAIN vec[k], Holds(vec[k][n], o)
          PROVE  taskId[k][o] + 1 = n
      <3> SUFFICES ASSUME NEW t, t = vec[k][n] PROVE taskId[k][o] + 1 = n
        OBVIOUS
      <3>1. n \in 1..Len(vec[k]) /\ t \in IoTasks
        <4>1. vec[k] \in Seq(IoTasks)
          BY <2>1 DEF VectorsHold
        <4>2. n \in 1..Len(vec[k])
          BY <2>2, <4>1
        <4> QED
          BY <2>1, <4>2, VectorFacts
      <3>2. ~ Stands(t, o, "out")
        BY <2>2, <3>1 DEF Holds, Stands, OutAt, Copies
      <3>3. PICK j \in Types : Where(t, j, o)
        BY <2>1, <3>1, <3>2, StandsSomehow
      <3>4. taskId[j][o] + 1 \in 1..Len(vec[j]) /\ vec[j][taskId[j][o] + 1] = t
        BY <2>1, <3>1, <3>3 DEF IdsInRange, Where
      <3> QED
        BY <2>1, <3>1, <3>4, OnePlaceEach
    <2> QED
      BY <2>2 DEF HeldWhereIdSays, EngineInv
  <1> QED
    BY <1>1, Invariance, PTL

(* CEpoll::get_ioobj_cnt: the three sizes are read one by one without a    *)
(* lock, and still never add up to less than nothing.                      *)
THEOREM CountCorrect == Spec => []CountNeverWraps
  <1>1. EngineInv => CountNeverWraps
    BY DEF EngineInv, Kept, CountCovers, ScanHolds, HaveCount, CountNeverWraps
  <1> QED
    BY <1>1, Invariance, PTL

=============================================================================
