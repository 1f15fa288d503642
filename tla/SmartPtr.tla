------------------------------- MODULE SmartPtr -------------------------------
(***************************************************************************)
(* CSmartPtr (libcomm_utils/src/utils/smart_ptr.h) and the counter of its  *)
(* objects, ICommonBase (common/base.h), which the atomic operations of    *)
(* utils/atomic.h change.  The counter is the only thing the threads       *)
(* share: a pointer is changed by the thread that owns it, and a thread    *)
(* that copies another's keeps it from changing meanwhile (a lock, or an   *)
(* argument passed by reference).                                          *)
(***************************************************************************)
EXTENDS Integers, FiniteSets

CONSTANTS
  PtrThreads,
  Ptrs,      (* smart pointers: variables, members, elements of a queue    *)
  Objs,      (* the objects; each is made and disposed of at most once     *)
  Null

ASSUME NullAssumption == Null \notin Objs \cup Ptrs

VARIABLES
  m_pObj,    (* m_pObj of each pointer                                     *)
  m_iCnt,    (* the counter of each object                                 *)
  made,      (* the objects that operator new has returned                 *)
  disposed,  (* those that were deleted, each with how often               *)
  op         (* what each thread is in the middle of                       *)

ptrVars == <<m_pObj, m_iCnt, made, disposed, op>>

Idle == [step |-> "none", ptr |-> Null, to |-> Null, from |-> Null]

PtrInit ==
  /\ m_pObj = [p \in Ptrs |-> Null]
  /\ m_iCnt = [o \in Objs |-> 0]
  /\ made = {}
  /\ disposed = [o \in Objs |-> 0]
  /\ op = [t \in PtrThreads |-> Idle]

(* No thread is changing p, and none but readers is using it.              *)
AtRest(p) == \A t \in PtrThreads : op[t].ptr # p
NotCopied(p) == \A t \in PtrThreads : op[t].from # p

(* atomic_increment, atomic_exchange_and_add: one locked instruction.      *)
AtomicIncrement(o) == m_iCnt' = [m_iCnt EXCEPT ![o] = @ + 1]
ExchangeAndAdd(o, dv) == m_iCnt' = [m_iCnt EXCEPT ![o] = @ + dv]

(* Mutation of Differs: operator = does not look at what it points to.     *)
AlwaysDiffers(p, o) == TRUE

(* operator = does nothing when the pointer points there already.          *)
Differs(p, o) == m_pObj[p] # o

(* p = o, where o is what `from` points to, or NULL.  A constructor is the  *)
(* same with p still NULL, and the destructor is p = NULL.                 *)
Assign(t, p, o, from) ==
  /\ op[t] = Idle /\ AtRest(p) /\ NotCopied(p)
  /\ Differs(p, o)
  /\ op' = [op EXCEPT ![t] = [step |-> IF m_pObj[p] = Null THEN "set" ELSE "dec",
                              ptr |-> p, to |-> o, from |-> from]]
  /\ UNCHANGED <<m_pObj, m_iCnt, disposed>>

CopyPtr(t, p, from) ==
  /\ AtRest(from) /\ m_pObj[from] # Null
  /\ Assign(t, p, m_pObj[from], from)
  /\ UNCHANGED made

ResetPtr(t, p) == Assign(t, p, Null, Null) /\ UNCHANGED made

(* A pointer is given what operator new returns.                           *)
PointAtNew(t, p, o) ==
  /\ o \notin made
  /\ made' = made \cup {o}
  /\ Assign(t, p, o, Null)

(* dec_ref of the object: the count that xadd returns says whether this    *)
(* was the last reference; dispose_this_obj() is `delete this`.            *)
DecRef(t) ==
  /\ op[t].step = "dec"
  /\ LET o == m_pObj[op[t].ptr]
     IN /\ ExchangeAndAdd(o, -1)
        /\ disposed' = IF m_iCnt[o] = 1 THEN [disposed EXCEPT ![o] = @ + 1] ELSE disposed
  /\ op' = [op EXCEPT ![t].step = "clear"]
  /\ UNCHANGED <<m_pObj, made>>

(* CSmartPtr::dec_ref forgets the object.                                  *)
ClearPtr(t) ==
  /\ op[t].step = "clear"
  /\ m_pObj' = [m_pObj EXCEPT ![op[t].ptr] = Null]
  /\ op' = [op EXCEPT ![t].step = "set"]
  /\ UNCHANGED <<m_iCnt, made, disposed>>

SetPtr(t) ==
  /\ op[t].step = "set"
  /\ m_pObj' = [m_pObj EXCEPT ![op[t].ptr] = op[t].to]
  /\ op' = [op EXCEPT ![t] = IF op[t].to = Null THEN Idle ELSE [@ EXCEPT !.step = "inc"]]
  /\ UNCHANGED <<m_iCnt, made, disposed>>

(* inc_ref of a pointer that is not NULL.                                  *)
IncRef(t) ==
  /\ op[t].step = "inc"
  /\ AtomicIncrement(op[t].to)
  /\ op' = [op EXCEPT ![t] = Idle]
  /\ UNCHANGED <<m_pObj, made, disposed>>

PtrNext ==
  \E t \in PtrThreads :
    \/ \E p, from \in Ptrs : CopyPtr(t, p, from)
    \/ \E p \in Ptrs : ResetPtr(t, p)
    \/ \E p \in Ptrs, o \in Objs : PointAtNew(t, p, o)
    \/ DecRef(t)
    \/ ClearPtr(t)
    \/ SetPtr(t)
    \/ IncRef(t)

-----------------------------------------------------------------------------
(* The object of a pointer is alive, unless its thread has just given its  *)
(* reference up; and once no pointer names an object and no thread is      *)
(* between steps on it, it has been disposed of, once.                     *)
DisposedWhenUnreferenced ==
  /\ \A p \in Ptrs :
       m_pObj[p] # Null /\ (\A t \in PtrThreads : op[t].ptr = p => op[t].step # "clear")
         => disposed[m_pObj[p]] = 0
  /\ \A o \in made :
       (\A p \in Ptrs : m_pObj[p] # o) /\ (\A t \in PtrThreads : op[t].to # o)
         => disposed[o] = 1
=============================================================================
