-------------------------------- MODULE Locks --------------------------------
(***************************************************************************)
(* CRWLock (libcomm_utils/src/utils/rw_lock.h), a lock for readers and     *)
(* writers made of a counting semaphore and a mutex, and the double-       *)
(* checked lock of CSingleton (utils/singleton.h).                         *)
(***************************************************************************)
EXTENDS Naturals, FiniteSets

CONSTANTS Users, uiMaxReaders, NoUser

ASSUME LocksAssumption == uiMaxReaders \in Nat \ {0} /\ NoUser \notin Users

VARIABLES
  m_sem,     (* permits left                                               *)
  m_lock,    (* the mutex: who acquires permits for writing                *)
  user,      (* where each thread is                                       *)
  permits,   (* the permits each thread has taken                          *)
  s_t,       (* the instance of the singleton, by number, 0 is NULL        *)
  instances, (* how many were made                                         *)
  live,      (* those not deleted                                          *)
  deleted,   (* destroy() has deleted *s_t and is about to clear s_t       *)
  caller     (* where each thread is in instance()                         *)

rwVars == <<m_sem, m_lock, user, permits>>
singletonVars == <<s_t, instances, live, deleted, caller>>
lockVars == <<rwVars, singletonVars>>

LocksInit ==
  /\ m_sem = uiMaxReaders /\ m_lock = NoUser
  /\ user = [u \in Users |-> "out"]
  /\ permits = [u \in Users |-> 0]
  /\ s_t = 0 /\ instances = 0 /\ live = {} /\ deleted = FALSE
  /\ caller = [u \in Users |-> "out"]

-----------------------------------------------------------------------------
(* The lock for readers and writers.                                       *)

Acquire(u) ==
  /\ m_sem > 0
  /\ m_sem' = m_sem - 1
  /\ permits' = [permits EXCEPT ![u] = @ + 1]

Release(u) ==
  /\ m_sem' = m_sem + 1
  /\ permits' = [permits EXCEPT ![u] = @ - 1]

LockRead(u) ==
  /\ user[u] = "out"
  /\ Acquire(u)
  /\ user' = [user EXCEPT ![u] = "reading"]
  /\ UNCHANGED m_lock

UnlockRead(u) ==
  /\ user[u] = "reading"
  /\ Release(u)
  /\ user' = [user EXCEPT ![u] = "out"]
  /\ UNCHANGED m_lock

(* lock_write takes the mutex, then every permit, one by one,              *)
LockWrite(u) ==
  /\ user[u] = "out" /\ m_lock = NoUser
  /\ m_lock' = u
  /\ user' = [user EXCEPT ![u] = "acquiring"]
  /\ UNCHANGED <<m_sem, permits>>

AcquireNext(u) ==
  /\ user[u] = "acquiring" /\ permits[u] < uiMaxReaders
  /\ Acquire(u)
  /\ UNCHANGED <<m_lock, user>>

(* Mutation of HasAll: the loop starts at 1.                               *)
HasAllButOne(u) == permits[u] >= uiMaxReaders - 1

HasAll(u) == permits[u] = uiMaxReaders

(* and gives the mutex back.                                               *)
Locked(u) ==
  /\ user[u] = "acquiring" /\ HasAll(u)
  /\ m_lock' = NoUser
  /\ user' = [user EXCEPT ![u] = "writing"]
  /\ UNCHANGED <<m_sem, permits>>

UnlockWrite(u) ==
  /\ user[u] = "writing"
  /\ user' = [user EXCEPT ![u] = "releasing"]
  /\ UNCHANGED <<m_sem, m_lock, permits>>

ReleaseNext(u) ==
  /\ user[u] = "releasing"
  /\ Release(u)
  /\ user' = [user EXCEPT ![u] = IF permits[u] = 1 THEN "out" ELSE @]
  /\ UNCHANGED m_lock

RwNext ==
  /\ \E u \in Users :
       \/ LockRead(u) \/ UnlockRead(u)
       \/ LockWrite(u) \/ AcquireNext(u) \/ Locked(u)
       \/ UnlockWrite(u) \/ ReleaseNext(u)
  /\ UNCHANGED singletonVars

-----------------------------------------------------------------------------
(* CSingleton::instance().                                                 *)

(* The test without the lock.                                              *)
Instance(u) ==
  /\ caller[u] = "out"
  /\ caller' = [caller EXCEPT ![u] = IF s_t # 0 THEN "return" ELSE "lock"]
  /\ UNCHANGED <<s_t, instances, live, deleted>>

(* Under the spin lock, the test again, and the object if there is none.   *)
(* What the lock covers is one step: others only read s_t, once at a time. *)
TestAgain(u) ==
  /\ caller[u] = "lock"
  /\ IF s_t # 0
       THEN UNCHANGED <<s_t, instances, live>>
       ELSE /\ instances' = instances + 1
            /\ s_t' = instances'
            /\ live' = live \cup {instances'}
  /\ caller' = [caller EXCEPT ![u] = "return"]
  /\ UNCHANGED deleted

(* return *s_t reads it once more: destroy() may have cleared it by now.   *)
ReturnInstance(u) ==
  /\ caller[u] = "return"
  /\ caller' = [caller EXCEPT ![u] = IF s_t # 0 THEN "has" ELSE "null"]
  /\ UNCHANGED <<s_t, instances, live, deleted>>

(* destroy(), which atexit() calls, takes no lock: the object is deleted,  *)
DestroyDeletes ==
  /\ s_t # 0 /\ ~ deleted
  /\ live' = live \ {s_t}
  /\ deleted' = TRUE
  /\ UNCHANGED <<s_t, instances, caller>>

(* and s_t cleared.                                                        *)
DestroyClears ==
  /\ deleted
  /\ s_t' = 0
  /\ deleted' = FALSE
  /\ UNCHANGED <<instances, live, caller>>

SingletonNext ==
  /\ \/ \E u \in Users : Instance(u) \/ TestAgain(u) \/ ReturnInstance(u)
     \/ DestroyDeletes \/ DestroyClears
  /\ UNCHANGED rwVars

-----------------------------------------------------------------------------
(* Nobody reads or writes beside a writer; permits are never all gone to   *)
(* threads that wait for more, so that writers do not block one another;   *)
(* and the singleton never has two instances.                              *)
ExclusionHolds ==
  /\ \A u, v \in Users : user[u] = "writing" /\ u # v => user[v] \notin {"reading", "writing"}
  /\ m_sem = 0 => \E u \in Users : \/ user[u] \in {"reading", "writing", "releasing"}
                                   \/ HasAll(u)
  /\ Cardinality(live) <= 1
=============================================================================
