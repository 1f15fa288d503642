-------------------------------- MODULE Utils --------------------------------
(***************************************************************************)
(* The utilities of libcomm_utils that the rest of the system stands on.   *)
(* They share no state, so a behaviour exercises one of them, the one      *)
(* `used` names.                                                           *)
(***************************************************************************)
EXTENDS SmartPtr, EventEngine, Locks, SmartRB, SmartLog

VARIABLE used

utilsVars == <<ptrVars, eventVars, lockVars, ringVars, logVars, used>>

UtilsInit ==
  /\ PtrInit /\ EventInit /\ LocksInit /\ RingInit /\ LogInit
  /\ used \in {"ptr", "event", "lock", "singleton", "ring", "log"}

UtilsNext ==
  /\ UNCHANGED used
  /\ \/ used = "ptr"   /\ PtrNext   /\ UNCHANGED <<eventVars, lockVars, ringVars, logVars>>
     \/ used = "event" /\ EventNext /\ UNCHANGED <<ptrVars, lockVars, ringVars, logVars>>
     \/ used = "lock"  /\ RwNext    /\ UNCHANGED <<ptrVars, eventVars, ringVars, logVars>>
     \/ used = "singleton" /\ SingletonNext /\ UNCHANGED <<ptrVars, eventVars, ringVars, logVars>>
     \/ used = "ring"  /\ RingNext  /\ UNCHANGED <<ptrVars, eventVars, lockVars, logVars>>
     \/ used = "log"   /\ LogNext   /\ UNCHANGED <<ptrVars, eventVars, lockVars, ringVars>>

Spec == UtilsInit /\ [][UtilsNext]_utilsVars
=============================================================================
