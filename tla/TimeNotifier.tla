----------------------------- MODULE TimeNotifier -----------------------------
(***************************************************************************)
(* CTimeNotifier (libsmart_net/src/framework/sn_time_notifier.cpp), the    *)
(* set of timers of the engine's misc task.  As in Epoll, other threads    *)
(* reach it through two caches, which exec(), called in a loop by the one  *)
(* misc thread, applies before it checks every timer of the set.           *)
(*                                                                         *)
(* The callbacks of a timer belong to the module that EXTENDS this one.  A *)
(* vector is the number of copies of each timer in it.  Time is left out:  *)
(* a timer that is checked may fire or not.                                *)
(***************************************************************************)
EXTENDS Naturals

CONSTANTS
  Timers,   (* the timer objects                                           *)
  NoTimer   (* "no timer's callback is running"                            *)

ASSUME NoTimerAssumption == NoTimer \notin Timers

VARIABLES
  TimerAddCache, (* m_vecTimerAddCache, copies of each timer               *)
  TimerDelCache, (* m_vecTimerDelCache                                     *)
  setTimers,     (* m_setTimers                                            *)
  timerVec,      (* the local vector exec() swapped a cache into           *)
  toCheck,       (* timers the last loop of exec() has not reached yet     *)
  timerPhase,    (* where the misc thread is in exec()                     *)
  timerCur       (* the timer whose callback it is in                      *)

timerCaches == <<TimerAddCache, TimerDelCache>>
timerVars   == <<setTimers, timerVec, toCheck, timerPhase, timerCur>>

TimerPhases == {"top", "dels", "deled", "adds", "added", "check", "on_timer"}

NoTimers == [c \in Timers |-> 0]

TimerTypeOK ==
  /\ TimerAddCache \in [Timers -> Nat]
  /\ TimerDelCache \in [Timers -> Nat]
  /\ setTimers  \subseteq Timers
  /\ timerVec   \in [Timers -> Nat]
  /\ toCheck    \subseteq Timers
  /\ timerPhase \in TimerPhases
  /\ timerCur   \in Timers \cup {NoTimer}

TimerInit ==
  /\ TimerAddCache = NoTimers /\ TimerDelCache = NoTimers
  /\ setTimers = {} /\ timerVec = NoTimers /\ toCheck = {}
  /\ timerPhase = "top" /\ timerCur = NoTimer

(* add_timer, del_timer                                                    *)
AddTimer(c) == TimerAddCache' = [TimerAddCache EXCEPT ![c] = @ + 1]
DelTimer(c) == TimerDelCache' = [TimerDelCache EXCEPT ![c] = @ + 1]

-----------------------------------------------------------------------------
TimerGoTo(p, c) == timerPhase' = p /\ timerCur' = c

SwapTimerDels ==
  /\ timerPhase = "top"
  /\ timerVec' = TimerDelCache /\ TimerDelCache' = NoTimers
  /\ TimerGoTo("dels", NoTimer)
  /\ UNCHANGED <<TimerAddCache, setTimers, toCheck>>

TakeTimer(p, c) ==
  /\ timerPhase = p /\ timerVec[c] > 0
  /\ timerVec' = [timerVec EXCEPT ![c] = @ - 1]

(* The timer leaves m_setTimers, which must have held it, and its          *)
(* handle_del_from_timer_task is called next.                              *)
EraseTimer(c) ==
  /\ TakeTimer("dels", c)
  /\ setTimers' = setTimers \ {c}
  /\ TimerGoTo("deled", c)
  /\ UNCHANGED <<timerCaches, toCheck>>

NotifyTimerDeled ==
  /\ timerPhase = "deled"
  /\ TimerGoTo("dels", NoTimer)
  /\ UNCHANGED <<setTimers, timerVec, toCheck>>

SwapTimerAdds ==
  /\ timerPhase = "dels" /\ timerVec = NoTimers
  /\ timerVec' = TimerAddCache /\ TimerAddCache' = NoTimers
  /\ TimerGoTo("adds", NoTimer)
  /\ UNCHANGED <<TimerDelCache, setTimers, toCheck>>

(* The timer must be new to the set; handle_add_into_timer_task comes next. *)
InsertTimer(c) ==
  /\ TakeTimer("adds", c)
  /\ setTimers' = setTimers \cup {c}
  /\ TimerGoTo("added", c)
  /\ UNCHANGED <<timerCaches, toCheck>>

NotifyTimerAdded ==
  /\ timerPhase = "added"
  /\ TimerGoTo("adds", NoTimer)
  /\ UNCHANGED <<setTimers, timerVec, toCheck>>

(* The time is read once, then every timer of the set is checked.          *)
StartChecks ==
  /\ timerPhase = "adds" /\ timerVec = NoTimers
  /\ toCheck' = setTimers
  /\ TimerGoTo("check", NoTimer)
  /\ UNCHANGED <<timerCaches, setTimers, timerVec>>

(* check(): the interval is over and on_timer() is called, or not.         *)
TimerDue(c) ==
  /\ timerPhase = "check" /\ c \in toCheck
  /\ toCheck' = toCheck \ {c}
  /\ UNCHANGED <<timerCaches, setTimers, timerVec>>

NotDue(c) == TimerDue(c) /\ TimerGoTo("check", NoTimer)

(* on_timer() has returned.                                                *)
TimerReturns ==
  /\ timerPhase = "on_timer"
  /\ TimerGoTo("check", NoTimer)
  /\ UNCHANGED <<setTimers, timerVec, toCheck>>

(* exec() returns and the misc task calls it again.                        *)
TimerExecReturns ==
  /\ timerPhase = "check" /\ toCheck = {}
  /\ TimerGoTo("top", NoTimer)
  /\ UNCHANGED <<timerCaches, setTimers, timerVec, toCheck>>
=============================================================================
