----------------------------- MODULE EventEngine -----------------------------
(***************************************************************************)
(* CEventHandleEngine (libcomm_utils/src/utils/event_engine.cpp): any      *)
(* thread posts events, one thread handles them.  The posts go to a cache  *)
(* under a spin lock; exec() swaps the cache out and handles what it got   *)
(* without the lock, so a handler may post.                                *)
(***************************************************************************)
EXTENDS Sequences, Naturals, SequencesExt

CONSTANTS Events, NoEvent

VARIABLES
  dquecache,  (* m_dquecache                                               *)
  dqueevts,   (* m_dqueevts                                                *)
  lkcache,    (* m_lkcache: the event being pushed under it, or NoEvent    *)
  execPc,     (* where exec() is                                           *)
  iter,       (* its iterator                                              *)
  posted,     (* the events in the order the lock gave them                *)
  handled     (* the events in the order handle() was called               *)

eventVars == <<dquecache, dqueevts, lkcache, execPc, iter, posted, handled>>

EventInit ==
  /\ dquecache = <<>> /\ dqueevts = <<>>
  /\ lkcache = NoEvent
  /\ execPc = "top" /\ iter = 1
  /\ posted = <<>> /\ handled = <<>>

(* post_event: the lock is taken,                                          *)
PostEvent(e) ==
  /\ lkcache = NoEvent
  /\ ~ Contains(posted, e)
  /\ lkcache' = e
  /\ UNCHANGED <<dquecache, dqueevts, execPc, iter, posted, handled>>

(* the event pushed, and the lock given back.                              *)
PushBack ==
  /\ lkcache # NoEvent
  /\ dquecache' = Append(dquecache, lkcache)
  /\ posted' = Append(posted, lkcache)
  /\ lkcache' = NoEvent
  /\ UNCHANGED <<dqueevts, execPc, iter, handled>>

(* exec() tests the cache without the lock: while an event is being pushed *)
(* it may see either state of the deque.                                   *)
ExecFindsSome ==
  /\ execPc = "top"
  /\ dquecache # <<>> \/ lkcache # NoEvent
  /\ execPc' = "swap"
  /\ UNCHANGED <<dquecache, dqueevts, lkcache, iter, posted, handled>>

SwapEvents ==
  /\ execPc = "swap" /\ lkcache = NoEvent
  /\ dqueevts' = dquecache
  /\ dquecache' = dqueevts
  /\ execPc' = "handle" /\ iter' = 1
  /\ UNCHANGED <<lkcache, posted, handled>>

HandleEvent ==
  /\ execPc = "handle" /\ iter <= Len(dqueevts)
  /\ handled' = Append(handled, dqueevts[iter])
  /\ iter' = iter + 1
  /\ UNCHANGED <<dquecache, dqueevts, lkcache, execPc, posted>>

(* Mutation of ClearEvents: the cache is cleared instead.                  *)
ClearsCache ==
  /\ execPc = "handle" /\ iter > Len(dqueevts)
  /\ dquecache' = <<>>
  /\ execPc' = "top" /\ iter' = 1
  /\ UNCHANGED <<dqueevts, lkcache, posted, handled>>

ClearEvents ==
  /\ execPc = "handle" /\ iter > Len(dqueevts)
  /\ dqueevts' = <<>>
  /\ execPc' = "top" /\ iter' = 1
  /\ UNCHANGED <<dquecache, lkcache, posted, handled>>

EventNext ==
  \/ \E e \in Events : PostEvent(e)
  \/ PushBack
  \/ ExecFindsSome
  \/ SwapEvents
  \/ HandleEvent
  \/ ClearEvents

-----------------------------------------------------------------------------
(* Every event that was posted has been handled or waits, none twice, and  *)
(* in the order of the posts; the deque exec() swaps away is empty, as its *)
(* CMN_ASSERT demands.                                                     *)
EventsOnceInOrder ==
  /\ handled \o SubSeq(dqueevts, iter, Len(dqueevts)) \o dquecache = posted
  /\ execPc \in {"top", "swap"} => dqueevts = <<>>
=============================================================================
