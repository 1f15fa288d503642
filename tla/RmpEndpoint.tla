----------------------------- MODULE RmpEndpoint -----------------------------
(***************************************************************************)
(* CRmpEndpoint (libsmart_net/src/smart_net/sn_endpoint_impl.cpp): a       *)
(* reliable multicast endpoint, added to the output task first, then to    *)
(* the input task, and taken out of them in the opposite order.  What its  *)
(* socket does with packets is module Rmp; here the socket is NULL, open   *)
(* or closed.                                                              *)
(***************************************************************************)
EXTENDS Epoll

CONSTANTS
  RmpEps,   (* the multicast endpoints among IoObjs                        *)
  RmpMayFail (* whether calls to the operating system may fail              *)

ASSUME RmpEpsAssumption == RmpEps \subseteq IoObjs /\ RmpMayFail \in BOOLEAN

VARIABLES
  rmpState,   (* m_sm                                                      *)
  rmpPending, (* m_i32SMPendingEvt                                         *)
  rmpSock     (* m_pSock                                                   *)

rmpVars == <<rmpState, rmpPending, rmpSock>>

RmpStates == {"CLOSED", "ADDING_INTO_OT", "ADDING_INTO_IT", "OPENED",
              "DELING_FROM_IT", "DELING_FROM_OT"}

RmpTypeOK ==
  /\ rmpState   \in [RmpEps -> RmpStates]
  /\ rmpPending \in [RmpEps -> {"NONE", "CLOSE", "INTERNAL_ERR"}]
  /\ rmpSock    \in [RmpEps -> {"NULL", "open", "closed"}]

(* The constructor leaves m_i32SMPendingEvt unset: it is whatever was in   *)
(* the memory.  INTERNAL_ERR stands for every value but the other two.     *)
RmpInit ==
  /\ rmpState = [e \in RmpEps |-> "CLOSED"]
  /\ rmpPending \in [RmpEps -> {"NONE", "CLOSE", "INTERNAL_ERR"}]
  /\ rmpSock = [e \in RmpEps |-> "NULL"]

RmpEnter(e, s) == rmpState' = [rmpState EXCEPT ![e] = s]
RmpSetSock(e, s) == rmpSock' = [rmpSock EXCEPT ![e] = s]

-----------------------------------------------------------------------------
(* The handlers of the state machine.                                      *)

(* A new socket is opened, bound and made non-blocking; a failure leaves   *)
(* the endpoint closed with none.                                          *)
HandlingClosedToAddingIntoOt(e) ==
  \/ /\ RmpMayFail
     /\ RmpSetSock(e, "NULL")
     /\ UNCHANGED <<rmpState, rmpPending, sharedVars>>
  \/ /\ RmpSetSock(e, "open")
     /\ RmpEnter(e, "ADDING_INTO_OT")
     /\ AddIoObj("OT", e)
     /\ UNCHANGED <<rmpPending, DelCache, armed, aborted>>

(* handling_close_while_adding_into_ot, ..._into_it,                       *)
(* handling_internal_err_while_adding_into_it                              *)
RmpRemember(e, evt) ==
  /\ rmpPending' = [rmpPending EXCEPT ![e] = evt]
  /\ UNCHANGED <<rmpState, rmpSock, sharedVars>>

HandlingInternalErrWhileAddingIntoOt(e) ==
  /\ rmpPending' = [rmpPending EXCEPT ![e] = "INTERNAL_ERR"]
  /\ RmpEnter(e, "CLOSED")
  /\ UNCHANGED <<rmpSock, sharedVars>>

(* The socket is closed and the endpoint leaves task t.                    *)
RmpLeave(e, t, s) ==
  /\ RmpSetSock(e, "closed")
  /\ Disarm(e)
  /\ DelIoObj(t, e)
  /\ RmpEnter(e, s)
  /\ UNCHANGED <<rmpPending, AddCache, aborted>>

(* Mutation of HandlingAddingIntoOtToAddingIntoIt: the socket of a close   *)
(* that is pending is closed, but the output task keeps the endpoint.      *)
ClosesButStays(e) ==
  \/ /\ rmpPending[e] = "CLOSE"
     /\ RmpSetSock(e, "closed")
     /\ Disarm(e)
     /\ RmpEnter(e, "CLOSED")
     /\ UNCHANGED <<rmpPending, AddCache, DelCache, aborted>>
  \/ /\ rmpPending[e] = "NONE"
     /\ AddIoObj("IT", e)
     /\ RmpEnter(e, "ADDING_INTO_IT")
     /\ UNCHANGED <<rmpPending, rmpSock, DelCache, armed, aborted>>

(* Nothing but a close may be pending (CMN_ASSERT).                        *)
HandlingAddingIntoOtToAddingIntoIt(e) ==
  \/ rmpPending[e] = "CLOSE" /\ RmpLeave(e, "OT", "DELING_FROM_OT")
  \/ /\ rmpPending[e] = "INTERNAL_ERR"
     /\ aborted' = "pending"
     /\ UNCHANGED <<rmpVars, AddCache, DelCache, armed>>
  \/ /\ rmpPending[e] = "NONE"
     /\ AddIoObj("IT", e)
     /\ RmpEnter(e, "ADDING_INTO_IT")
     /\ UNCHANGED <<rmpPending, rmpSock, DelCache, armed, aborted>>

(* A pending event or a failure to join the group: out again.  Otherwise   *)
(* on_opened(), in which a close() is only remembered, for ever.           *)
HandlingAddingIntoItToOpened(e) ==
  \/ /\ rmpPending[e] # "NONE" \/ RmpMayFail
     /\ RmpLeave(e, "IT", "DELING_FROM_IT")
  \/ /\ rmpPending[e] = "NONE"
     /\ rmpPending' \in {rmpPending, [rmpPending EXCEPT ![e] = "CLOSE"]}
     /\ RmpEnter(e, "OPENED")
     /\ UNCHANGED <<rmpSock, sharedVars>>

(* Mutation of HandlingCloseWhileOpened: the io tasks are not waited for.  *)
ClosesAtOnce(e) == RmpLeave(e, "IT", "CLOSED")

(* handling_close_while_opened, handling_internal_err_while_opened         *)
HandlingCloseWhileOpened(e) == RmpLeave(e, "IT", "DELING_FROM_IT")

(* Mutation of HandlingDelingFromItToDelingFromOt: the output task is      *)
(* forgotten.                                                              *)
WaitsForNothing(e) ==
  /\ RmpEnter(e, "DELING_FROM_OT")
  /\ UNCHANGED <<rmpPending, rmpSock, sharedVars>>

HandlingDelingFromItToDelingFromOt(e) ==
  /\ DelIoObj("OT", e)
  /\ RmpEnter(e, "DELING_FROM_OT")
  /\ UNCHANGED <<rmpPending, rmpSock, AddCache, armed, aborted>>

(* on_closed() may open the endpoint again: the socket that open() makes   *)
(* is then set to NULL with the old one.                                   *)
HandlingDelingFromOtToClosed(e) ==
  /\ RmpSetSock(e, "NULL")
  /\ \/ /\ RmpEnter(e, "CLOSED")
        /\ UNCHANGED AddCache
     \/ /\ RmpEnter(e, "ADDING_INTO_OT")
        /\ AddIoObj("OT", e)
  /\ UNCHANGED <<rmpPending, DelCache, armed, aborted>>

-----------------------------------------------------------------------------
(* The rows of init_sm().                                                  *)
RmpRows ==
  {<<"CLOSED", "OPEN">>,
   <<"ADDING_INTO_OT", "CLOSE">>, <<"ADDING_INTO_OT", "INTERNAL_ERR">>,
   <<"ADDING_INTO_OT", "ADDED_INTO_OT">>,
   <<"ADDING_INTO_IT", "CLOSE">>, <<"ADDING_INTO_IT", "INTERNAL_ERR">>,
   <<"ADDING_INTO_IT", "ADDED_INTO_IT">>,
   <<"OPENED", "CLOSE">>, <<"OPENED", "INTERNAL_ERR">>,
   <<"DELING_FROM_IT", "DELED_FROM_IT">>,
   <<"DELING_FROM_OT", "DELED_FROM_OT">>}

(* post_evt, under the mutex of the state machine.                         *)
RmpPostEvt(e, evt) ==
  LET at(s) == rmpState[e] = s IN
  \/ /\ <<rmpState[e], evt>> \notin RmpRows
     /\ UNCHANGED <<rmpVars, sharedVars>>
  \/ at("CLOSED") /\ evt = "OPEN" /\ HandlingClosedToAddingIntoOt(e)
  \/ /\ \/ at("ADDING_INTO_OT") /\ evt = "CLOSE"
        \/ at("ADDING_INTO_IT") /\ evt \in {"CLOSE", "INTERNAL_ERR"}
     /\ RmpRemember(e, evt)
  \/ /\ at("ADDING_INTO_OT") /\ evt = "INTERNAL_ERR"
     /\ HandlingInternalErrWhileAddingIntoOt(e)
  \/ /\ at("ADDING_INTO_OT") /\ evt = "ADDED_INTO_OT"
     /\ HandlingAddingIntoOtToAddingIntoIt(e)
  \/ /\ at("ADDING_INTO_IT") /\ evt = "ADDED_INTO_IT"
     /\ HandlingAddingIntoItToOpened(e)
  \/ /\ at("OPENED") /\ evt \in {"CLOSE", "INTERNAL_ERR"}
     /\ HandlingCloseWhileOpened(e)
  \/ /\ at("DELING_FROM_IT") /\ evt = "DELED_FROM_IT"
     /\ HandlingDelingFromItToDelingFromOt(e)
  \/ /\ at("DELING_FROM_OT") /\ evt = "DELED_FROM_OT"
     /\ HandlingDelingFromOtToClosed(e)

-----------------------------------------------------------------------------
(* handle_input_evt and handle_output_evt do nothing unless the endpoint   *)
(* is opened; then, with no lock, they use the socket.                     *)
RmpHandlesIo(t, e) ==
  /\ GoTo(t, IF rmpState[e] = "OPENED" THEN "io" ELSE "events",
             IF rmpState[e] = "OPENED" THEN e ELSE NoObj)
  /\ UNCHANGED <<rmpVars, sharedVars>>

(* handle_can_recv, handle_can_send: nothing is wrong, or an i/o error, or *)
(* an ack, nak or heartbeat that the socket, closed by now, does not take  *)
(* (CMN_ASSERT on udp_send).                                               *)
RmpIoReturns(t, e) ==
  \/ rmpSock[e] = "open" /\ UNCHANGED <<rmpVars, sharedVars>>
  \/ (rmpSock[e] = "closed" \/ RmpMayFail) /\ RmpPostEvt(e, "INTERNAL_ERR")
  \/ /\ rmpSock[e] = "closed"
     /\ aborted' = "udp_send"
     /\ UNCHANGED <<rmpVars, AddCache, DelCache, armed>>

=============================================================================
