----------------------------- MODULE RupAcceptor -----------------------------
(***************************************************************************)
(* CRupAcceptor (libsmart_net/src/smart_net/sn_endpoint_impl.cpp): listens *)
(* on a TCP socket in the input task and gives what it accepts to the      *)
(* endpoints that wait for a connection.  Those are modelled in            *)
(* RupEndpoint; here an accepted socket is taken by one of them, or closed *)
(* when none is left.                                                      *)
(***************************************************************************)
EXTENDS Epoll

CONSTANTS
  Acceptors,  (* the acceptors among IoObjs                                *)
  AccMayFail     (* whether calls to the operating system may fail            *)

ASSUME AcceptorsAssumption == Acceptors \subseteq IoObjs /\ AccMayFail \in BOOLEAN

VARIABLES
  accState,   (* m_sm                                                      *)
  accPending, (* m_i32PendingEvt                                           *)
  listener    (* m_pTcpSockListener                                        *)

accVars == <<accState, accPending, listener>>

AccTypeOK ==
  /\ accState   \in [Acceptors -> {"CLOSED", "ADDING_INTO_IT", "OPENED",
                                   "DELING_FROM_IT"}]
  /\ accPending \in [Acceptors -> {"NONE", "CLOSE", "INTERNAL_ERR"}]
  /\ listener   \in [Acceptors -> {"NULL", "open", "closed"}]

AccInit ==
  /\ accState   = [a \in Acceptors |-> "CLOSED"]
  /\ accPending = [a \in Acceptors |-> "NONE"]
  /\ listener   = [a \in Acceptors |-> "NULL"]

AccEnter(a, s) == accState' = [accState EXCEPT ![a] = s]

AccAbort(why) ==
  aborted' = why /\ UNCHANGED <<accVars, AddCache, DelCache, armed>>

-----------------------------------------------------------------------------
(* The handlers of the state machine.                                      *)

(* The acceptor must not have been opened before (CMN_ASSERT): nothing     *)
(* ever resets m_pTcpSockListener, not even a failure to bind or listen.   *)
HandlingClosedToAddingIntoIt(a) ==
  \/ listener[a] # "NULL" /\ AccAbort("listener")
  \/ /\ listener[a] = "NULL"
     /\ accPending' = [accPending EXCEPT ![a] = "NONE"]
     /\ \/ /\ AccMayFail
           /\ listener' \in {[listener EXCEPT ![a] = s] : s \in {"open", "closed"}}
           /\ UNCHANGED <<accState, AddCache>>
        \/ /\ listener' = [listener EXCEPT ![a] = "open"]
           /\ AccEnter(a, "ADDING_INTO_IT")
           /\ AddIoObj("IT", a)
     /\ UNCHANGED <<DelCache, armed, aborted>>

(* handling_close_while_adding_into_it, handling_internal_err_while_...    *)
AccRemember(a, evt) ==
  /\ accPending' = [accPending EXCEPT ![a] = evt]
  /\ UNCHANGED <<accState, listener, sharedVars>>

AccLeave(a) ==
  /\ listener' = [listener EXCEPT ![a] = "closed"]
  /\ Disarm(a)
  /\ DelIoObj("IT", a)
  /\ AccEnter(a, "DELING_FROM_IT")
  /\ UNCHANGED <<accPending, AddCache, aborted>>

(* Mutation of AccHandlingAddingIntoItToOpened: what is pending is not     *)
(* looked at.                                                              *)
OpensWhatever(a) ==
  /\ AccEnter(a, "OPENED")
  /\ UNCHANGED <<accPending, listener, sharedVars>>

(* The listener must be open (CMN_ASSERT).                                 *)
AccHandlingAddingIntoItToOpened(a) ==
  \/ accPending[a] # "NONE" /\ AccLeave(a)
  \/ accPending[a] = "NONE" /\ listener[a] # "open" /\ AccAbort("is_opened")
  \/ /\ accPending[a] = "NONE" /\ listener[a] = "open"
     /\ AccEnter(a, "OPENED")
     /\ UNCHANGED <<accPending, listener, sharedVars>>

(* handling_close_while_opened, handling_internal_err_while_opened         *)
AccHandlingCloseWhileOpened(a) ==
  \/ listener[a] # "open" /\ AccAbort("is_opened")
  \/ listener[a] = "open" /\ AccLeave(a)

(* Mutation of HandlingDelingFromItToClosed: the state is not left.        *)
StaysDeling(a) == UNCHANGED <<accVars, sharedVars>>

(* on_closed() cannot open the acceptor: it is not in CLOSED yet.          *)
HandlingDelingFromItToClosed(a) ==
  AccEnter(a, "CLOSED") /\ UNCHANGED <<accPending, listener, sharedVars>>

AccRows ==
  {<<"CLOSED", "OPEN">>,
   <<"ADDING_INTO_IT", "CLOSE">>, <<"ADDING_INTO_IT", "INTERNAL_ERR">>,
   <<"ADDING_INTO_IT", "ADDED_INTO_IT">>,
   <<"OPENED", "CLOSE">>, <<"OPENED", "INTERNAL_ERR">>,
   <<"DELING_FROM_IT", "DELED_FROM_IT">>}

Accepts(a, evt) == <<accState[a], evt>> \in AccRows

(* post_evt, under the mutex of the state machine.                         *)
AccPostEvt(a, evt) ==
  LET at(s) == accState[a] = s IN
  \/ ~ Accepts(a, evt) /\ UNCHANGED <<accVars, sharedVars>>
  \/ at("CLOSED") /\ evt = "OPEN" /\ HandlingClosedToAddingIntoIt(a)
  \/ /\ at("ADDING_INTO_IT") /\ evt \in {"CLOSE", "INTERNAL_ERR"}
     /\ AccRemember(a, evt)
  \/ /\ at("ADDING_INTO_IT") /\ evt = "ADDED_INTO_IT"
     /\ AccHandlingAddingIntoItToOpened(a)
  \/ /\ at("OPENED") /\ evt \in {"CLOSE", "INTERNAL_ERR"}
     /\ AccHandlingCloseWhileOpened(a)
  \/ /\ at("DELING_FROM_IT") /\ evt = "DELED_FROM_IT"
     /\ HandlingDelingFromItToClosed(a)

(* handle_deled_from_io_task and handle_io_error assert that the event has *)
(* a row.                                                                  *)
AccPostOrDie(a, evt) ==
  \/ Accepts(a, evt) /\ AccPostEvt(a, evt)
  \/ ~ Accepts(a, evt) /\ AccAbort("post_evt")

(* handle_input_evt looks at no state: accept() must give a socket         *)
(* (CMN_ASSERT), which an idle endpoint takes or which is closed.          *)
AccHandlesInput(a) ==
  \/ listener[a] = "open" /\ UNCHANGED <<accVars, sharedVars>>
  \/ (listener[a] # "open" \/ AccMayFail) /\ AccAbort("accept")

=============================================================================
