------------------------------ MODULE Connection ------------------------------
(***************************************************************************)
(* What an endpoint class promises its user about one connection at a time *)
(* and nothing else: which of open(), on_opened(), close() and on_closed() *)
(* may follow which.  The endpoints of libsmart_net implement it.          *)
(***************************************************************************)
CONSTANT Endpoints

VARIABLE conn

Phase == {"closed", "opening", "opened", "closing"}

ConnTypeOK == conn \in [Endpoints -> Phase]

Init == conn = [e \in Endpoints |-> "closed"]

Move(e, from, to) ==
  /\ conn[e] \in from
  /\ conn' = [conn EXCEPT ![e] = to]

(* The user opens a closed endpoint.                                       *)
Open(e) == Move(e, {"closed"}, "opening")

(* on_opened(), at most once, and never once closing has begun.            *)
Opened(e) == Move(e, {"opening"}, "opened")

(* A close() or an error while opening or opened is acted upon.            *)
Closing(e) == Move(e, {"opening", "opened"}, "closing")

(* An attempt that never opened may end at once.  An opened endpoint has   *)
(* to pass through closing, where both tasks let go of it.                 *)
Closed(e) == Move(e, {"opening", "closing"}, "closed")

(* on_closed() may open the endpoint again before it returns.              *)
Reopened(e) == Move(e, {"closing"}, "opening")

Next ==
  \E e \in Endpoints :
     Open(e) \/ Opened(e) \/ Closing(e) \/ Closed(e) \/ Reopened(e)

Spec == Init /\ [][Next]_conn
=============================================================================
