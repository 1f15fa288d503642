------------------------------ MODULE RupRecv ------------------------------
(***************************************************************************)
(* From one end of a tcp connection to the handlers of the other:          *)
(* CArchive (archive.h) puts package bodies behind one header in a memory  *)
(* block, the stream carries the bytes and cuts them anywhere, and         *)
(* CRupEndpoint::handle_input_evt receives into the block of its socket    *)
(* and lets CDispatcher (dispatcher.h) find the packages again.            *)
(*                                                                         *)
(* A byte is <<p, i>>, the i-th of the p-th package sent: what is at the   *)
(* head of the block is read as a header, whatever it is.  The sender's    *)
(* socket is the one of RupSock: it sends every block once and in order.   *)
(***************************************************************************)
EXTENDS Integers, SequencesExt

CONSTANTS
  Opcodes,   (* the kinds of packages                                      *)
  BodySize,  (* get_real_size of a body of each; 0 for the heart beat      *)
  HdrSize,   (* sizeof(CPkgHdr)                                            *)
  BlockSize, (* __MAX_MEM_SIZE__                                           *)
  MaxPkgs    (* bound: packages the sender sends                           *)

ASSUME SizesAssumption ==
  /\ Opcodes # {} /\ BodySize \in [Opcodes -> Nat]
  /\ HdrSize \in Nat \ {0} /\ BlockSize \in Nat /\ HdrSize <= BlockSize
  /\ MaxPkgs \in Nat

VARIABLES
  archive,  (* the CArchive being filled: its opcode, m_pMem's length, m_bPending *)
  sent,     (* the packages sent: their opcodes and lengths                *)
  wire,     (* the bytes on their way                                      *)
  fin,      (* the sender has closed                                       *)
  block,    (* m_pRecvedData: m_ui32Offset and the data                    *)
  phase,    (* where the receiving thread is                               *)
  pkg,      (* the package dispatch() is in, and ui32Size of its bodies    *)
  handled,  (* the bodies given to handle_pkg, as <<package, last byte>>   *)
  conn      (* "opened", why it was closed, or the assertion that failed   *)

sendVars == <<archive, sent, wire, fin>>
recvVars == <<block, phase, pkg, handled, conn>>
vars == <<sendVars, recvVars>>

NoArchive == [op |-> CHOOSE op \in Opcodes : TRUE, len |-> 0, pending |-> FALSE]
NoPkg == [p |-> 0, size |-> 0]

Init ==
  /\ archive = NoArchive
  /\ sent = <<>>
  /\ wire = <<>>
  /\ fin = FALSE
  /\ block = [offset |-> 0, data |-> <<>>]
  /\ phase = "idle"
  /\ pkg = NoPkg
  /\ handled = <<>>
  /\ conn = "opened"

-----------------------------------------------------------------------------
(* CArchive                                                                *)

(* get_hdr: the header comes first, with the opcode of the body's class.   *)
GetHdr(op) ==
  /\ archive.len = 0 /\ ~ fin
  /\ Len(sent) < MaxPkgs
  /\ archive' = [op |-> op, len |-> HdrSize, pending |-> FALSE]
  /\ UNCHANGED <<sent, wire, fin, recvVars>>

(* body_ready counts the body the caller was given last.                   *)
BodyReady == archive.len + IF archive.pending THEN BodySize[archive.op] ELSE 0

(* Mutation of RoomForBody: the pending body is not counted yet.           *)
RoomBesidesPending == BodySize[archive.op] <= BlockSize - archive.len

(* get_max_size() against get_tail_free_size()                             *)
RoomForBody == BodySize[archive.op] <= BlockSize - BodyReady

(* get_next_body, which returns NULL when there is no room.                *)
GetNextBody ==
  /\ archive.len > 0
  /\ archive' = [archive EXCEPT !.len = BodyReady, !.pending = RoomForBody]
  /\ UNCHANGED <<sent, wire, fin, recvVars>>

(* serialize fills in the length, and the block is sent.                   *)
Serialize ==
  /\ archive.len > 0
  /\ sent' = Append(sent, [op |-> archive.op, len |-> BodyReady])
  /\ wire' = wire \o [i \in 1..BodyReady |-> <<Len(sent) + 1, i>>]
  /\ archive' = NoArchive
  /\ UNCHANGED <<fin, recvVars>>

(* The sender's endpoint is closed, or its process ends.                   *)
PeerCloses ==
  /\ ~ fin /\ archive.len = 0
  /\ fin' = TRUE
  /\ UNCHANGED <<archive, sent, wire, recvVars>>

-----------------------------------------------------------------------------
(* CMemBlock                                                               *)

DataLen == Len(block.data)
MoveDataAhead == [block EXCEPT !.offset = 0]
DecHeadData(n) == [offset |-> block.offset + n, data |-> SubSeq(block.data, n + 1, DataLen)]
TailFreeSize(b) == BlockSize - (Len(b.data) + b.offset)

-----------------------------------------------------------------------------
(* CRupEndpoint::handle_input_evt, CRupSock::handle_can_recv               *)

(* recvmsg returns some bytes, at most what fits behind the data.          *)
HandleCanRecv ==
  /\ phase = "idle" /\ conn = "opened"
  /\ \E n \in 1..Len(wire) :
       /\ n <= TailFreeSize(MoveDataAhead)
       /\ block' = [MoveDataAhead EXCEPT !.data = @ \o SubSeq(wire, 1, n)]
       /\ wire' = SubSeq(wire, n + 1, Len(wire))
  /\ phase' = "dispatch"
  /\ UNCHANGED <<archive, sent, fin, pkg, handled, conn>>

(* It returns 0 after the last byte of a peer that closed, and also when   *)
(* it is given no room: both pass for an orderly shutdown.                 *)
ReturnsZero == IF wire = <<>> THEN fin ELSE TailFreeSize(MoveDataAhead) = 0

OrderlyShutdown ==
  /\ phase = "idle" /\ conn = "opened"
  /\ ReturnsZero
  /\ conn' = "shutdown"
  /\ block' = MoveDataAhead
  /\ UNCHANGED <<sendVars, phase, pkg, handled>>

(* recvmsg is interrupted, or finds nothing after all: the assertion in    *)
(* handle_can_recv, or the one on CMNERR_RECV_PENDING in handle_input_evt, *)
(* ends the process.                                                       *)
ReceivesNothing ==
  /\ phase = "idle" /\ conn = "opened"
  /\ conn' = "pending"
  /\ UNCHANGED <<sendVars, block, phase, pkg, handled>>

(* recvmsg fails, epoll reports an error, or the output task does while    *)
(* the input task dispatches: EE_INTERNAL_ERR.                             *)
InternalErr ==
  /\ conn = "opened"
  /\ conn' = "error"
  /\ UNCHANGED <<sendVars, block, phase, pkg, handled>>

-----------------------------------------------------------------------------
(* CDispatcher::dispatch, called from the user's on_recved_data.           *)

HeadPkg == Head(block.data)[1]
HdrLen == sent[HeadPkg].len

(* The head of the data is read as a header: CMN_ASSERT of its version and *)
(* length.                                                                 *)
ReadHeader ==
  /\ phase = "dispatch" /\ DataLen >= HdrSize
  /\ phase' = "header"
  /\ conn' = IF Head(block.data)[2] = 1 THEN conn ELSE "aborted"
  /\ UNCHANGED <<sendVars, block, pkg, handled>>

GoodHeader == phase = "header" /\ conn # "aborted"

(* A package without body, the heart beat.                                 *)
SkipHeader ==
  /\ GoodHeader /\ HdrLen = HdrSize
  /\ block' = DecHeadData(HdrSize)
  /\ phase' = "dispatch"
  /\ UNCHANGED <<sendVars, pkg, handled, conn>>

(* The rest of the package is still to come.                               *)
Incomplete ==
  /\ GoodHeader /\ HdrLen > HdrSize /\ HdrLen > DataLen
  /\ block' = MoveDataAhead
  /\ phase' = "idle"
  /\ UNCHANGED <<sendVars, pkg, handled, conn>>

EnterDispatchFun ==
  /\ GoodHeader /\ HdrLen > HdrSize /\ HdrLen <= DataLen
  /\ pkg' = [p |-> HeadPkg, size |-> HdrLen - HdrSize]
  /\ block' = DecHeadData(HdrSize)
  /\ phase' = "bodies"
  /\ UNCHANGED <<sendVars, handled, conn>>

(* dispatch_fun: the bodies one after the other, each to handle_pkg.       *)
HandlePkg ==
  /\ phase = "bodies" /\ pkg.size > 0
  /\ LET real == BodySize[sent[pkg.p].op]
     IN /\ handled' = Append(handled, block.data[real])
        /\ block' = DecHeadData(real)
        /\ pkg' = [pkg EXCEPT !.size = @ - real]
  /\ UNCHANGED <<sendVars, phase, conn>>

LeaveDispatchFun ==
  /\ phase = "bodies" /\ pkg.size = 0
  /\ pkg' = NoPkg
  /\ phase' = "dispatch"
  /\ UNCHANGED <<sendVars, block, handled, conn>>

(* Mutation of DispatchReturns: a header alone is not looked at.           *)
ReturnsAtHeader ==
  /\ phase = "dispatch" /\ DataLen <= HdrSize
  /\ phase' = "idle"
  /\ UNCHANGED <<sendVars, block, pkg, handled, conn>>

(* Less than a header is left.                                             *)
DispatchReturns ==
  /\ phase = "dispatch" /\ DataLen < HdrSize
  /\ phase' = "idle"
  /\ UNCHANGED <<sendVars, block, pkg, handled, conn>>

-----------------------------------------------------------------------------
Next ==
  \/ \E op \in Opcodes : GetHdr(op)
  \/ GetNextBody \/ Serialize \/ PeerCloses
  \/ HandleCanRecv \/ ReceivesNothing \/ OrderlyShutdown \/ InternalErr
  \/ ReadHeader \/ SkipHeader \/ Incomplete \/ EnterDispatchFun
  \/ HandlePkg \/ LeaveDispatchFun \/ DispatchReturns

Spec == Init /\ [][Next]_vars

-----------------------------------------------------------------------------
TypeOK ==
  /\ archive \in [op : Opcodes, len : 0..BlockSize, pending : BOOLEAN]
  /\ \A p \in DOMAIN sent : sent[p].op \in Opcodes /\ sent[p].len \in HdrSize..BlockSize
  /\ fin \in BOOLEAN
  /\ block.offset + DataLen \in 0..BlockSize
  /\ phase \in {"idle", "dispatch", "header", "bodies"}
  /\ pkg.p \in 0..Len(sent) /\ pkg.size \in 0..BlockSize
  /\ conn \in {"opened", "shutdown", "error", "pending", "aborted"}

(* The bodies of package p, each named by its last byte.                   *)
BodiesOf(p) ==
  IF sent[p].len = HdrSize THEN <<>>
  ELSE [n \in 1..((sent[p].len - HdrSize) \div BodySize[sent[p].op])
          |-> <<p, HdrSize + n * BodySize[sent[p].op]>>]

AllBodies == FlattenSeq([p \in DOMAIN sent |-> BodiesOf(p)])

(* Every body is handled once and in the order it was sent, however the    *)
(* stream was cut, and none waits in the block for bytes it does not need  *)
(* (CDispatcher::dispatch, dispatch_fun, CMemBlock).                       *)
DispatchedInOrder ==
  /\ conn # "aborted"
  /\ IsPrefix(handled, AllBodies)
  /\ phase = "idle" /\ block.data # <<>> =>
       /\ Head(block.data)[2] = 1
       /\ DataLen < HdrSize \/ DataLen < HdrLen

(* A connection is taken for closed by its peer only when it is, and then  *)
(* every body the peer ever sent has been handled: the block always has    *)
(* room for the package in it (handle_can_recv, CArchive::get_next_body).  *)
OrderlyCloseLosesNothing ==
  conn = "shutdown" => fin /\ handled = AllBodies

=============================================================================
