------------------------------- MODULE RupSock -------------------------------
(***************************************************************************)
(* The sending side of CRupSock                                            *)
(* (libcomm_net/src/network/sn_socket_impl.cpp), the TCP socket of an      *)
(* endpoint: user threads call send(), the output io task calls            *)
(* handle_can_send() whenever the level-triggered EPOLLOUT fires.          *)
(*                                                                         *)
(* Two locks: m_lkSending, which send() only tries and handle_can_send()   *)
(* waits for, is held around every ::send; the spin lock m_lkSendQ, held   *)
(* around each use of m_qSendCache, makes that use one step.  A message is *)
(* MsgLen bytes, a CMemBlock a sequence of at most MemSize of them.        *)
(* ::send takes any prefix of what it is given; none is EWOULDBLOCK, or an *)
(* error once the socket is dead.                                          *)
(***************************************************************************)
EXTENDS Naturals, SequencesExt

CONSTANTS
  Senders,    (* the threads that call send()                              *)
  MaxSends,   (* bound: messages per thread                                *)
  MsgLen,     (* bytes in a message                                        *)
  MemSize     (* bytes a CMemBlock holds, 32 KiB in the code               *)

ASSUME SockAssumption ==
  /\ MaxSends \in Nat /\ MsgLen \in Nat \ {0} /\ MemSize \in Nat
  /\ MsgLen <= MemSize
  /\ {"none", "task"} \cap Senders = {}

VARIABLES
  opened,     (* ::send can succeed: the socket is neither closed nor broken *)
  lkSending,  (* who holds m_lkSending: "none", "task" or a sender         *)
  qSendCache, (* m_qSendCache, a sequence of blocks                        *)
  qSending,   (* m_qSending                                                *)
  pc,         (* where each sender is in send()                            *)
  pData,      (* the bytes each sender has in hand                         *)
  sends,      (* messages each sender has begun to send                    *)
  taskPc,     (* where the task is in handle_can_send()                    *)
  outWire     (* every byte ::send took, in order                          *)

senderVars == <<pc, pData, sends>>
sockVars == <<opened, lkSending, qSendCache, qSending, senderVars, taskPc, outWire>>

Msg(s, n) == [i \in 1..MsgLen |-> <<s, n, i>>]
Byte == Senders \X (1..MaxSends) \X (1..MsgLen)

SockInit ==
  /\ opened = TRUE
  /\ lkSending = "none"
  /\ qSendCache = <<>> /\ qSending = <<>>
  /\ pc = [s \in Senders |-> "out"]
  /\ pData = [s \in Senders |-> <<>>]
  /\ sends = [s \in Senders |-> 0]
  /\ taskPc = "out"
  /\ outWire = <<>>

-----------------------------------------------------------------------------
(* send() *)

(* Mutation of PushBack: the capacity of a block is not looked at.         *)
AppendsAlways(q, data) ==
  IF q # <<>> THEN Front(q) \o << Last(q) \o data >> ELSE Append(q, data)

(* m_qSendCache.back()->append, or a block of its own if there is no back  *)
(* or it has no room.                                                      *)
PushBack(q, data) ==
  IF q # <<>> /\ Len(Last(q)) + Len(data) <= MemSize
  THEN Front(q) \o << Last(q) \o data >>
  ELSE Append(q, data)

Returns(s) ==
  /\ pc' = [pc EXCEPT ![s] = "out"]
  /\ pData' = [pData EXCEPT ![s] = <<>>]
  /\ UNCHANGED sends

(* try_lock on m_lkSending.                                                *)
SendTriesLock(s) ==
  /\ pc[s] = "out" /\ sends[s] < MaxSends
  /\ sends' = [sends EXCEPT ![s] = @ + 1]
  /\ pData' = [pData EXCEPT ![s] = Msg(s, sends'[s])]
  /\ \/ /\ lkSending = "none"
        /\ lkSending' = s
        /\ pc' = [pc EXCEPT ![s] = "locked"]
     \/ /\ lkSending # "none"
        /\ pc' = [pc EXCEPT ![s] = "busy"]
        /\ UNCHANGED lkSending
  /\ UNCHANGED <<opened, qSendCache, qSending, taskPc, outWire>>

(* It was taken: queue the data.                                           *)
SendQueues(s) ==
  /\ pc[s] = "busy"
  /\ qSendCache' = PushBack(qSendCache, pData[s])
  /\ Returns(s)
  /\ UNCHANGED <<opened, lkSending, qSending, taskPc, outWire>>

(* Data is waiting already: unlock and queue behind it.                    *)
SendQueuesBehind(s) ==
  /\ pc[s] = "locked" /\ qSendCache # <<>>
  /\ lkSending' = "none"
  /\ qSendCache' = PushBack(qSendCache, pData[s])
  /\ Returns(s)
  /\ UNCHANGED <<opened, qSending, taskPc, outWire>>

SendFindsNoneWaiting(s) ==
  /\ pc[s] = "locked" /\ qSendCache = <<>>
  /\ pc' = [pc EXCEPT ![s] = "send"]
  /\ UNCHANGED <<opened, lkSending, qSendCache, qSending, pData, sends, taskPc, outWire>>

(* ::send takes nothing (EWOULDBLOCK, or an error): unlock and return; the *)
(* data goes nowhere.                                                      *)
SendBlocks(s) ==
  /\ pc[s] = "send"
  /\ lkSending' = "none"
  /\ Returns(s)
  /\ UNCHANGED <<opened, qSendCache, qSending, taskPc, outWire>>

SendTakesAll(s) ==
  /\ pc[s] = "send" /\ opened
  /\ outWire' = outWire \o pData[s]
  /\ lkSending' = "none"
  /\ Returns(s)
  /\ UNCHANGED <<opened, qSendCache, qSending, taskPc>>

(* Mutation of SendTakesPart: one byte too few is cut off the head.        *)
CutsOneByteLess(s, k) ==
  /\ pc[s] = "send" /\ opened
  /\ k < Len(pData[s])
  /\ outWire' = outWire \o SubSeq(pData[s], 1, k)
  /\ pData' = [pData EXCEPT ![s] = SubSeq(@, k, Len(@))]
  /\ pc' = [pc EXCEPT ![s] = "rest"]
  /\ UNCHANGED <<opened, lkSending, qSendCache, qSending, sends, taskPc>>

SendTakesPart(s, k) ==
  /\ pc[s] = "send" /\ opened
  /\ k < Len(pData[s])
  /\ outWire' = outWire \o SubSeq(pData[s], 1, k)
  /\ pData' = [pData EXCEPT ![s] = SubSeq(@, k + 1, Len(@))]
  /\ pc' = [pc EXCEPT ![s] = "rest"]
  /\ UNCHANGED <<opened, lkSending, qSendCache, qSending, sends, taskPc>>

(* Mutation of SendQueuesRest: the rest is forgotten.                      *)
ForgetsRest(s) ==
  /\ pc[s] = "rest"
  /\ lkSending' = "none"
  /\ Returns(s)
  /\ UNCHANGED <<opened, qSendCache, qSending, taskPc, outWire>>

(* The rest is pushed in front of m_qSendCache.                            *)
SendQueuesRest(s) ==
  /\ pc[s] = "rest"
  /\ qSendCache' = <<pData[s]>> \o qSendCache
  /\ lkSending' = "none"
  /\ Returns(s)
  /\ UNCHANGED <<opened, qSending, taskPc, outWire>>

SendGoesOn(s) ==
  \/ SendQueues(s) \/ SendQueuesBehind(s) \/ SendFindsNoneWaiting(s)
  \/ SendBlocks(s) \/ SendTakesAll(s) \/ SendQueuesRest(s)
  \/ \E k \in 1..(MsgLen - 1) : SendTakesPart(s, k)

-----------------------------------------------------------------------------
(* handle_can_send(), called again and again while the socket is writable. *)

TaskReturns ==
  /\ taskPc' = "out"
  /\ lkSending' = "none"

(* Mutations of TaskLocks: the queues are swapped whatever m_qSending      *)
(* holds; they are not swapped before the loop.                            *)
LocksAndSwapsAlways ==
  /\ taskPc = "out" /\ lkSending = "none"
  /\ lkSending' = "task"
  /\ taskPc' = "swap"
  /\ UNCHANGED <<opened, qSendCache, qSending, senderVars, outWire>>

LocksAndNeverSwaps ==
  /\ taskPc = "out" /\ lkSending = "none"
  /\ IF qSending = <<>>
     THEN TaskReturns
     ELSE lkSending' = "task" /\ taskPc' = "send"
  /\ UNCHANGED <<opened, qSendCache, qSending, senderVars, outWire>>

TaskLocks ==
  /\ taskPc = "out" /\ lkSending = "none"
  /\ lkSending' = "task"
  /\ taskPc' = IF qSending = <<>> THEN "swap" ELSE "send"
  /\ UNCHANGED <<opened, qSendCache, qSending, senderVars, outWire>>

(* The empty m_qSending is swapped with m_qSendCache.                      *)
TaskSwaps ==
  /\ taskPc = "swap"
  /\ qSending' = qSendCache
  /\ qSendCache' = qSending
  /\ \/ qSendCache = <<>> /\ TaskReturns
     \/ qSendCache # <<>> /\ taskPc' = "send" /\ UNCHANGED lkSending
  /\ UNCHANGED <<opened, senderVars, outWire>>

(* The front block does not go out: EWOULDBLOCK, or an error, on which the *)
(* endpoint posts EE_INTERNAL_ERR.                                         *)
TaskBlocks ==
  /\ taskPc = "send"
  /\ TaskReturns
  /\ UNCHANGED <<opened, qSendCache, qSending, senderVars, outWire>>

(* Mutation of TaskSendsPart: the head that went out is not cut off.       *)
SendsPartAgain(k) ==
  /\ taskPc = "send" /\ opened
  /\ k < Len(Head(qSending))
  /\ outWire' = outWire \o SubSeq(Head(qSending), 1, k)
  /\ TaskReturns
  /\ UNCHANGED <<opened, qSendCache, qSending, senderVars>>

TaskSendsPart(k) ==
  /\ taskPc = "send" /\ opened
  /\ k < Len(Head(qSending))
  /\ outWire' = outWire \o SubSeq(Head(qSending), 1, k)
  /\ qSending' = <<SubSeq(Head(qSending), k + 1, Len(Head(qSending)))>> \o Tail(qSending)
  /\ TaskReturns
  /\ UNCHANGED <<opened, qSendCache, senderVars>>

TaskSendsBlock ==
  /\ taskPc = "send" /\ opened
  /\ outWire' = outWire \o Head(qSending)
  /\ qSending' = Tail(qSending)
  /\ taskPc' = IF Tail(qSending) = <<>> THEN "swap" ELSE "send"
  /\ UNCHANGED <<opened, lkSending, qSendCache, senderVars>>

TaskStep ==
  \/ TaskLocks \/ TaskSwaps \/ TaskBlocks \/ TaskSendsBlock
  \/ \E k \in 1..(MemSize - 1) : TaskSendsPart(k)

(* The peer resets the connection, or the endpoint closes the socket.      *)
Dies == opened /\ opened' = FALSE
        /\ UNCHANGED <<lkSending, qSendCache, qSending, senderVars, taskPc, outWire>>

SockNext ==
  \/ \E s \in Senders : SendTriesLock(s) \/ SendGoesOn(s)
  \/ TaskStep
  \/ Dies

(* Threads inside a call go on; EPOLLOUT fires again while the socket is   *)
(* writable, and a peer that keeps reading makes it take a whole block     *)
(* infinitely often.                                                       *)
SockFairness ==
  /\ \A s \in Senders : WF_sockVars(SendGoesOn(s))
  /\ WF_sockVars(TaskStep)
  /\ SF_sockVars(TaskSendsBlock)

SockSpec == SockInit /\ [][SockNext]_sockVars

SockFairSpec == SockSpec /\ SockFairness
-----------------------------------------------------------------------------
SockTypeOK ==
  /\ opened \in BOOLEAN
  /\ lkSending \in Senders \cup {"none", "task"}
  /\ \A b \in ToSet(qSendCache) \cup ToSet(qSending) :
        b \in Seq(Byte) /\ Len(b) \in 1..MemSize
  /\ pc \in [Senders -> {"out", "busy", "locked", "send", "rest"}]
  /\ \A s \in Senders : pData[s] \in Seq(Byte)
  /\ sends \in [Senders -> 0..MaxSends]
  /\ taskPc \in {"out", "swap", "send"}
  /\ outWire \in Seq(Byte)

(* The bytes that wait in the two queues, in the order they would leave.   *)
Queued == FlattenSeq(qSending \o qSendCache)

(* <<n, i>> of the bytes of one sender grow: no byte is there twice, none  *)
(* before an earlier one.                                                  *)
Ordered(s, bytes) ==
  \A i, j \in 1..Len(bytes) :
    i < j /\ bytes[i][1] = s /\ bytes[j][1] = s
      => \/ bytes[i][2] < bytes[j][2]
         \/ bytes[i][2] = bytes[j][2] /\ bytes[i][3] < bytes[j][3]

(* No byte is sent twice or is both sent and still queued, whatever        *)
(* partial ::sends, swaps and pushes to the front come together.           *)
EachByteOnce ==
  IsInjective(outWire \o Queued)

(* The queues keep each thread's order: m_qSending leaves before           *)
(* m_qSendCache, and the rest of a partly sent message that push_front     *)
(* puts before what others queued meanwhile overtakes nothing of its own   *)
(* thread.                                                                 *)
QueuesKeepOrder == \A s \in Senders : Ordered(s, Queued)

(* A message goes out whole or not at all: once some of its bytes are sent *)
(* or queued, all of them are sent, queued or in its sender's hands.       *)
WholeOrNothing ==
  LET kept == ToSet(outWire) \cup ToSet(Queued) IN
  \A b \in kept : \A i \in 1..MsgLen :
     <<b[1], b[2], i>> \in kept \cup ToSet(pData[b[1]])

(* The bytes of one message leave in order, sent, in hand or queued.       *)
MessageInOrder ==
  \A s \in Senders :
    LET bytes == outWire \o (IF pc[s] = "rest" THEN pData[s] ELSE <<>>) \o Queued IN
    \A i, j \in 1..Len(bytes) :
      i < j /\ bytes[i][1] = s /\ bytes[j][1] = s /\ bytes[i][2] = bytes[j][2]
        => bytes[i][3] < bytes[j][3]

(* Liveness: what is queued leaves, as long as the connection lives and    *)
(* the peer reads, although a send() that finds the cache occupied never   *)
(* sends itself and nobody wakes the task.                                 *)
QueuedIsSent ==
  \A b \in Byte : b \in ToSet(Queued) ~> (b \in ToSet(outWire) \/ ~opened)

-----------------------------------------------------------------------------
(* What the source says, and its code does not keep.                       *)

(* "if there have been a block of data needed sending, just push me after  *)
(* it": a message of a thread is never on the wire before an earlier one   *)
(* of the same thread that is still queued.                                *)
SentAfterWaiting == \A s \in Senders : Ordered(s, outWire \o Queued)

(* The tester's CMN_ASSERT(i++ == pkg.i32): on a live connection the peer  *)
(* receives every message send() took (it returned SUC or SEND_PENDING).   *)
AcceptedIsKept ==
  opened => \A s \in Senders, n \in 1..MaxSends :
     n <= sends[s] => ToSet(Msg(s, n)) \subseteq ToSet(outWire) \cup ToSet(Queued) \cup ToSet(pData[s])
=============================================================================
