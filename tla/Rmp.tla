--------------------------------- MODULE Rmp ---------------------------------
(***************************************************************************)
(* CRmpSock (libcomm_net/src/network/sn_socket_impl.cpp): reliable         *)
(* multicast over UDP.  One sending socket multicasts numbered packets     *)
(* from a window of SenderWinSize slots; receiving sockets deliver them    *)
(* in order, hold the early ones in a buffer, ask for missing ones with    *)
(* naks and acknowledge.  Each socket is worked on by two threads of its   *)
(* engine: the output task calls handle_can_send, the input task           *)
(* handle_can_recv; the sender's user calls send() from threads of his own.*)
(*                                                                         *)
(* UDP loses, repeats and reorders.  Multicast data is the set of packets  *)
(* ever sent: a receiver takes one from it never, once or many times.  At  *)
(* most MaxInFlight naks and acks are on the way to the sender, more are   *)
(* lost.  The nak counter, the send speed and the statistics of the window *)
(* steer nothing (the code that read them is compiled out) and are left    *)
(* out, and so is the sender id: one sender uses the group.                *)
(***************************************************************************)
EXTENDS Naturals, Sequences, FiniteSets, FiniteSetsExt, Functions

CONSTANTS
  Recvers,         (* the receiving sockets, by their m_epid               *)
  N,               (* packets the user sends (bound)                       *)
  SenderWinSize,   (* __SEND_WIN_SIZE__                                    *)
  Flight,          (* __SEND_WIN_SIZE__ / 10: sent and not acknowledged    *)
  UnvalidPkgsSize, (* __UNORDERED_PKGS_CNT__: slots for early packets      *)
  SendAckCnt,      (* m_ui32SendAckCnt                                     *)
  U64,             (* the modulus of u_int64_t                             *)
  MaxInFlight,     (* naks and acks on the way (bound)                     *)
  MaxRestarts      (* receivers that go down and come up again (bound)     *)

ASSUME RmpAssumption ==
  /\ {N, SenderWinSize, Flight, UnvalidPkgsSize, U64} \subseteq Nat \ {0}
  /\ SendAckCnt \in Nat /\ MaxInFlight \in Nat /\ MaxRestarts \in Nat
  /\ Flight < SenderWinSize /\ Flight <= UnvalidPkgsSize /\ N + 2 < U64

VARIABLES
  DataHead,        (* m_ui64ValidSendingDataHead, the oldest unacknowledged    *)
  DataTail,        (* m_ui64ValidSendingDataTail, the next number to give      *)
  SendingSeqNo,(* m_ui64SendingSeqNo, the last one multicast               *)
  SendWin,     (* m_vecSendWin, the number of the packet in each slot      *)
  LastRecved,  (* m_mapRecvers, ui64LastRecvedSeqNo of the known receivers *)
  sent,        (* udp_send returned, m_ui64SendingSeqNo not yet counted up *)
  rcv,         (* the receiving sockets, see Fresh                         *)
  nak,         (* the timer of a receiver's output task between its reads  *)
  odata,       (* the packets multicast so far                             *)
  toSender,    (* naks and acks on their way                               *)
  died,        (* the CMN_ASSERT a process died of                         *)
  restarted,   (* history: the receivers that went down and came up again  *)
  overtaken    (* history: the receivers whose next packet had been freed  *)

senderVars == <<DataHead, DataTail, SendingSeqNo, SendWin, LastRecved, sent>>
history    == <<restarted, overtaken>>
recverVars == <<rcv, nak, history>>
netVars    == <<odata, toSender>>
vars       == <<senderVars, recverVars, netVars, died>>

(* A receiving socket after open(): latest, begin and end are              *)
(* m_ui64LatestRecvedValidSeqNo, m_ui64UnvalidPkgBegin and ...End, pkgs    *)
(* m_vecUnvalidPkgs, validBegin and validEnd the run of buffered packets   *)
(* being handed out, confirmTmp m_ui64AppConfirmAckTmp, mem the packet in  *)
(* m_pMem, ready whether the endpoint is in its get_next_recved_data loop, *)
(* app what on_recved_data was given.                                      *)
Fresh ==
  [latest |-> 0, begin |-> 0, end |-> 0, validBegin |-> 0, validEnd |-> 0,
   confirmTmp |-> 0, pkgs |-> [i \in 0 .. UnvalidPkgsSize - 1 |-> 0],
   mem |-> 0, ready |-> FALSE, app |-> <<>>]

NoNak == [at |-> "idle", begin |-> 0]

Init ==
  /\ DataHead = 0 /\ DataTail = 1 /\ SendingSeqNo = 0
  /\ SendWin = [i \in 0 .. SenderWinSize - 1 |-> 0]
  /\ LastRecved = << >>
  /\ sent = FALSE
  /\ rcv = [r \in Recvers |-> Fresh]
  /\ nak = [r \in Recvers |-> NoNak]
  /\ restarted = {} /\ overtaken = {}
  /\ odata = {} /\ toSender = {}
  /\ died = "no"

(* A process whose CMN_ASSERT fails ends there.  The others see a peer     *)
(* that is silent from then on, which slow peers are too: the run ends.    *)
Die(why) == died' = why

-----------------------------------------------------------------------------
(* udp_send of a nak or an ack: it leaves, or is lost.                     *)
UdpSend(m) ==
  toSender' = IF Cardinality(toSender) < MaxInFlight THEN toSender \cup {m}
                                                     ELSE toSender

(* udp_send of packets of the window to the group.                         *)
Multicast(seqs) == odata' = odata \cup {SendWin[s % SenderWinSize] : s \in seqs}

(* The naks and acks of the timer and of set_ack assert that the kernel    *)
(* took them: EWOULDBLOCK ends the receiver.                               *)
UdpSendOrDie(m) ==
  \/ UdpSend(m) /\ UNCHANGED died
  \/ Die("udp_send") /\ UNCHANGED toSender

Nak(r, b, e) == [type |-> "nak", id |-> r, begin |-> b, end |-> e]
Ack(r, s)    == [type |-> "ack", id |-> r, seq |-> s]

-----------------------------------------------------------------------------
(* The sender's user.                                                      *)

WindowIsFull == (DataTail + 1) % SenderWinSize = DataHead % SenderWinSize

(* send(): under the spin lock m_lkSenderWin.  A full window returns       *)
(* CMNERR_NO_SPACE and changes nothing but the head room of the packet.    *)
Send ==
  /\ DataTail <= N
  /\ ~ WindowIsFull
  /\ SendWin' = [SendWin EXCEPT ![DataTail % SenderWinSize] = DataTail]
  /\ DataTail' = DataTail + 1
  /\ UNCHANGED <<DataHead, SendingSeqNo, LastRecved, sent, recverVars, netVars, died>>

-----------------------------------------------------------------------------
(* The sender's output task: handle_can_send.                              *)

(* Nothing may be multicast now.                                           *)
MustWait ==
  \/ (SendingSeqNo + 1 + U64 - DataHead) % U64 > Flight
  \/ SendingSeqNo + 1 = DataTail

(* Mutation of HbSeqNo: the last packet of the window, sent or not.        *)
HbOfTail == DataTail - 1

(* ui64LatestSeqNo of a heartbeat; receivers do not read ui64OldestSeqNo.  *)
HbSeqNo == SendingSeqNo

(* A heartbeat may go out once the interval has passed for the first time: *)
(* nothing sets m_ui64LastHbTime again.  It arrives at once or is lost     *)
(* (RecvHb): one that comes late only asks for less.                       *)
CanSendHb == ~ sent /\ MustWait

(* The kernel must take it.                                                *)
HbRefused ==
  /\ CanSendHb
  /\ Die("udp_send")
  /\ UNCHANGED <<senderVars, recverVars, netVars>>

(* The next packet goes out; if the kernel refuses it, it goes out later.  *)
MulticastNext ==
  /\ ~ sent
  /\ ~ MustWait
  /\ Multicast({SendingSeqNo + 1})
  /\ sent' = TRUE
  /\ UNCHANGED <<DataHead, DataTail, SendingSeqNo, SendWin, LastRecved, recverVars,
                 toSender, died>>

(* Mutation of CountSent: the output task forgets it has counted.          *)
CountSentTwice ==
  /\ sent
  /\ SendingSeqNo' = SendingSeqNo + 1
  /\ UNCHANGED <<DataHead, DataTail, SendWin, LastRecved, sent, recverVars, netVars,
                 died>>

(* Only then is it counted: its acknowledgement may already be there.      *)
CountSent ==
  /\ sent
  /\ SendingSeqNo' = SendingSeqNo + 1
  /\ sent' = FALSE
  /\ UNCHANGED <<DataHead, DataTail, SendWin, LastRecved, recverVars, netVars, died>>

-----------------------------------------------------------------------------
(* The sender's input task: handle_can_recv, sendep_handle_pkg.            *)

(* m_mapRecvers[id] makes an entry with 0 for a receiver it does not know. *)
Registered(r) ==
  [x \in DOMAIN LastRecved \cup {r} |->
     IF x \in DOMAIN LastRecved THEN LastRecved[x] ELSE 0]

(* handle_can_recv takes a nak or an ack from the socket.                  *)
Takes(m, type) ==
  m \in toSender /\ m.type = type /\ toSender' = toSender \ {m}

(* sendep_handle_nak: the packets asked for are multicast again, unless    *)
(* one is no longer or not yet in the window.                              *)
HandleNak(m) ==
  /\ Takes(m, "nak")
  /\ LastRecved' = Registered(m.id)
  /\ IF m.begin < DataHead \/ m.end >= DataTail
       THEN Die("nak") /\ UNCHANGED odata
       ELSE Multicast(m.begin .. m.end) /\ UNCHANGED died
  /\ UNCHANGED <<DataHead, DataTail, SendingSeqNo, SendWin, sent, recverVars>>

(* Mutation of MiniAckSeqNo: the last acknowledgement counts for all.      *)
MaxAckSeqNo(acks, heard, first) == Max({acks[x] : x \in heard \cup {first}})

(* The packets before head are freed, one that a receiver needs next too.  *)
Overtakes(head, recvers) ==
  overtaken' = overtaken \cup {r \in Recvers : recvers[r].latest + 1 < head}

(* What every receiver still heard of has acknowledged.  The code starts   *)
(* from the first entry of the map, even if the loop then erases it.       *)
MiniAckSeqNo(acks, heard, first) == Min({acks[x] : x \in heard \cup {first}})

(* sendep_handle_ack: receivers not heard of for the keep-alive time are   *)
(* forgotten (any but the one that speaks), then the head moves past what  *)
(* the others have.  An acknowledgement from behind the head kills.        *)
HandleAck(m) ==
  /\ Takes(m, "ack")
  /\ IF m.seq < DataHead
       THEN /\ Die("ack")
            /\ LastRecved' = Registered(m.id)
            /\ UNCHANGED DataHead
       ELSE LET acks == [Registered(m.id) EXCEPT ![m.id] = Max({@, m.seq})] IN
            \E forgotten \in SUBSET (DOMAIN acks \ {m.id}), first \in DOMAIN acks :
               LET heard == DOMAIN acks \ forgotten
                   mini == MiniAckSeqNo(acks, heard, first)
               IN /\ LastRecved' = Restrict(acks, heard)
                  /\ DataHead' = IF mini < DataHead THEN DataHead ELSE mini + 1
                  /\ UNCHANGED died
  /\ Overtakes(DataHead', rcv)
  /\ UNCHANGED <<DataTail, SendingSeqNo, SendWin, sent, rcv, nak, restarted, odata>>

-----------------------------------------------------------------------------
(* A receiver's input task.                                                *)

Slot(s, p) == s.pkgs[p % UnvalidPkgsSize]

(* The end of the run of buffered packets that starts at s.begin.          *)
ValidEnd(s) ==
  Max({e \in s.begin .. s.end : \A p \in s.begin + 1 .. e : Slot(s, p) # 0})

(* The first packet buffered after the run, or the last buffered at all.   *)
NextBegin(s, e) ==
  Min({p \in e + 1 .. s.end : Slot(s, p) # 0} \cup {s.end})

(* Mutation of HandleNext: the buffered run is forgotten.                  *)
HandleNextOnly(s, p) ==
  IF p + 1 # s.begin THEN [s EXCEPT !.latest = p, !.mem = p, !.ready = TRUE]
  ELSE [s EXCEPT !.latest = ValidEnd(s), !.mem = p, !.ready = TRUE,
                 !.begin = 0, !.end = 0]

(* The packet that was missing: it is handed out, and the run of buffered  *)
(* packets that it completes.                                              *)
HandleNext(s, p) ==
  LET got == [s EXCEPT !.latest = p, !.mem = p, !.ready = TRUE] IN
  IF p + 1 # s.begin THEN got
  ELSE LET e == ValidEnd(s) IN
       [got EXCEPT !.latest = e, !.validBegin = s.begin, !.validEnd = e,
                   !.begin = IF e < s.end THEN NextBegin(s, e) ELSE 0,
                   !.end   = IF e < s.end THEN s.end ELSE 0]

(* An early packet widens the range of the buffered ones ...               *)
Widened(s, p) ==
  [s EXCEPT !.begin = IF s.begin = 0 \/ p < s.begin THEN p ELSE @,
            !.end   = IF s.begin = 0 \/ (p >= s.begin /\ p > s.end) THEN p ELSE @]

(* ... unless it is beyond the limit of the buffer.                        *)
BeyondLimitation(s, p) ==
  /\ s.begin # 0 /\ p >= s.begin /\ p > s.end
  /\ p - s.latest > UnvalidPkgsSize

(* handle_can_recv reads the socket only while no data waits in the loop   *)
(* of the endpoint.                                                        *)
Receiving(r) == ~ rcv[r].ready

(* udp_recv of multicast data, which is still there for another time.      *)
Arrives(p) == p \in odata

(* recvep_handle_odata.  A packet got before is dropped.                   *)
RecvOdata(r, p) ==
  LET s == rcv[r] IN
  /\ Receiving(r) /\ Arrives(p)
  /\ \/ /\ p = s.latest + 1
        /\ rcv' = [rcv EXCEPT ![r] = HandleNext(s, p)]
        /\ UNCHANGED died
     \/ /\ p > s.latest + 1
        /\ IF BeyondLimitation(s, p)
             THEN Die("beyond limitation") /\ UNCHANGED rcv
             ELSE IF Slot(s, p) # 0
                  THEN Die("slot in use") /\ UNCHANGED rcv
                  ELSE /\ rcv' = [rcv EXCEPT ![r] = [Widened(s, p) EXCEPT
                                            !.pkgs[p % UnvalidPkgsSize] = p]]
                       /\ UNCHANGED died
  /\ UNCHANGED <<senderVars, nak, history, netVars>>

(* recvep_handle_hb: what the heartbeat names and the receiver misses is   *)
(* asked for, from the first packet missing to the last one sent.          *)
RecvHb(r) ==
  /\ CanSendHb /\ Receiving(r)
  /\ HbSeqNo > rcv[r].latest
  /\ UdpSend(Nak(r, rcv[r].latest + 1, HbSeqNo))
  /\ UNCHANGED <<senderVars, recverVars, odata, died>>

(* get_next_recved_data, one packet for on_recved_data a call: the one     *)
(* that arrived, then the run it completed.                                *)
GetNext(r) ==
  LET s == rcv[r] IN
  /\ s.ready
  /\ \/ /\ s.mem # 0
        /\ rcv' = [rcv EXCEPT ![r].app = Append(@, s.mem), ![r].mem = 0]
     \/ /\ s.mem = 0 /\ 0 < s.validBegin /\ s.validBegin <= s.validEnd
        /\ rcv' = [rcv EXCEPT ![r].app = Append(@, Slot(s, s.validBegin)),
                              ![r].pkgs[s.validBegin % UnvalidPkgsSize] = 0,
                              ![r].validBegin = @ + 1]
  /\ UNCHANGED <<senderVars, nak, history, netVars, died>>

(* There is no more: set_ack() acknowledges every SendAckCnt packets.      *)
NoData(r) ==
  LET s == rcv[r]
      enough == 0 < s.latest /\ s.latest - s.confirmTmp >= SendAckCnt
  IN /\ s.ready
     /\ s.mem = 0 /\ ~ (0 < s.validBegin /\ s.validBegin <= s.validEnd)
     /\ rcv' = [rcv EXCEPT ![r].validBegin = 0, ![r].validEnd = 0, ![r].ready = FALSE,
                           ![r].confirmTmp = IF enough THEN s.latest ELSE @]
     /\ IF enough THEN UdpSendOrDie(Ack(r, s.latest))
                  ELSE UNCHANGED <<toSender, died>>
     /\ UNCHANGED <<senderVars, nak, history, odata>>

-----------------------------------------------------------------------------
(* A receiver's output task: the timers in handle_can_send, with no lock   *)
(* between them and the input task.                                        *)

(* set_ack(true) every 10 ms: whatever has been received is acknowledged.  *)
AckTimer(r) ==
  /\ nak[r].at = "idle"
  /\ 0 < rcv[r].latest
  /\ UdpSendOrDie(Ack(r, rcv[r].latest))
  /\ UNCHANGED <<senderVars, recverVars, odata>>

(* The nak timer sees a gap ...                                            *)
NakTimer(r) ==
  /\ nak[r].at = "idle"
  /\ rcv[r].latest < rcv[r].begin
  /\ nak' = [nak EXCEPT ![r].at = "begin"]
  /\ UNCHANGED <<senderVars, rcv, history, netVars, died>>

(* ... reads where it begins ...                                           *)
NakBegin(r) ==
  /\ nak[r].at = "begin"
  /\ nak' = [nak EXCEPT ![r] = [at |-> "end", begin |-> rcv[r].latest + 1]]
  /\ UNCHANGED <<senderVars, rcv, history, netVars, died>>

(* ... then where it ends, and asks for it.  The gap may be gone by then.  *)
NakEnd(r) ==
  LET end == (rcv[r].begin + U64 - 1) % U64 IN
  /\ nak[r].at = "end"
  /\ nak' = [nak EXCEPT ![r] = NoNak]
  /\ IF nak[r].begin <= end THEN UdpSendOrDie(Nak(r, nak[r].begin, end))
                            ELSE UNCHANGED <<toSender, died>>
  /\ UNCHANGED <<senderVars, rcv, history, odata>>

(* A receiver goes down and comes up again on the same address: a new      *)
(* socket with the same m_epid.                                            *)
Restart(r) ==
  /\ r \notin restarted /\ Cardinality(restarted) < MaxRestarts
  /\ restarted' = restarted \cup {r}
  /\ rcv' = [rcv EXCEPT ![r] = Fresh]
  /\ nak' = [nak EXCEPT ![r] = NoNak]
  /\ Overtakes(DataHead, rcv')
  /\ UNCHANGED <<senderVars, netVars, died>>

-----------------------------------------------------------------------------
Recver(r) ==
  \/ \E p \in 1 .. N : RecvOdata(r, p)
  \/ RecvHb(r) \/ GetNext(r) \/ NoData(r)
  \/ AckTimer(r) \/ NakTimer(r) \/ NakBegin(r) \/ NakEnd(r) \/ Restart(r)

Next ==
  /\ died = "no"
  /\ \/ Send \/ HbRefused \/ MulticastNext \/ CountSent
     \/ \E m \in toSender : HandleNak(m) \/ HandleAck(m)
     \/ \E r \in Recvers : Recver(r)

Spec == Init /\ [][Next]_vars

-----------------------------------------------------------------------------
TypeOK ==
  /\ {DataHead, DataTail, SendingSeqNo} \subseteq 0 .. N + 1
  /\ SendWin \in [0 .. SenderWinSize - 1 -> 0 .. N]
  /\ DOMAIN LastRecved \subseteq Recvers /\ Range(LastRecved) \subseteq 0 .. N
  /\ sent \in BOOLEAN
  /\ odata \subseteq 1 .. N
  /\ \A m \in toSender : m.id \in Recvers /\ m.type \in {"nak", "ack"}
  /\ \A r \in Recvers :
       /\ rcv[r].latest \in 0 .. N
       /\ Range(rcv[r].app) \subseteq 0 .. N
       /\ nak[r].at \in {"idle", "begin", "end"}

InOrder(r) == rcv[r].app = [i \in 1 .. Len(rcv[r].app) |-> i]

(* Whatever is lost, repeated or reordered, a receiver's application is    *)
(* given packets 1, 2, 3, ... with no gap, no repetition and no empty      *)
(* pointer (recvep_handle_odata, get_next_recved_data), unless the sender  *)
(* freed a packet that the receiver still needed.                          *)
DeliveredInOrder == \A r \in Recvers \ overtaken : InOrder(r)

(* The 64-bit test of handle_can_send never wraps: when the output task    *)
(* evaluates it no acknowledgement has moved the head past the packet it   *)
(* will send next, though the head may pass SendingSeqNo in the meantime.  *)
WindowTestNeverWraps ==
  DataHead <= SendingSeqNo + (IF sent THEN 2 ELSE 1)

(* A packet is freed only when every receiver the sender still counts has  *)
(* received it, receivers that lost their memory in a restart aside        *)
(* (sendep_handle_ack).                                                    *)
FreesOnlyWhatAllHave ==
  [][DataHead' > DataHead =>
       \A r \in DOMAIN LastRecved' :
          r \notin restarted => rcv[r].latest >= DataHead' - 1]_vars

(* Without that exception: recvep_handle_odata tests the limit of the      *)
(* buffer only when something is buffered already, so that a receiver that *)
(* was overtaken buffers packets further apart than the buffer has slots,  *)
(* and takes one for another.                                              *)
InOrderToAll == \A r \in Recvers : InOrder(r)

(* CMN_ASSERT(false) of sendep_handle_ack: no acknowledgement comes from   *)
(* behind the head.  A repeated one, or one as low as the last, does.      *)
AckNeverBehindHead == died # "ack"

(* "this will occurred when a receiver down, and up after later": the only *)
(* thing said to bring a nak for a packet outside the window is a receiver *)
(* that restarted (sn_socket_impl.cpp, sendep_handle_nak).                 *)
NakOutsideNeedsRestart ==
  died = "nak" => restarted # {}

=============================================================================
