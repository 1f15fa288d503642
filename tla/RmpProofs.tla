------------------------------- MODULE RmpProofs -------------------------------
(***************************************************************************)
(* The safety of Rmp for any number of receivers and packets, any window   *)
(* and any buffer that its assumption allows.                              *)
(***************************************************************************)
EXTENDS Rmp, DataLemmas

USE RmpAssumption

(* The last packet that was multicast.                                     *)
Top == SendingSeqNo + IF sent THEN 1 ELSE 0

(* The window holds the packets from the head to the tail, and the packets *)
(* on the net, acknowledged or counted as received are of those.           *)
SenderInv ==
  /\ DataHead \in Nat /\ SendingSeqNo \in Nat /\ DataTail \in 1 .. N + 1
  /\ sent \in BOOLEAN
  /\ Top < DataTail /\ DataHead <= Top + 1 /\ Top <= DataHead + Flight
  /\ DataTail - DataHead < SenderWinSize
  /\ SendWin \in [0 .. SenderWinSize - 1 -> 0 .. N]
  /\ \A s \in DataHead .. DataTail - 1 : SendWin[s % SenderWinSize] = s
  /\ odata \subseteq 1 .. Top

(* A receiver that did not restart has what it acknowledged.               *)
AckedInv(r, seq) == seq \in 0 .. Top /\ (r \notin restarted => seq <= rcv[r].latest)

LastRecvedInv ==
  /\ LastRecved = [r \in DOMAIN LastRecved |-> LastRecved[r]]
  /\ DOMAIN LastRecved \subseteq Recvers
  /\ \A r \in DOMAIN LastRecved : AckedInv(r, LastRecved[r])

(* A nak is for packets that were sent, or for one beyond the window.      *)
MessageInv(m) ==
  \/ m \in [type : {"ack"}, id : Recvers, seq : Nat] /\ AckedInv(m.id, m.seq)
  \/ /\ m \in [type : {"nak"}, id : Recvers, begin : Nat \ {0}, end : Nat]
     /\ m.end <= Top \/ m.end >= N + 1

RecverType ==
  [latest : 0 .. N, begin : 0 .. N, end : 0 .. N, validBegin : 0 .. N + 1,
   validEnd : 0 .. N, confirmTmp : 0 .. N, pkgs : [0 .. UnvalidPkgsSize - 1 -> 0 .. N],
   mem : 0 .. N, ready : BOOLEAN, app : Seq(0 .. N)]

(* What holds of every receiver: it knows of no packet that was not sent.  *)
Bounded(s, top) ==
  s.latest <= top /\ s.end <= top /\ s.begin <= s.end /\ (s.begin = 0 <=> s.end = 0)

(* The buffer: its range is past the next packet and no wider than it has  *)
(* slots, the ends of the range are there, and each slot holds a packet of *)
(* its own, from the range or from the run that is being handed out.       *)
Buffer(s) ==
  /\ s.begin # 0 =>
       /\ s.latest + 1 < s.begin /\ s.end <= s.latest + 1 + UnvalidPkgsSize
       /\ Slot(s, s.begin) = s.begin /\ Slot(s, s.end) = s.end
  /\ \A i \in 0 .. UnvalidPkgsSize - 1 : s.pkgs[i] # 0 =>
       /\ s.pkgs[i] % UnvalidPkgsSize = i
       /\ s.pkgs[i] \in (s.begin .. s.end) \cup (s.validBegin .. s.validEnd)

Counts(q) == q = [i \in 1 .. Len(q) |-> i]

InMem(s) == IF s.mem = 0 THEN 0 ELSE 1

(* What was handed out, the packet in m_pMem and the run that follows are  *)
(* the packets from 1 to the latest.                                       *)
Handing(s) ==
  /\ Counts(s.app)
  /\ s.mem # 0 => s.mem = Len(s.app) + 1
  /\ s.validBegin = 0 => s.validEnd = 0 /\ s.latest = Len(s.app) + InMem(s)
  /\ s.validBegin # 0 =>
       /\ s.validBegin = Len(s.app) + InMem(s) + 1
       /\ s.validEnd = s.latest /\ s.validBegin <= s.latest + 1
       /\ \A p \in s.validBegin .. s.validEnd : Slot(s, p) = p
  /\ ~ s.ready => s.mem = 0 /\ s.validBegin = 0

Good(s) == Buffer(s) /\ Handing(s)

RecverInv(r) ==
  /\ rcv[r] \in RecverType
  /\ Bounded(rcv[r], Top)
  /\ nak[r] \in [at : {"idle", "begin", "end"}, begin : Nat]
  /\ nak[r].at = "end" => nak[r].begin > 0
  /\ r \notin overtaken => DataHead <= rcv[r].latest + 1 /\ Good(rcv[r])

RmpInv ==
  /\ SenderInv
  /\ LastRecvedInv
  /\ \A m \in toSender : MessageInv(m)
  /\ DOMAIN rcv = Recvers /\ rcv = [r \in Recvers |-> rcv[r]]
  /\ DOMAIN nak = Recvers /\ nak = [r \in Recvers |-> nak[r]]
  /\ \A r \in Recvers : RecverInv(r)

-----------------------------------------------------------------------------
(* The buffer of a receiver.                                               *)

LEMMA RecverFields ==
  ASSUME NEW s \in RecverType
  PROVE  /\ s.latest \in 0 .. N /\ s.begin \in 0 .. N /\ s.end \in 0 .. N
         /\ s.validBegin \in 0 .. N + 1 /\ s.validEnd \in 0 .. N
         /\ s.confirmTmp \in 0 .. N /\ s.mem \in 0 .. N /\ s.ready \in BOOLEAN
         /\ s.pkgs \in [0 .. UnvalidPkgsSize - 1 -> 0 .. N]
         /\ s.app \in Seq(0 .. N) /\ Len(s.app) \in Nat
  BY DEF RecverType

LEMMA RecverNumbers ==
  ASSUME NEW s \in RecverType
  PROVE  /\ s.latest \in Nat /\ s.begin \in Nat /\ s.end \in Nat
         /\ s.validBegin \in Nat /\ s.validEnd \in Nat
  BY RecverFields

(* A receiver that reads its socket has handed out what it has.            *)
LEMMA HandedOut ==
  ASSUME NEW s \in RecverType, ~ s.ready, Handing(s)
  PROVE  s.mem = 0 /\ s.validBegin = 0 /\ s.validEnd = 0 /\ s.latest = Len(s.app)
  <1>1. s.mem = 0 /\ s.validBegin = 0
    BY DEF Handing
  <1>2. s.validEnd = 0 /\ s.latest = Len(s.app) + InMem(s)
    BY <1>1 DEF Handing
  <1>3. InMem(s) = 0 /\ Len(s.app) \in Nat
    BY <1>1, RecverFields DEF InMem
  <1> QED
    BY <1>1, <1>2, <1>3

LEMMA SlotType ==
  ASSUME NEW s \in RecverType, NEW p \in Nat
  PROVE  p % UnvalidPkgsSize \in 0 .. UnvalidPkgsSize - 1 /\ Slot(s, p) \in 0 .. N
  BY DivMod DEF RecverType, Slot

LEMMA ValidEndIs ==
  ASSUME NEW s \in RecverType, s.begin <= s.end
  PROVE  /\ ValidEnd(s) \in s.begin .. s.end
         /\ \A p \in s.begin + 1 .. ValidEnd(s) : Slot(s, p) # 0
         /\ ValidEnd(s) < s.end => Slot(s, ValidEnd(s) + 1) = 0
  <1> DEFINE E == {e \in s.begin .. s.end : \A p \in s.begin + 1 .. e : Slot(s, p) # 0}
  <1>1. s.begin \in Nat /\ s.end \in Nat
    BY DEF RecverType
  <1>2. E \in SUBSET Nat /\ s.begin \in E /\ \A e \in E : e <= s.end
    BY <1>1
  <1>3. Max(E) \in E /\ \A e \in E : Max(E) >= e
    <2> HIDE DEF E
    <2> QED BY <1>1, <1>2, MaxIsGreatest
  <1>4. ASSUME Max(E) < s.end, Slot(s, Max(E) + 1) # 0 PROVE FALSE
    <2>1. Max(E) + 1 \in s.begin .. s.end
      BY <1>1, <1>3, <1>4
    <2>2. ASSUME NEW p \in s.begin + 1 .. Max(E) + 1 PROVE Slot(s, p) # 0
      <3>1. p \in s.begin + 1 .. Max(E) \/ p = Max(E) + 1
        BY <1>1, <1>3
      <3> QED
        BY <3>1, <1>3, <1>4
    <2>3. Max(E) + 1 \in E
      BY <2>1, <2>2
    <2> QED
      BY <1>1, <1>3, <2>3
  <1>5. ValidEnd(s) = Max(E)
    BY DEF ValidEnd
  <1> QED
    BY <1>3, <1>4, <1>5

LEMMA NextBeginIs ==
  ASSUME NEW s \in RecverType, NEW e \in Nat, e < s.end
  PROVE  /\ NextBegin(s, e) \in e + 1 .. s.end
         /\ Slot(s, NextBegin(s, e)) # 0 \/ NextBegin(s, e) = s.end
         /\ \A p \in e + 1 .. NextBegin(s, e) - 1 : Slot(s, p) = 0
  <1> DEFINE B == {p \in e + 1 .. s.end : Slot(s, p) # 0} \cup {s.end}
  <1>1. s.end \in Nat
    BY DEF RecverType
  <1>2. B \in SUBSET Nat /\ s.end \in B
    BY <1>1
  <1>3. Min(B) \in B /\ \A p \in B : Min(B) <= p
    <2> HIDE DEF B
    <2> QED BY <1>2, MinIsLeast
  <1>4. NextBegin(s, e) = Min(B)
    BY DEF NextBegin
  <1>5. Min(B) \in e + 1 .. s.end
    BY <1>1, <1>3
  <1>6. ASSUME NEW p \in e + 1 .. Min(B) - 1 PROVE Slot(s, p) = 0
    <2>1. p \in e + 1 .. s.end /\ p < Min(B)
      BY <1>1, <1>5
    <2> QED
      BY <2>1, <1>3, <1>5
  <1> QED
    BY <1>3, <1>4, <1>5, <1>6

(* No packet of the range is taken for another one.                        *)
LEMMA SlotIsOwn ==
  ASSUME NEW s \in RecverType, Buffer(s), s.validBegin = 0, s.validEnd = 0,
         s.begin # 0, NEW p \in s.begin .. s.end, Slot(s, p) # 0
  PROVE  Slot(s, p) = p
  <1>0. s.latest \in Nat /\ s.begin \in Nat /\ s.end \in Nat /\ p \in Nat
    BY DEF RecverType
  <1>1. /\ s.latest \in Nat /\ s.begin \in Nat /\ s.end \in Nat
        /\ p \in Nat /\ Slot(s, p) \in Nat
    BY <1>0, SlotType
  <1>2. Slot(s, p) % UnvalidPkgsSize = p % UnvalidPkgsSize /\ Slot(s, p) \in s.begin .. s.end
    BY <1>1, SlotType DEF Buffer, Slot
  <1>3. s.latest + 1 < s.begin /\ s.end <= s.latest + 1 + UnvalidPkgsSize
    BY DEF Buffer
  <1>4. Slot(s, p) - p < UnvalidPkgsSize /\ p - Slot(s, p) < UnvalidPkgsSize
    BY <1>1, <1>2, <1>3
  <1> QED
    BY <1>1, <1>2, <1>4, SameSlot

-----------------------------------------------------------------------------
(* What a receiver does keeps what holds of it.                            *)

LEMMA HandleNextKeeps ==
  ASSUME NEW s \in RecverType, NEW p \in 1 .. N, NEW top \in Nat,
         p = s.latest + 1, p <= top, Bounded(s, top)
  PROVE  /\ HandleNext(s, p) \in RecverType
         /\ Bounded(HandleNext(s, p), top)
         /\ s.latest <= HandleNext(s, p).latest
         /\ ~ s.ready /\ Good(s) => Good(HandleNext(s, p))
  <1> DEFINE t == HandleNext(s, p)
             e == ValidEnd(s)
  <1>1. /\ s.latest \in 0 .. N /\ s.begin \in 0 .. N /\ s.end \in 0 .. N
        /\ s.begin <= s.end /\ s.end <= top /\ (s.begin = 0 <=> s.end = 0)
    BY DEF RecverType, Bounded
  <1>2. CASE p + 1 # s.begin
    <2>1. t = [s EXCEPT !.latest = p, !.mem = p, !.ready = TRUE]
      BY <1>2 DEF HandleNext
    <2>2. t \in RecverType
      <3>1. p \in 0 .. N
        OBVIOUS
      <3> HIDE DEF t
      <3> QED
        BY <2>1, <3>1, Zenon DEF RecverType
    <2>3. /\ t.begin = s.begin /\ t.end = s.end /\ t.pkgs = s.pkgs /\ t.latest = p
          /\ t.app = s.app /\ t.mem = p /\ t.ready
          /\ t.validBegin = s.validBegin /\ t.validEnd = s.validEnd
      <3> HIDE DEF t
      <3> QED
        BY <2>1 DEF RecverType
    <2>4. Bounded(t, top) /\ s.latest <= t.latest
      BY <1>1, <2>3 DEF Bounded
    <2>5. ASSUME ~ s.ready, Good(s) PROVE Good(t)
      <3> HIDE DEF t
      <3>1. s.mem = 0 /\ s.validBegin = 0 /\ s.validEnd = 0 /\ s.latest = Len(s.app)
        BY <2>5, HandedOut DEF Good
      <3>2. Buffer(t)
        BY <1>1, <1>2, <2>3, <2>5 DEF Good, Buffer, Slot
      <3>3. Handing(t)
        <4>1. Counts(t.app) /\ Len(t.app) \in Nat /\ InMem(t) = 1
          BY <2>3, <2>5, RecverFields DEF Good, Handing, InMem
        <4>2. t.mem = Len(t.app) + 1 /\ t.latest = Len(t.app) + InMem(t)
          BY <2>3, <3>1, <4>1
        <4> QED
          BY <2>3, <3>1, <4>1, <4>2 DEF Handing
      <3> QED
        BY <3>2, <3>3 DEF Good
    <2> QED
      BY <2>2, <2>4, <2>5
  <1>3. CASE p + 1 = s.begin
    <2>1. e \in s.begin .. s.end /\ (\A q \in s.begin + 1 .. e : Slot(s, q) # 0)
          /\ (e < s.end => Slot(s, e + 1) = 0)
      BY <1>1, ValidEndIs
    <2>2. e < s.end => /\ NextBegin(s, e) \in e + 1 .. s.end
                       /\ Slot(s, NextBegin(s, e)) # 0 \/ NextBegin(s, e) = s.end
                       /\ \A q \in e + 1 .. NextBegin(s, e) - 1 : Slot(s, q) = 0
      BY <1>1, <2>1, NextBeginIs
    <2>3. t = [s EXCEPT !.latest = e, !.mem = p, !.ready = TRUE,
                        !.validBegin = s.begin, !.validEnd = e,
                        !.begin = IF e < s.end THEN NextBegin(s, e) ELSE 0,
                        !.end   = IF e < s.end THEN s.end ELSE 0]
      BY <1>3 DEF HandleNext, RecverType
    <2>4. /\ t.latest = e /\ t.mem = p /\ t.ready /\ t.validBegin = s.begin
          /\ t.validEnd = e /\ t.pkgs = s.pkgs /\ t.app = s.app
          /\ t.begin = (IF e < s.end THEN NextBegin(s, e) ELSE 0)
          /\ t.end = (IF e < s.end THEN s.end ELSE 0)
      BY <2>3 DEF RecverType
    <2>5. t \in RecverType
      <3>1. (IF e < s.end THEN NextBegin(s, e) ELSE 0) \in 0 .. N
            /\ (IF e < s.end THEN s.end ELSE 0) \in 0 .. N /\ e \in 0 .. N
            /\ s.begin \in 0 .. N + 1
        BY <1>1, <2>1, <2>2
      <3>2. p \in 0 .. N
        OBVIOUS
      <3> HIDE DEF t, e
      <3> QED
        BY <2>3, <3>1, <3>2, Zenon DEF RecverType
    <2>6. Bounded(t, top) /\ s.latest <= t.latest
      BY <1>1, <1>3, <2>1, <2>2, <2>4 DEF Bounded
    <2>7. ASSUME ~ s.ready, Good(s) PROVE Good(t)
      <3>1. s.mem = 0 /\ s.validBegin = 0 /\ s.validEnd = 0 /\ s.latest = Len(s.app)
        BY <2>7, HandedOut DEF Good
      <3>2. /\ s.begin # 0 /\ s.latest + 1 < s.begin
            /\ s.end <= s.latest + 1 + UnvalidPkgsSize
            /\ Slot(s, s.begin) = s.begin /\ Slot(s, s.end) = s.end
        BY <1>1, <1>3, <2>7 DEF Good, Buffer
      <3>3. \A q \in s.begin .. s.end : Slot(s, q) # 0 => Slot(s, q) = q
        BY <2>7, <3>1, <3>2, SlotIsOwn DEF Good
      <3>4. \A q \in s.begin .. e : Slot(s, q) = q
        <4> TAKE q \in s.begin .. e
        <4>1. q \in s.begin .. s.end
          BY <1>1, <2>1
        <4>2. q = s.begin \/ q \in s.begin + 1 .. e
          BY <1>1, <2>1
        <4> QED
          BY <2>1, <3>2, <3>3, <4>1, <4>2
      <3>5. e < s.end => /\ t.begin \in e + 2 .. s.end
                         /\ Slot(s, t.begin) = t.begin
        <4>1. SUFFICES ASSUME e < s.end
                       PROVE  t.begin \in e + 2 .. s.end /\ Slot(s, t.begin) = t.begin
          OBVIOUS
        <4>2. t.begin \in e + 1 .. s.end /\ Slot(s, t.begin) # 0
          BY <1>1, <2>2, <2>4, <3>2, <4>1
        <4>3. t.begin # e + 1
          BY <2>1, <4>1, <4>2
        <4>4. t.begin \in e + 2 .. s.end /\ t.begin \in s.begin .. s.end
          BY <1>1, <2>1, <4>2, <4>3
        <4> QED
          BY <3>3, <4>2, <4>4
      <3>6. \A i \in 0 .. UnvalidPkgsSize - 1 : s.pkgs[i] # 0 =>
               /\ s.pkgs[i] % UnvalidPkgsSize = i
               /\ s.pkgs[i] \in (t.begin .. t.end) \cup (s.begin .. e)
        <4> TAKE i \in 0 .. UnvalidPkgsSize - 1
        <4> HAVE s.pkgs[i] # 0
        <4>1. s.pkgs[i] \in 0 .. N
          BY DEF RecverType
        <4>2. s.pkgs[i] % UnvalidPkgsSize = i /\ s.pkgs[i] \in s.begin .. s.end
          BY <2>7, <3>1, <4>1 DEF Good, Buffer
        <4>3. Slot(s, s.pkgs[i]) # 0
          BY <4>2 DEF Slot
        <4>4. CASE s.pkgs[i] <= e
          BY <1>1, <2>1, <4>1, <4>2, <4>4
        <4>5. CASE s.pkgs[i] > e
          <5>1. e < s.end /\ t.end = s.end /\ t.begin = NextBegin(s, e)
            BY <1>1, <2>1, <2>4, <4>1, <4>2, <4>5
          <5>2. s.pkgs[i] \in t.begin .. t.end
            <6> HIDE DEF t, e
            <6>1. s.pkgs[i] \notin e + 1 .. t.begin - 1
              BY <2>2, <4>3, <5>1
            <6>2. t.begin \in e + 2 .. s.end
              BY <3>5, <5>1
            <6> QED
              BY <1>1, <2>1, <4>1, <4>2, <4>5, <5>1, <6>1, <6>2
          <5> QED
            BY <4>2, <5>2
        <4> QED
          BY <1>1, <2>1, <4>1, <4>4, <4>5
      <3>7. Buffer(t)
        <4> HIDE DEF t, e
        <4>1. t.begin # 0 => e < s.end
          BY <2>4
        <4> QED
          BY <1>1, <1>3, <2>1, <2>4, <3>2, <3>5, <3>6, <4>1 DEF Buffer, Slot
      <3>8. Handing(t)
        <4> HIDE DEF t, e
        <4>1. \A q \in t.validBegin .. t.validEnd : Slot(t, q) = q
          BY <2>4, <3>4 DEF Slot
        <4>2. Counts(t.app) /\ Len(t.app) \in Nat /\ InMem(t) = 1
          BY <2>4, <2>7, RecverFields DEF Good, Handing, InMem
        <4>3. /\ t.mem = Len(t.app) + 1 /\ t.validEnd = t.latest
              /\ t.validBegin = Len(t.app) + InMem(t) + 1
              /\ t.validBegin <= t.latest + 1 /\ t.validBegin # 0
          <5>1. /\ t.mem = p /\ t.validEnd = t.latest /\ t.latest = e
                /\ t.validBegin = s.begin /\ t.app = s.app
            BY <2>4
          <5>2. p = Len(t.app) + 1 /\ s.begin = p + 1
            BY <1>3, <3>1, <5>1
          <5>3. e \in Nat /\ s.begin \in Nat /\ s.begin <= e /\ s.begin # 0
            BY <1>1, <2>1, <3>2
          <5> QED
            BY <4>2, <5>1, <5>2, <5>3
        <4> QED
          BY <2>4, <4>1, <4>2, <4>3 DEF Handing
      <3> QED
        BY <3>7, <3>8 DEF Good
    <2> QED
      BY <2>5, <2>6, <2>7
  <1> QED
    BY <1>2, <1>3

(* recvep_handle_odata with an early packet.                               *)
Buffered(s, p) == [Widened(s, p) EXCEPT !.pkgs[p % UnvalidPkgsSize] = p]

LEMMA BufferedKeeps ==
  ASSUME NEW s \in RecverType, NEW p \in 1 .. N, NEW top \in Nat,
         p > s.latest + 1, p <= top, Bounded(s, top), Slot(s, p) = 0
  PROVE  /\ Buffered(s, p) \in RecverType
         /\ Bounded(Buffered(s, p), top)
         /\ Buffered(s, p).latest = s.latest
         /\ ~ s.ready /\ Good(s) /\ p <= s.latest + 1 + UnvalidPkgsSize
              => Good(Buffered(s, p))
  <1> DEFINE t == Buffered(s, p)
             i == p % UnvalidPkgsSize
             begin == IF s.begin = 0 \/ p < s.begin THEN p ELSE s.begin
             end == IF s.begin = 0 \/ (p >= s.begin /\ p > s.end) THEN p ELSE s.end
             pkgs == [s.pkgs EXCEPT ![i] = p]
  <1>1. /\ s.latest \in 0 .. N /\ s.begin \in 0 .. N /\ s.end \in 0 .. N
        /\ s.begin <= s.end /\ s.end <= top /\ (s.begin = 0 <=> s.end = 0)
    BY DEF RecverType, Bounded
  <1>2. i \in 0 .. UnvalidPkgsSize - 1 /\ p \in 0 .. N /\ p \in Nat
    <2>1. p \in 0 .. N /\ p \in Nat
      OBVIOUS
    <2> QED
      BY <2>1, DivMod
  <1>3. begin \in 0 .. N /\ end \in 0 .. N
    BY <1>1, <1>2
  <1>4. pkgs \in [0 .. UnvalidPkgsSize - 1 -> 0 .. N]
    BY <1>2, RecverFields
  <1>5. t = [s EXCEPT !.begin = begin, !.end = end, !.pkgs = pkgs]
    BY DEF Buffered, Widened, RecverType
  <1>6. t \in RecverType
    <2> HIDE DEF t, begin, end, pkgs
    <2> QED
      BY <1>3, <1>4, <1>5, Zenon DEF RecverType
  <1>7. /\ t.begin = begin /\ t.end = end /\ t.pkgs = pkgs /\ t.latest = s.latest
        /\ t.app = s.app /\ t.mem = s.mem /\ t.ready = s.ready
        /\ t.validBegin = s.validBegin /\ t.validEnd = s.validEnd
    <2> HIDE DEF t, begin, end, pkgs
    <2> QED
      BY <1>5 DEF RecverType
  <1>8. Bounded(t, top)
    <2> HIDE DEF t, pkgs
    <2> QED
      BY <1>1, <1>7 DEF Bounded
  <1>9. ASSUME ~ s.ready, Good(s), p <= s.latest + 1 + UnvalidPkgsSize
        PROVE  Good(t)
    <2>1. s.mem = 0 /\ s.validBegin = 0 /\ s.validEnd = 0 /\ s.latest = Len(s.app)
      BY <1>9, HandedOut DEF Good
    <2>2. Handing(t)
      <3> HIDE DEF t, begin, end, pkgs
      <3>1. InMem(t) = 0 /\ InMem(s) = 0
        BY <1>7, <2>1 DEF InMem
      <3> QED
        BY <1>7, <1>9, <2>1, <3>1, RecverFields DEF Good, Handing
    <2>3. pkgs[i] = p /\ s.pkgs[i] = 0
          /\ \A j \in 0 .. UnvalidPkgsSize - 1 : j # i => pkgs[j] = s.pkgs[j]
      BY <1>2, RecverFields DEF Slot
    <2>4. \A q \in Nat : q = p \/ (Slot(s, q) = q /\ q # 0) => Slot(t, q) = q
      <3> TAKE q \in Nat
      <3> HIDE DEF t, begin, end, pkgs
      <3>1. CASE q = p
        BY <1>7, <2>3, <3>1 DEF Slot
      <3>2. CASE Slot(s, q) = q /\ q # 0
        <4>1. q % UnvalidPkgsSize \in 0 .. UnvalidPkgsSize - 1 /\ q % UnvalidPkgsSize # i
          BY <2>3, <3>2, DivMod DEF Slot
        <4> QED
          BY <1>7, <2>3, <3>2, <4>1 DEF Slot
      <3> QED
        BY <3>1, <3>2
    <2>5. /\ s.latest + 1 < begin /\ end <= s.latest + 1 + UnvalidPkgsSize
          /\ begin <= p /\ p <= end
          /\ s.begin # 0 => begin <= s.begin /\ s.end <= end
          /\ begin \in {p, s.begin} \ {0} /\ end \in {p, s.end} \ {0}
      BY <1>1, <1>2, <1>9 DEF Good, Buffer
    <2>6. Slot(t, begin) = begin /\ Slot(t, end) = end
      <3> HIDE DEF t, begin, end, pkgs
      <3>1. begin = p \/ (Slot(s, begin) = begin /\ begin # 0)
        BY <1>1, <1>9, <2>5 DEF Good, Buffer
      <3>2. end = p \/ (Slot(s, end) = end /\ end # 0)
        BY <1>1, <1>9, <2>5 DEF Good, Buffer
      <3> QED
        BY <1>3, <2>4, <3>1, <3>2
    <2>7. ASSUME NEW j \in 0 .. UnvalidPkgsSize - 1, pkgs[j] # 0
          PROVE  pkgs[j] % UnvalidPkgsSize = j /\ pkgs[j] \in begin .. end
      <3> HIDE DEF t, begin, end, pkgs
      <3>1. CASE j = i
        BY <1>2, <1>3, <2>3, <2>5, <3>1 DEF i
      <3>2. CASE j # i
        <4>1. pkgs[j] = s.pkgs[j] /\ pkgs[j] \in 0 .. N
          BY <1>4, <2>3, <3>2
        <4>2. pkgs[j] % UnvalidPkgsSize = j /\ pkgs[j] \in s.begin .. s.end
          BY <1>9, <2>1, <2>7, <4>1 DEF Good, Buffer
        <4>3. s.begin # 0
          BY <1>1, <2>7, <4>1, <4>2
        <4> QED
          BY <1>1, <1>3, <2>5, <4>1, <4>2, <4>3
      <3> QED
        BY <3>1, <3>2
    <2>8. Buffer(t)
      <3> HIDE DEF t, begin, end, pkgs
      <3> QED
        BY <1>7, <2>5, <2>6, <2>7 DEF Buffer
    <2> QED
      BY <2>2, <2>8 DEF Good
  <1> QED
    BY <1>6, <1>7, <1>8, <1>9

LEMMA CountsOn ==
  ASSUME NEW q \in Seq(0 .. N), NEW x \in 0 .. N, Counts(q), x = Len(q) + 1
  PROVE  Counts(Append(q, x))
  BY DEF Counts

(* get_next_recved_data: the packet in m_pMem.                             *)
GotMem(s) == [s EXCEPT !.app = Append(@, s.mem), !.mem = 0]

LEMMA GotMemKeeps ==
  ASSUME NEW s \in RecverType, s.ready, s.mem # 0, NEW top \in Nat, Bounded(s, top)
  PROVE  /\ GotMem(s) \in RecverType
         /\ Bounded(GotMem(s), top)
         /\ GotMem(s).latest = s.latest
         /\ Good(s) => Good(GotMem(s))
  <1> DEFINE t == GotMem(s)
             app == Append(s.app, s.mem)
  <1>1. app \in Seq(0 .. N) /\ Len(app) = Len(s.app) + 1
    BY RecverFields
  <1>2. t = [s EXCEPT !.app = app, !.mem = 0]
    BY DEF GotMem, RecverType
  <1>3. t \in RecverType
    <2>1. 0 \in 0 .. N
      OBVIOUS
    <2> HIDE DEF t, app
    <2> QED
      BY <1>1, <1>2, <2>1, Zenon DEF RecverType
  <1>4. /\ t.begin = s.begin /\ t.end = s.end /\ t.pkgs = s.pkgs /\ t.latest = s.latest
        /\ t.app = app /\ t.mem = 0 /\ t.ready = s.ready
        /\ t.validBegin = s.validBegin /\ t.validEnd = s.validEnd
    <2> HIDE DEF t, app
    <2> QED
      BY <1>2 DEF RecverType
  <1>5. Bounded(t, top)
    <2> HIDE DEF t, app
    <2> QED
      BY <1>4 DEF Bounded
  <1>6. ASSUME Good(s) PROVE Good(t)
    <2>1. Buffer(t)
      <3> HIDE DEF t, app
      <3> QED
        BY <1>4, <1>6 DEF Good, Buffer, Slot
    <2>2. s.mem = Len(s.app) + 1 /\ Counts(s.app) /\ InMem(s) = 1 /\ InMem(t) = 0
      <3> HIDE DEF t, app
      <3> QED
        BY <1>4, <1>6 DEF Good, Handing, InMem
    <2>3. Counts(app)
      BY <2>2, CountsOn, RecverFields
    <2>4. Handing(t)
      <3> HIDE DEF t, app
      <3>1. \A q \in s.validBegin .. s.validEnd : Slot(t, q) = Slot(s, q)
        BY <1>4 DEF Slot
      <3>2. s.validBegin = 0 => s.validEnd = 0 /\ s.latest = Len(app) + InMem(t)
        BY <1>1, <1>6, <2>2, RecverFields DEF Good, Handing
      <3>3. s.validBegin # 0 => /\ s.validBegin = Len(app) + InMem(t) + 1
                                /\ s.validEnd = s.latest /\ s.validBegin <= s.latest + 1
                                /\ \A q \in s.validBegin .. s.validEnd : Slot(t, q) = q
        <4>1. s.validBegin # 0 => /\ s.validBegin = Len(s.app) + InMem(s) + 1
                                  /\ s.validEnd = s.latest /\ s.validBegin <= s.latest + 1
                                  /\ \A q \in s.validBegin .. s.validEnd : Slot(s, q) = q
          BY <1>6 DEF Good, Handing
        <4>2. Len(app) + InMem(t) = Len(s.app) + InMem(s)
          BY <1>1, <2>2, RecverFields
        <4> QED
          BY <3>1, <4>1, <4>2
      <3> QED
        BY <1>4, <2>3, <3>2, <3>3 DEF Handing
    <2> QED
      BY <2>1, <2>4 DEF Good
  <1> QED
    BY <1>3, <1>4, <1>5, <1>6

(* get_next_recved_data: the next packet of the run.                       *)
GotValid(s) ==
  [s EXCEPT !.app = Append(@, Slot(s, s.validBegin)),
            !.pkgs[s.validBegin % UnvalidPkgsSize] = 0,
            !.validBegin = @ + 1]

LEMMA GotValidKeeps ==
  ASSUME NEW s \in RecverType, s.ready, s.mem = 0, 0 < s.validBegin,
         s.validBegin <= s.validEnd, NEW top \in Nat, Bounded(s, top)
  PROVE  /\ GotValid(s) \in RecverType
         /\ Bounded(GotValid(s), top)
         /\ GotValid(s).latest = s.latest
         /\ Good(s) => Good(GotValid(s))
  <1> DEFINE t == GotValid(s)
             v == s.validBegin
             i == v % UnvalidPkgsSize
             app == Append(s.app, Slot(s, v))
             pkgs == [s.pkgs EXCEPT ![i] = 0]
  <1>1. v \in 1 .. N /\ v \in Nat /\ v + 1 \in 0 .. N + 1 /\ s.validEnd \in 0 .. N
    BY RecverFields
  <1>2. i \in 0 .. UnvalidPkgsSize - 1 /\ Slot(s, v) \in 0 .. N
    BY <1>1, SlotType
  <1>3. app \in Seq(0 .. N) /\ Len(app) = Len(s.app) + 1
    BY <1>2, RecverFields
  <1>4. pkgs \in [0 .. UnvalidPkgsSize - 1 -> 0 .. N]
    <2>1. 0 \in 0 .. N
      OBVIOUS
    <2> QED
      BY <2>1, RecverFields
  <1>5. t = [s EXCEPT !.app = app, !.pkgs = pkgs, !.validBegin = v + 1]
    BY DEF GotValid, RecverType
  <1>6. t \in RecverType
    <2> HIDE DEF t, app, pkgs, v
    <2> QED
      BY <1>1, <1>3, <1>4, <1>5, Zenon DEF RecverType
  <1>7. /\ t.begin = s.begin /\ t.end = s.end /\ t.pkgs = pkgs /\ t.latest = s.latest
        /\ t.app = app /\ t.mem = s.mem /\ t.ready = s.ready
        /\ t.validBegin = v + 1 /\ t.validEnd = s.validEnd
    <2> HIDE DEF t, app, pkgs
    <2> QED
      BY <1>5 DEF RecverType
  <1>8. Bounded(t, top)
    <2> HIDE DEF t, app
    <2> QED
      BY <1>7 DEF Bounded
  <1>9. ASSUME Good(s) PROVE Good(t)
    <2>1. /\ Slot(s, v) = v /\ s.validEnd = s.latest /\ Counts(s.app)
          /\ v = Len(s.app) + 1 /\ InMem(s) = 0 /\ InMem(t) = 0
      <3> HIDE DEF t
      <3>1. InMem(s) = 0 /\ InMem(t) = 0
        BY <1>7 DEF InMem
      <3>2. v # 0 /\ v \in v .. s.validEnd
        BY <1>1
      <3> QED
        BY <1>9, <3>1, <3>2, RecverFields DEF Good, Handing
    <2>2. pkgs[i] = 0 /\ \A j \in 0 .. UnvalidPkgsSize - 1 : j # i => pkgs[j] = s.pkgs[j]
      BY <1>2, RecverFields
    <2>3. \A q \in Nat : Slot(s, q) = q /\ q # v => Slot(t, q) = q
      <3> TAKE q \in Nat
      <3> HAVE Slot(s, q) = q /\ q # v
      <3>1. q % UnvalidPkgsSize \in 0 .. UnvalidPkgsSize - 1 /\ q % UnvalidPkgsSize # i
        BY <2>1, DivMod DEF Slot
      <3> HIDE DEF t, pkgs
      <3> QED
        BY <1>7, <2>2, <3>1 DEF Slot
    <2>4. Buffer(t)
      <3> HIDE DEF t, app, pkgs
      <3>1. s.begin # 0 =>
              /\ s.latest + 1 < s.begin /\ s.end <= s.latest + 1 + UnvalidPkgsSize
              /\ Slot(t, s.begin) = s.begin /\ Slot(t, s.end) = s.end
        <4> HAVE s.begin # 0
        <4>1. /\ s.latest + 1 < s.begin /\ s.end <= s.latest + 1 + UnvalidPkgsSize
              /\ Slot(s, s.begin) = s.begin /\ Slot(s, s.end) = s.end
          BY <1>9 DEF Good, Buffer
        <4>2. s.begin \in Nat /\ s.end \in Nat /\ s.begin # v /\ s.end # v
          <5>1. s.begin \in Nat /\ s.end \in Nat /\ s.latest \in Nat /\ s.begin <= s.end
            BY RecverFields DEF Bounded
          <5>2. v <= s.latest
            BY <2>1
          <5> HIDE DEF v
          <5> QED
            BY <1>1, <4>1, <5>1, <5>2
        <4> QED
          BY <2>3, <4>1, <4>2
      <3>2. ASSUME NEW j \in 0 .. UnvalidPkgsSize - 1, pkgs[j] # 0
            PROVE  /\ pkgs[j] % UnvalidPkgsSize = j
                   /\ pkgs[j] \in (s.begin .. s.end) \cup (v + 1 .. s.validEnd)
        <4>1. j # i /\ pkgs[j] = s.pkgs[j] /\ pkgs[j] \in 0 .. N
          BY <1>4, <2>2, <3>2
        <4>2. /\ pkgs[j] % UnvalidPkgsSize = j
              /\ pkgs[j] \in (s.begin .. s.end) \cup (v .. s.validEnd)
          BY <1>9, <3>2, <4>1 DEF Good, Buffer
        <4>3. pkgs[j] # v
          BY <4>1, <4>2
        <4> QED
          BY <1>1, <4>1, <4>2, <4>3
      <3> QED
        BY <1>7, <3>1, <3>2 DEF Buffer
    <2>5. Handing(t)
      <3>1. Counts(app)
        BY <1>1, <1>2, <2>1, CountsOn, RecverFields
      <3> HIDE DEF t, app, pkgs
      <3>2. ASSUME NEW q \in v + 1 .. s.validEnd PROVE Slot(t, q) = q
        <4>1. q \in Nat /\ q # v /\ q \in s.validBegin .. s.validEnd /\ s.validBegin # 0
          BY <1>1
        <4>2. Slot(s, q) = q
          BY <1>9, <4>1 DEF Good, Handing
        <4> QED
          BY <2>3, <4>1, <4>2
      <3>3. /\ v + 1 = Len(app) + InMem(t) + 1 /\ v + 1 <= s.latest + 1 /\ v + 1 # 0
        <4>1. Len(s.app) \in Nat /\ s.latest \in Nat
          BY RecverFields
        <4>2. v <= s.latest
          BY <2>1
        <4>3. Len(app) = Len(s.app) + 1 /\ InMem(t) = 0 /\ v = Len(s.app) + 1 /\ v \in Nat
          BY <1>1, <1>3, <2>1
        <4> HIDE DEF v
        <4> QED
          BY <4>1, <4>2, <4>3
      <3> QED
        BY <1>7, <2>1, <3>1, <3>2, <3>3 DEF Handing
    <2> QED
      BY <2>4, <2>5 DEF Good
  <1> QED
    BY <1>6, <1>7, <1>8, <1>9

(* get_next_recved_data: there is no more.                                 *)
Emptied(s, c) ==
  [s EXCEPT !.validBegin = 0, !.validEnd = 0, !.ready = FALSE, !.confirmTmp = c]

LEMMA EmptiedKeeps ==
  ASSUME NEW s \in RecverType, s.ready, s.mem = 0, NEW c \in 0 .. N,
         ~ (0 < s.validBegin /\ s.validBegin <= s.validEnd), NEW top \in Nat,
         Bounded(s, top)
  PROVE  /\ Emptied(s, c) \in RecverType
         /\ Bounded(Emptied(s, c), top)
         /\ Emptied(s, c).latest = s.latest
         /\ Good(s) => Good(Emptied(s, c))
  <1> DEFINE t == Emptied(s, c)
  <1>1. t = [s EXCEPT !.validBegin = 0, !.validEnd = 0, !.ready = FALSE, !.confirmTmp = c]
    BY DEF Emptied
  <1>2. t \in RecverType
    <2>1. 0 \in 0 .. N /\ 0 \in 0 .. N + 1
      OBVIOUS
    <2> HIDE DEF t
    <2> QED
      BY <1>1, <2>1, Zenon DEF RecverType
  <1>3. /\ t.begin = s.begin /\ t.end = s.end /\ t.pkgs = s.pkgs /\ t.latest = s.latest
        /\ t.app = s.app /\ t.mem = s.mem /\ t.ready = FALSE
        /\ t.validBegin = 0 /\ t.validEnd = 0
    <2> HIDE DEF t
    <2> QED
      BY <1>1 DEF RecverType
  <1> HIDE DEF t
  <1>4. Bounded(t, top)
    BY <1>3 DEF Bounded
  <1>5. ASSUME Good(s) PROVE Good(t)
    <2>1. InMem(s) = 0 /\ InMem(t) = 0
      BY <1>3 DEF InMem
    <2>2. s.latest = Len(s.app)
      <3>1. /\ s.validBegin \in Nat /\ s.validEnd \in Nat
            /\ s.latest \in Nat /\ Len(s.app) \in Nat
        BY RecverFields
      <3>2. CASE s.validBegin = 0
        BY <1>5, <2>1, <3>1, <3>2 DEF Good, Handing
      <3>3. CASE s.validBegin # 0
        <4>1. /\ s.validBegin = Len(s.app) + InMem(s) + 1
              /\ s.validEnd = s.latest /\ s.validBegin <= s.latest + 1
          BY <1>5, <3>3 DEF Good, Handing
        <4>2. s.validBegin = Len(s.app) + 1
          BY <2>1, <3>1, <4>1
        <4>3. s.validBegin = s.latest + 1
          BY <3>1, <3>3, <4>1
        <4> QED
          BY <3>1, <4>2, <4>3
      <3> QED
        BY <3>2, <3>3
    <2>3. Handing(t)
      BY <1>3, <1>5, <2>1, <2>2, RecverFields DEF Good, Handing
    <2>4. ASSUME NEW j \in 0 .. UnvalidPkgsSize - 1, s.pkgs[j] # 0
          PROVE  s.pkgs[j] % UnvalidPkgsSize = j /\ s.pkgs[j] \in s.begin .. s.end
      <3>1. s.pkgs[j] \in 0 .. N
        BY RecverFields
      <3>2. /\ s.pkgs[j] % UnvalidPkgsSize = j
            /\ s.pkgs[j] \in (s.begin .. s.end) \cup (s.validBegin .. s.validEnd)
        BY <1>5, <2>4 DEF Good, Buffer
      <3>3. s.validBegin = 0 => s.validEnd = 0
        BY <1>5 DEF Good, Handing
      <3>4. s.validBegin \in Nat /\ s.validEnd \in Nat /\ s.begin \in Nat /\ s.end \in Nat
        BY RecverNumbers
      <3>5. s.pkgs[j] \notin s.validBegin .. s.validEnd
        BY <2>4, <3>1, <3>3, <3>4
      <3> QED
        BY <3>2, <3>5
    <2>5. Buffer(t)
      <3>1. s.begin # 0 =>
              /\ s.latest + 1 < s.begin /\ s.end <= s.latest + 1 + UnvalidPkgsSize
              /\ Slot(s, s.begin) = s.begin /\ Slot(s, s.end) = s.end
        BY <1>5 DEF Good, Buffer
      <3>2. Slot(t, s.begin) = Slot(s, s.begin) /\ Slot(t, s.end) = Slot(s, s.end)
        BY <1>3 DEF Slot
      <3>3. \A j \in 0 .. UnvalidPkgsSize - 1 : t.pkgs[j] # 0 =>
              /\ t.pkgs[j] % UnvalidPkgsSize = j
              /\ t.pkgs[j] \in (t.begin .. t.end) \cup (t.validBegin .. t.validEnd)
        BY <1>3, <2>4
      <3> QED
        BY <1>3, <3>1, <3>2, <3>3 DEF Buffer
    <2> QED
      BY <2>3, <2>5 DEF Good
  <1> QED
    BY <1>2, <1>3, <1>4, <1>5 DEF t

-----------------------------------------------------------------------------
(* The invariant: a receiver's step.                                       *)

LEMMA FreshIs ==
  Fresh \in RecverType /\ (\A top \in Nat : Bounded(Fresh, top)) /\ Good(Fresh)
  <1>1. Fresh \in RecverType
    BY DEF Fresh, RecverType
  <1>2. \A top \in Nat : Bounded(Fresh, top)
    BY DEF Fresh, Bounded
  <1>3. Counts(<<>>) /\ Len(<<>>) = 0
    BY DEF Counts
  <1>4. InMem(Fresh) = 0
    BY DEF Fresh, InMem
  <1>5. Buffer(Fresh)
    BY DEF Fresh, Buffer
  <1>6. Handing(Fresh)
    BY <1>3, <1>4 DEF Fresh, Handing
  <1> QED
    BY <1>1, <1>2, <1>5, <1>6 DEF Good

LEMMA TopType == SenderInv => Top \in Nat /\ Top <= N
  BY DEF SenderInv, Top

(* What the sender counts, without its window.                             *)
LEMMA SenderNumbers ==
  ASSUME RmpInv
  PROVE  /\ DataHead \in Nat /\ SendingSeqNo \in Nat /\ DataTail \in 1 .. N + 1
         /\ sent \in BOOLEAN /\ Top \in Nat
         /\ Top < DataTail /\ DataHead <= Top + 1 /\ Top <= DataHead + Flight
         /\ odata \subseteq 1 .. Top
  <1>1. SenderInv
    BY DEF RmpInv
  <1> QED
    BY <1>1, TopType DEF SenderInv

LEMMA InitInv == Init => RmpInv
  <1> SUFFICES ASSUME Init PROVE RmpInv
    OBVIOUS
  <1>0. Top = 0 /\ 0 % SenderWinSize = 0 /\ DataTail \in 1 .. N + 1
    BY ModOfSmall DEF Init, Top
  <1>1. SenderInv
    <2>1. SendWin \in [0 .. SenderWinSize - 1 -> 0 .. N]
      BY DEF Init
    <2>2. \A s \in DataHead .. DataTail - 1 : SendWin[s % SenderWinSize] = s
      <3>1. \A s \in DataHead .. DataTail - 1 : s = 0
        BY DEF Init
      <3> QED
        BY <1>0, <3>1 DEF Init
    <2> QED
      BY <1>0, <2>1, <2>2 DEF Init, SenderInv
  <1>2. LastRecvedInv
    BY DEF Init, LastRecvedInv
  <1>3. \A r \in Recvers : RecverInv(r)
    <2> TAKE r \in Recvers
    <2>1. rcv[r] = Fresh /\ nak[r] = NoNak /\ Fresh.latest = 0 /\ DataHead = 0
      BY DEF Init, Fresh
    <2>2. Fresh \in RecverType /\ Bounded(Fresh, Top) /\ Good(Fresh)
      BY <1>0, FreshIs
    <2>3. /\ NoNak \in [at : {"idle", "begin", "end"}, begin : Nat]
          /\ NoNak.at # "end"
      BY DEF NoNak
    <2> QED
      BY <2>1, <2>2, <2>3 DEF RecverInv
  <1> QED
    BY <1>1, <1>2, <1>3 DEF Init, RmpInv

(* A step of one receiver, whatever it is, that counts nothing back and    *)
(* sends no more than one nak or ack.                                      *)
LEMMA RecverStep ==
  ASSUME RmpInv, NEW r \in Recvers, NEW t \in RecverType, Bounded(t, Top),
         rcv[r].latest <= t.latest, r \notin overtaken => Good(t),
         rcv' = [rcv EXCEPT ![r] = t], UNCHANGED <<senderVars, nak, history, odata>>,
         \A m \in toSender' : m \in toSender \/ MessageInv(m)
  PROVE  RmpInv'
  <1>1. SenderInv' /\ Top' = Top
    BY DEF RmpInv, SenderInv, Top, senderVars
  <1>2. \A q \in Recvers : RecverInv(q) /\ rcv[q] \in RecverType
    BY DEF RmpInv, RecverInv
  <1>3. DOMAIN rcv = Recvers
    BY DEF RmpInv
  <1>4. \A q \in Recvers : rcv'[q] = IF q = r THEN t ELSE rcv[q]
    BY <1>3
  <1>5. \A q \in Recvers : rcv[q].latest \in Nat /\ rcv'[q].latest \in Nat
                           /\ rcv[q].latest <= rcv'[q].latest
    <2> TAKE q \in Recvers
    <2>1. rcv[q].latest \in Nat /\ t.latest \in Nat
      BY <1>2, RecverFields
    <2> QED
      BY <1>4, <2>1
  <1>6. \A q \in Recvers, seq \in Nat : AckedInv(q, seq) => AckedInv(q, seq)'
    <2> TAKE q \in Recvers, seq \in Nat
    <2>1. rcv[q].latest \in Nat /\ rcv'[q].latest \in Nat
          /\ rcv[q].latest <= rcv'[q].latest
      BY <1>5
    <2> QED
      BY <1>1, <2>1 DEF AckedInv, history
  <1>7. LastRecvedInv'
    <2>1. LastRecved' = LastRecved
      BY DEF senderVars
    <2>2. \A q \in DOMAIN LastRecved : q \in Recvers /\ LastRecved[q] \in Nat
                                       /\ AckedInv(q, LastRecved[q])
      BY DEF RmpInv, LastRecvedInv, AckedInv
    <2> QED
      BY <1>6, <2>1, <2>2 DEF RmpInv, LastRecvedInv
  <1>8. \A m \in toSender' : MessageInv(m)'
    <2> TAKE m \in toSender'
    <2>1. MessageInv(m)
      BY DEF RmpInv
    <2> QED
      BY <1>1, <1>6, <2>1 DEF MessageInv
  <1>9. \A q \in Recvers : RecverInv(q)'
    <2> TAKE q \in Recvers
    <2>1. UNCHANGED <<nak, overtaken, DataHead>>
      BY DEF history, senderVars
    <2>2. CASE q = r
      <3>1. rcv'[q] = t
        BY <1>4, <2>2
      <3>2. rcv[q].latest \in Nat /\ t.latest \in Nat
        BY <2>2, <1>5, <3>1
      <3>3. DataHead \in Nat
        <4>1. SenderInv
          BY DEF RmpInv
        <4> QED
          BY <4>1 DEF SenderInv
      <3>4. r \notin overtaken => DataHead <= t.latest + 1
        <4>1. r \notin overtaken => DataHead <= rcv[r].latest + 1
          BY <1>2 DEF RecverInv
        <4> QED
          BY <2>2, <3>2, <3>3, <4>1
      <3>5. /\ nak[q] \in [at : {"idle", "begin", "end"}, begin : Nat]
            /\ nak[q].at = "end" => nak[q].begin > 0
        BY <1>2, <2>2 DEF RecverInv
      <3> QED
        BY <1>1, <2>1, <2>2, <3>1, <3>4, <3>5 DEF RecverInv
    <2>3. CASE q # r
      <3>1. rcv'[q] = rcv[q]
        BY <1>4, <2>3
      <3> QED
        BY <1>1, <1>2, <2>1, <3>1 DEF RecverInv
    <2> QED
      BY <2>2, <2>3
  <1> QED
    BY <1>1, <1>3, <1>7, <1>8, <1>9 DEF RmpInv, senderVars, history

NakType == [at : {"idle", "begin", "end"}, begin : Nat]

(* A step of a receiver's output task.                                     *)
LEMMA TimerStep ==
  ASSUME RmpInv, NEW r \in Recvers, NEW n \in NakType, n.at = "end" => n.begin > 0,
         nak' = [nak EXCEPT ![r] = n], UNCHANGED <<senderVars, rcv, history, odata>>,
         \A m \in toSender' : m \in toSender \/ MessageInv(m)
  PROVE  RmpInv'
  <1>1. SenderInv' /\ Top' = Top
    BY DEF RmpInv, SenderInv, Top, senderVars
  <1>2. LastRecvedInv'
    BY <1>1 DEF RmpInv, LastRecvedInv, AckedInv, senderVars, history
  <1>3. \A m \in toSender' : MessageInv(m)'
    BY <1>1 DEF RmpInv, MessageInv, AckedInv, history, senderVars
  <1>4. \A q \in Recvers : RecverInv(q)'
    <2> TAKE q \in Recvers
    <2>1. nak'[q] = IF q = r THEN n ELSE nak[q]
      BY DEF RmpInv
    <2> QED
      BY <1>1, <2>1 DEF RmpInv, RecverInv, NakType, history, senderVars
  <1> QED
    BY <1>1, <1>2, <1>3, <1>4 DEF RmpInv

LEMMA Known ==
  ASSUME RmpInv, NEW r \in Recvers
  PROVE  /\ rcv[r] \in RecverType /\ Bounded(rcv[r], Top)
         /\ rcv[r].latest \in 0 .. Top /\ rcv[r].end \in 0 .. Top
         /\ Top \in Nat /\ Top <= N /\ nak[r] \in NakType
         /\ rcv = [rcv EXCEPT ![r] = rcv[r]] /\ nak = [nak EXCEPT ![r] = nak[r]]
         /\ r \notin overtaken => Good(rcv[r]) /\ Top <= rcv[r].latest + 1 + UnvalidPkgsSize
  <1>1. RecverInv(r) /\ SenderInv
    BY DEF RmpInv
  <1>2. Top \in Nat /\ Top <= N
    BY <1>1, TopType
  <1>3. rcv[r].latest \in Nat /\ rcv[r].end \in Nat
    BY <1>1, RecverFields DEF RecverInv
  <1>4. r \notin overtaken => Top <= rcv[r].latest + 1 + UnvalidPkgsSize
    <2> HAVE r \notin overtaken
    <2>1. DataHead <= rcv[r].latest + 1 /\ Top <= DataHead + Flight /\ DataHead \in Nat
      BY <1>1 DEF RecverInv, SenderInv
    <2>2. Flight \in Nat /\ UnvalidPkgsSize \in Nat /\ Flight <= UnvalidPkgsSize
      OBVIOUS
    <2> QED
      BY <1>2, <1>3, <2>1, <2>2
  <1>5. rcv[r].latest \in 0 .. Top /\ rcv[r].end \in 0 .. Top
    BY <1>1, <1>2, <1>3 DEF RecverInv, Bounded
  <1>6. rcv = [rcv EXCEPT ![r] = rcv[r]] /\ nak = [nak EXCEPT ![r] = nak[r]]
    BY DEF RmpInv
  <1> QED
    BY <1>1, <1>2, <1>4, <1>5, <1>6 DEF RecverInv, NakType

(* A nak or an ack that leaves now.                                        *)
LEMMA AckIs ==
  ASSUME RmpInv, NEW r \in Recvers
  PROVE  MessageInv(Ack(r, rcv[r].latest))
  BY Known DEF MessageInv, Ack, AckedInv

LEMMA NakIs ==
  ASSUME NEW r \in Recvers, NEW b \in Nat \ {0}, NEW e \in Nat, e <= Top \/ e >= N + 1
  PROVE  MessageInv(Nak(r, b, e))
  BY DEF MessageInv, Nak

LEMMA Sends ==
  ASSUME NEW m, MessageInv(m), UdpSend(m) \/ UdpSendOrDie(m)
  PROVE  \A x \in toSender' : x \in toSender \/ MessageInv(x)
  BY DEF UdpSend, UdpSendOrDie

LEMMA RecvOdataInv ==
  ASSUME RmpInv, NEW r \in Recvers, NEW p \in 1 .. N, RecvOdata(r, p)
  PROVE  RmpInv'
  <1> DEFINE s == rcv[r]
  <1>1. s \in RecverType /\ Bounded(s, Top) /\ Top \in Nat /\ rcv = [rcv EXCEPT ![r] = s]
        /\ (r \notin overtaken => Good(s)) /\ s.latest \in Nat
    BY Known
  <1>2. ~ s.ready /\ p <= Top
    <2>1. p \in odata /\ odata \subseteq 1 .. Top /\ ~ s.ready
      BY DEF RecvOdata, Receiving, Arrives, RmpInv, SenderInv
    <2> QED
      BY <1>1, <2>1
  <1>3. r \notin overtaken => p <= s.latest + 1 + UnvalidPkgsSize
    BY <1>1, <1>2, Known
  <1>4. UNCHANGED <<senderVars, nak, history, odata>> /\ toSender' = toSender
    BY DEF RecvOdata, netVars
  <1>5. CASE p = s.latest + 1 /\ rcv' = [rcv EXCEPT ![r] = HandleNext(s, p)]
    BY <1>1, <1>2, <1>4, <1>5, HandleNextKeeps, RecverStep
  <1>6. CASE /\ p > s.latest + 1 /\ Slot(s, p) = 0
             /\ rcv' = [rcv EXCEPT ![r] = Buffered(s, p)]
    <2> DEFINE t == Buffered(s, p)
    <2>1. /\ t \in RecverType /\ Bounded(t, Top) /\ rcv[r].latest <= t.latest
          /\ (r \notin overtaken => Good(t)) /\ rcv' = [rcv EXCEPT ![r] = t]
      BY <1>1, <1>2, <1>3, <1>6, BufferedKeeps
    <2> HIDE DEF t
    <2> QED
      BY <1>4, <2>1, RecverStep
  <1>7. CASE rcv' = rcv
    BY <1>1, <1>4, <1>7, RecverStep
  <1> QED
    BY <1>5, <1>6, <1>7 DEF RecvOdata, Buffered

LEMMA GetNextInv ==
  ASSUME RmpInv, NEW r \in Recvers, GetNext(r)
  PROVE  RmpInv'
  <1> DEFINE s == rcv[r]
  <1>1. s \in RecverType /\ Bounded(s, Top) /\ Top \in Nat /\ DOMAIN rcv = Recvers
        /\ (r \notin overtaken => Good(s)) /\ s.latest \in Nat
    BY Known DEF RmpInv
  <1>2. UNCHANGED <<senderVars, nak, history, odata>> /\ toSender' = toSender /\ s.ready
    BY DEF GetNext, netVars
  <1>3. CASE s.mem # 0 /\ rcv' = [rcv EXCEPT ![r] = GotMem(s)]
    <2> DEFINE t == GotMem(s)
    <2>1. /\ t \in RecverType /\ Bounded(t, Top) /\ rcv[r].latest <= t.latest
          /\ (r \notin overtaken => Good(t)) /\ rcv' = [rcv EXCEPT ![r] = t]
      BY <1>1, <1>2, <1>3, GotMemKeeps
    <2> HIDE DEF t
    <2> QED
      BY <1>2, <2>1, RecverStep
  <1>4. CASE /\ s.mem = 0 /\ 0 < s.validBegin /\ s.validBegin <= s.validEnd
             /\ rcv' = [rcv EXCEPT ![r] = GotValid(s)]
    <2> DEFINE t == GotValid(s)
    <2>1. /\ t \in RecverType /\ Bounded(t, Top) /\ rcv[r].latest <= t.latest
          /\ (r \notin overtaken => Good(t)) /\ rcv' = [rcv EXCEPT ![r] = t]
      BY <1>1, <1>2, <1>4, GotValidKeeps
    <2> HIDE DEF t
    <2> QED
      BY <1>2, <2>1, RecverStep
  <1> QED
    BY <1>1, <1>3, <1>4 DEF GetNext, GotMem, GotValid

LEMMA NoDataInv ==
  ASSUME RmpInv, NEW r \in Recvers, NoData(r)
  PROVE  RmpInv'
  <1> DEFINE s == rcv[r]
             enough == 0 < s.latest /\ s.latest - s.confirmTmp >= SendAckCnt
             c == IF enough THEN s.latest ELSE s.confirmTmp
  <1>1. s \in RecverType /\ Bounded(s, Top) /\ Top \in Nat /\ DOMAIN rcv = Recvers
        /\ (r \notin overtaken => Good(s)) /\ s.latest \in Nat
    BY Known DEF RmpInv
  <1>2. /\ UNCHANGED <<senderVars, nak, history, odata>> /\ s.ready /\ s.mem = 0
        /\ ~ (0 < s.validBegin /\ s.validBegin <= s.validEnd)
    BY DEF NoData
  <1>3. rcv' = [rcv EXCEPT ![r] = Emptied(s, c)]
    BY <1>1 DEF NoData, Emptied
  <1>4. c \in 0 .. N
    BY <1>1, RecverFields
  <1>5. \A m \in toSender' : m \in toSender \/ MessageInv(m)
    <2>1. UdpSendOrDie(Ack(r, s.latest)) \/ toSender' = toSender
      BY DEF NoData
    <2> QED
      BY <2>1, AckIs, Sends
  <1>6. /\ Emptied(s, c) \in RecverType /\ Bounded(Emptied(s, c), Top)
        /\ Emptied(s, c).latest = s.latest
        /\ r \notin overtaken => Good(Emptied(s, c))
    <2> HIDE DEF c
    <2> QED
      BY <1>1, <1>2, <1>4, EmptiedKeeps
  <1> DEFINE t == Emptied(s, c)
  <1>7. /\ t \in RecverType /\ Bounded(t, Top) /\ rcv[r].latest <= t.latest
        /\ (r \notin overtaken => Good(t)) /\ rcv' = [rcv EXCEPT ![r] = t]
    BY <1>1, <1>3, <1>6
  <1> HIDE DEF t
  <1> QED
    BY <1>2, <1>5, <1>7, RecverStep

LEMMA RecvHbInv ==
  ASSUME RmpInv, NEW r \in Recvers, RecvHb(r)
  PROVE  RmpInv'
  <1>1. MessageInv(Nak(r, rcv[r].latest + 1, HbSeqNo))
    <2>1. rcv[r].latest \in Nat /\ rcv[r].latest + 1 \in Nat \ {0}
      <3>1. rcv[r].latest \in 0 .. Top /\ Top \in Nat
        BY Known
      <3> QED
        BY <3>1
    <2>2. HbSeqNo \in Nat /\ HbSeqNo <= Top
      <3>1. SendingSeqNo \in Nat
        BY DEF RmpInv, SenderInv
      <3> QED
        BY <3>1 DEF HbSeqNo, Top
    <2> QED
      BY <2>1, <2>2, NakIs
  <1>2. \A m \in toSender' : m \in toSender \/ MessageInv(m)
    BY <1>1, Sends DEF RecvHb
  <1>3. /\ UNCHANGED <<senderVars, rcv, history, odata>>
        /\ nak' = [nak EXCEPT ![r] = nak[r]] /\ nak[r] \in NakType
        /\ nak[r].at = "end" => nak[r].begin > 0
    BY Known DEF RecvHb, recverVars, RmpInv, RecverInv
  <1> QED
    BY <1>2, <1>3, TimerStep

LEMMA AckTimerInv ==
  ASSUME RmpInv, NEW r \in Recvers, AckTimer(r)
  PROVE  RmpInv'
  <1>1. \A m \in toSender' : m \in toSender \/ MessageInv(m)
    BY AckIs, Sends DEF AckTimer
  <1>2. /\ UNCHANGED <<senderVars, rcv, history, odata>>
        /\ nak' = [nak EXCEPT ![r] = nak[r]] /\ nak[r] \in NakType
        /\ nak[r].at = "end" => nak[r].begin > 0
    BY Known DEF AckTimer, recverVars, RmpInv, RecverInv
  <1> QED
    BY <1>1, <1>2, TimerStep

LEMMA NakTimerInv ==
  ASSUME RmpInv, NEW r \in Recvers, NakTimer(r) \/ NakBegin(r)
  PROVE  RmpInv'
  <1>1. CASE NakTimer(r)
    <2> DEFINE n == [nak[r] EXCEPT !.at = "begin"]
    <2>1. n \in NakType /\ n.at = "begin" /\ nak' = [nak EXCEPT ![r] = n]
      BY <1>1, Known DEF NakTimer, NakType
    <2> HIDE DEF n
    <2> QED
      BY <1>1, <2>1, TimerStep DEF NakTimer, netVars
  <1>2. CASE NakBegin(r)
    <2> DEFINE n == [at |-> "end", begin |-> rcv[r].latest + 1]
    <2>1. n \in NakType /\ n.begin > 0 /\ nak' = [nak EXCEPT ![r] = n]
      BY <1>2, Known DEF NakBegin, NakType
    <2> HIDE DEF n
    <2> QED
      BY <1>2, <2>1, TimerStep DEF NakBegin, netVars
  <1> QED
    BY <1>1, <1>2

LEMMA NakEndInv ==
  ASSUME RmpInv, NEW r \in Recvers, NakEnd(r)
  PROVE  RmpInv'
  <1> DEFINE b == rcv[r].begin
             end == (b + U64 - 1) % U64
  <1>1. end \in Nat /\ (end <= Top \/ end >= N + 1)
    <2>1. b \in 0 .. Top /\ Top <= N /\ Top \in Nat
      <3>1. b \in Nat /\ rcv[r].end \in 0 .. Top /\ b <= rcv[r].end /\ Top <= N
            /\ Top \in Nat
        BY Known, RecverFields DEF Bounded
      <3> QED
        BY <3>1
    <2>2. CASE b = 0
      <3>1. b + U64 - 1 = U64 - 1 /\ U64 - 1 \in Nat
        BY <2>2
      <3>2. end = U64 - 1
        BY <3>1, ModOfSmall
      <3> QED
        BY <3>1, <3>2
    <2>3. CASE b # 0
      <3>1. b - 1 \in Nat /\ b - 1 < U64 /\ b + U64 - 1 = (b - 1) + U64
        BY <2>1, <2>3
      <3>2. end = b - 1
        BY <3>1, ModOfSum
      <3> QED
        BY <2>1, <3>1, <3>2
    <2> QED
      BY <2>2, <2>3
  <1>2. nak[r].begin \in Nat \ {0}
    BY DEF NakEnd, RmpInv, RecverInv
  <1>3. \A m \in toSender' : m \in toSender \/ MessageInv(m)
    <2>1. UdpSendOrDie(Nak(r, nak[r].begin, end)) \/ toSender' = toSender
      BY DEF NakEnd
    <2> HIDE DEF end
    <2> QED
      BY <1>1, <1>2, <2>1, NakIs, Sends
  <1>4. NoNak \in NakType /\ NoNak.at = "idle"
    BY DEF NoNak, NakType
  <1> QED
    BY <1>3, <1>4, TimerStep DEF NakEnd

LEMMA RestartInv ==
  ASSUME RmpInv, NEW r \in Recvers, Restart(r)
  PROVE  RmpInv'
  <1>1. SenderInv' /\ Top' = Top /\ Top \in Nat /\ DataHead \in Nat
    BY TopType DEF Restart, RmpInv, SenderInv, Top, senderVars, netVars
  <1>2. \A q \in Recvers : rcv'[q] = IF q = r THEN Fresh ELSE rcv[q]
    BY DEF Restart, RmpInv
  <1>3. \A q \in Recvers, seq \in Nat : AckedInv(q, seq) => AckedInv(q, seq)'
    BY <1>1, <1>2 DEF Restart, AckedInv
  <1>4. LastRecvedInv'
    <2>1. LastRecved' = LastRecved
      BY DEF Restart, senderVars
    <2>2. \A q \in DOMAIN LastRecved : q \in Recvers /\ LastRecved[q] \in Nat
                                       /\ AckedInv(q, LastRecved[q])
      BY DEF RmpInv, LastRecvedInv, AckedInv
    <2> QED
      BY <1>3, <2>1, <2>2 DEF RmpInv, LastRecvedInv
  <1>5. \A m \in toSender' : MessageInv(m)'
    <2> TAKE m \in toSender'
    <2>1. MessageInv(m)
      BY DEF RmpInv, Restart, netVars
    <2> QED
      BY <1>1, <1>3, <2>1 DEF MessageInv
  <1>6. \A q \in Recvers : RecverInv(q)'
    <2> TAKE q \in Recvers
    <2>1. RecverInv(q) /\ overtaken \subseteq overtaken' /\ DataHead' = DataHead
      BY DEF RmpInv, Restart, Overtakes, senderVars
    <2>2. CASE q = r
      <3>1. rcv'[q] = Fresh /\ nak'[q] = NoNak
        BY <1>2, <2>2 DEF Restart, RmpInv
      <3>2. Fresh.latest \in Nat /\ (q \notin overtaken' => DataHead <= Fresh.latest + 1)
        BY <1>1, <3>1, FreshIs, RecverFields DEF Restart, Overtakes
      <3> QED
        BY <1>1, <2>1, <3>1, <3>2, FreshIs DEF RecverInv, NoNak
    <2>3. CASE q # r
      <3>1. rcv'[q] = rcv[q] /\ nak'[q] = nak[q]
        BY <1>2, <2>3 DEF Restart, RmpInv
      <3> QED
        BY <1>1, <2>1, <3>1 DEF RecverInv
    <2> QED
      BY <2>2, <2>3
  <1> QED
    BY <1>1, <1>4, <1>5, <1>6 DEF Restart, RmpInv

-----------------------------------------------------------------------------
(* The invariant: a step of the sender.                                    *)

LEMMA OneMore ==
  ASSUME NEW n \in Nat, NEW b \in BOOLEAN
  PROVE  (n + IF b THEN 1 ELSE 0) \in Nat
  OBVIOUS

LEMMA NextTop ==
  ASSUME SendingSeqNo' \in Nat, sent' \in BOOLEAN
  PROVE  Top' \in Nat
  BY OneMore DEF Top

(* What holds of the receivers depends on the sender only through the last *)
(* packet multicast, which grows, and through the head, for those that are *)
(* not overtaken.                                                          *)
LEMMA SenderStep ==
  ASSUME RmpInv, SenderInv', LastRecvedInv', Top <= Top',
         UNCHANGED <<rcv, nak, restarted>>, toSender' \subseteq toSender,
         overtaken \subseteq overtaken',
         DataHead' = DataHead
           \/ \A r \in Recvers \ overtaken' : DataHead' <= rcv[r].latest + 1
  PROVE  RmpInv'
  <1>1. Top \in Nat /\ Top' \in Nat
    <2>1. SendingSeqNo' \in Nat /\ sent' \in BOOLEAN
      BY DEF SenderInv
    <2> QED
      BY <2>1, TopType, NextTop DEF RmpInv
  <1>2. \A m \in toSender' : MessageInv(m)'
    <2> TAKE m \in toSender'
    <2>1. MessageInv(m)
      BY DEF RmpInv
    <2> QED
      BY <1>1, <2>1 DEF MessageInv, AckedInv
  <1>3. \A r \in Recvers : RecverInv(r)'
    <2> TAKE r \in Recvers
    <2>1. RecverInv(r) /\ rcv' = rcv /\ nak' = nak
      BY DEF RmpInv
    <2>2. rcv[r].latest \in Nat /\ rcv[r].end \in Nat
      BY <2>1, RecverFields DEF RecverInv
    <2>3. Bounded(rcv'[r], Top')
      BY <1>1, <2>1, <2>2 DEF RecverInv, Bounded
    <2>4. r \notin overtaken' => DataHead' <= rcv[r].latest + 1 /\ Good(rcv[r])
      BY <2>1 DEF RecverInv
    <2> QED
      BY <2>1, <2>3, <2>4 DEF RecverInv
  <1> QED
    BY <1>2, <1>3 DEF RmpInv

LEMMA SameLastRecved ==
  ASSUME RmpInv, Top <= Top', SenderInv', UNCHANGED <<LastRecved, rcv, restarted>>
  PROVE  LastRecvedInv'
  <1>1. Top \in Nat /\ Top' \in Nat
    <2>1. SendingSeqNo' \in Nat /\ sent' \in BOOLEAN
      BY DEF SenderInv
    <2> QED
      BY <2>1, TopType, NextTop DEF RmpInv
  <1>2. \A r \in DOMAIN LastRecved : AckedInv(r, LastRecved[r])
    BY DEF RmpInv, LastRecvedInv
  <1>3. \A r \in DOMAIN LastRecved' : AckedInv(r, LastRecved[r])'
    BY <1>1, <1>2 DEF AckedInv
  <1> QED
    BY <1>3 DEF RmpInv, LastRecvedInv

LEMMA SendInv ==
  ASSUME RmpInv, Send
  PROVE  RmpInv'
  <1>1. /\ DataHead \in Nat /\ DataTail \in 1 .. N + 1 /\ Top \in Nat
        /\ Top < DataTail /\ DataHead <= Top + 1 /\ DataTail - DataHead < SenderWinSize
        /\ SendWin \in [0 .. SenderWinSize - 1 -> 0 .. N]
    BY TopType DEF RmpInv, SenderInv
  <1>2. /\ DataTail' = DataTail + 1 /\ DataTail <= N /\ DataHead' = DataHead
        /\ SendWin' = [SendWin EXCEPT ![DataTail % SenderWinSize] = DataTail]
        /\ UNCHANGED <<SendingSeqNo, sent, LastRecved, rcv, nak, restarted, overtaken,
                       odata, toSender>> /\ Top' = Top
    BY DEF Send, recverVars, history, netVars, Top
  <1>3. DataTail % SenderWinSize \in 0 .. SenderWinSize - 1 /\ DataTail \in 0 .. N
    <2>1. DataTail \in Nat /\ DataTail \in 0 .. N
      BY <1>1, <1>2
    <2> QED
      BY <2>1, DivMod
  <1>4. DataTail' - DataHead < SenderWinSize
    <2>1. DataTail + 1 # DataHead + SenderWinSize
      BY <1>1, RoundTheRing DEF Send, WindowIsFull
    <2> QED
      BY <1>1, <1>2, <2>1
  <1>5. ASSUME NEW s \in DataHead .. DataTail PROVE SendWin'[s % SenderWinSize] = s
    <2>1. s \in Nat /\ s % SenderWinSize \in 0 .. SenderWinSize - 1
      <3>1. s \in Nat
        BY <1>1
      <3> QED
        BY <3>1, DivMod
    <2>2. CASE s = DataTail
      BY <1>1, <1>2, <1>3, <2>2
    <2>3. CASE s # DataTail
      <3>1. s \in DataHead .. DataTail - 1 /\ s < DataTail /\ DataTail - s < SenderWinSize
        BY <1>1, <2>1, <2>3
      <3>2. s % SenderWinSize # DataTail % SenderWinSize
        <4>1. DataTail \in Nat
          BY <1>1
        <4> QED
          BY <2>1, <3>1, <4>1, SlotsDiffer
      <3>3. SendWin[s % SenderWinSize] = s
        BY <3>1 DEF RmpInv, SenderInv
      <3> QED
        BY <1>1, <1>2, <1>3, <2>1, <3>2, <3>3
    <2> QED
      BY <2>2, <2>3
  <1>6. SenderInv'
    <2>1. SendWin' \in [0 .. SenderWinSize - 1 -> 0 .. N]
      BY <1>1, <1>2, <1>3
    <2>2. \A s \in DataHead' .. DataTail' - 1 : SendWin'[s % SenderWinSize] = s
      <3>1. DataTail' - 1 = DataTail
        BY <1>1, <1>2
      <3> QED
        BY <1>2, <1>5, <3>1
    <2>3. DataTail' \in 1 .. N + 1 /\ Top' < DataTail'
      BY <1>1, <1>2
    <2> QED
      BY <1>2, <1>4, <2>1, <2>2, <2>3 DEF RmpInv, SenderInv
  <1>7. LastRecvedInv'
    BY <1>1, <1>2, <1>6, SameLastRecved
  <1> QED
    BY <1>1, <1>2, <1>6, <1>7, SenderStep

LEMMA MulticastNextInv ==
  ASSUME RmpInv, MulticastNext
  PROVE  RmpInv'
  <1>1. /\ DataHead \in Nat /\ SendingSeqNo \in Nat /\ DataTail \in 1 .. N + 1
        /\ Top = SendingSeqNo /\ Top < DataTail /\ DataHead <= Top + 1
        /\ odata \subseteq 1 .. Top
    BY SenderNumbers DEF Top, MulticastNext
  <1>2. /\ Top' = SendingSeqNo + 1 /\ sent' = TRUE
        /\ UNCHANGED <<DataHead, DataTail, SendingSeqNo, SendWin, LastRecved, rcv, nak,
                       restarted, overtaken, toSender>>
    BY DEF MulticastNext, Top, recverVars, history
  <1>3. SendingSeqNo + 1 < DataTail
    BY <1>1 DEF MulticastNext, MustWait
  <1>4. SendingSeqNo + 1 <= DataHead + Flight
    <2> DEFINE a == SendingSeqNo + 1 - DataHead
    <2>1. a \in Nat /\ a < U64 /\ SendingSeqNo + 1 + U64 - DataHead = a + U64
      BY <1>1, <1>3
    <2>2. (SendingSeqNo + 1 + U64 - DataHead) % U64 = a
      <3> HIDE DEF a
      <3> QED BY <2>1, ModOfSum
    <2>3. a <= Flight
      BY <2>1, <2>2 DEF MulticastNext, MustWait
    <2> QED
      BY <1>1, <2>3
  <1>5. odata' \subseteq 1 .. Top'
    <2>1. SendingSeqNo + 1 \in DataHead .. DataTail - 1
      BY <1>1, <1>3
    <2>2. SendWin[(SendingSeqNo + 1) % SenderWinSize] = SendingSeqNo + 1
      <3>1. \A s \in DataHead .. DataTail - 1 : SendWin[s % SenderWinSize] = s
        BY DEF RmpInv, SenderInv
      <3> QED
        BY <2>1, <3>1
    <2>3. odata' = odata \cup {SendingSeqNo + 1}
      BY <2>2 DEF MulticastNext, Multicast
    <2> QED
      BY <1>1, <1>2, <2>3
  <1>6. SenderInv'
    <2>1. /\ DataTail - DataHead < SenderWinSize
          /\ SendWin \in [0 .. SenderWinSize - 1 -> 0 .. N]
          /\ \A s \in DataHead .. DataTail - 1 : SendWin[s % SenderWinSize] = s
      BY DEF RmpInv, SenderInv
    <2>2. /\ DataHead' \in Nat /\ SendingSeqNo' \in Nat /\ DataTail' \in 1 .. N + 1
          /\ sent' \in BOOLEAN
      BY <1>1, <1>2
    <2>3. Top' < DataTail' /\ DataHead' <= Top' + 1 /\ Top' <= DataHead' + Flight
      BY <1>1, <1>2, <1>3, <1>4
    <2>4. UNCHANGED <<DataHead, DataTail, SendWin>>
      BY <1>2
    <2> QED
      BY <1>5, <2>1, <2>2, <2>3, <2>4 DEF SenderInv
  <1>7. Top <= Top'
    BY <1>1, <1>2
  <1> QED
    BY <1>2, <1>6, <1>7, SameLastRecved, SenderStep

LEMMA CountSentInv ==
  ASSUME RmpInv, CountSent
  PROVE  RmpInv'
  <1>1. Top' = Top /\ Top \in Nat
    BY SenderNumbers DEF Top, CountSent
  <1>2. UNCHANGED <<DataHead, DataTail, SendWin, LastRecved, rcv, nak, restarted,
                    overtaken, toSender, odata>>
    BY DEF CountSent, recverVars, history, netVars
  <1>3. SenderInv'
    <2>0. SendingSeqNo \in Nat /\ SendingSeqNo + 1 \in Nat
      BY SenderNumbers
    <2>1. SendingSeqNo' = SendingSeqNo + 1 /\ sent' = FALSE
      BY DEF CountSent
    <2>2. SendingSeqNo' \in Nat /\ sent' \in BOOLEAN
      BY <2>0, <2>1
    <2> QED
      BY <1>1, <1>2, <2>2 DEF RmpInv, SenderInv
  <1> QED
    BY <1>1, <1>2, <1>3, SameLastRecved, SenderStep

LEMMA RegisteredIs ==
  ASSUME RmpInv, NEW r \in Recvers
  PROVE  /\ DOMAIN Registered(r) = DOMAIN LastRecved \cup {r}
         /\ DOMAIN Registered(r) \subseteq Recvers
         /\ \A x \in DOMAIN Registered(r) : AckedInv(x, Registered(r)[x])
  <1>1. DOMAIN Registered(r) = DOMAIN LastRecved \cup {r}
    BY DEF Registered
  <1>2. ASSUME NEW x \in DOMAIN Registered(r) PROVE AckedInv(x, Registered(r)[x])
    <2>1. CASE x \in DOMAIN LastRecved
      BY <1>1, <2>1 DEF Registered, RmpInv, LastRecvedInv
    <2>2. CASE x \notin DOMAIN LastRecved
      <3>1. Registered(r)[x] = 0 /\ x \in Recvers
        BY <1>1, <1>2, <2>2 DEF Registered
      <3>2. rcv[x].latest \in Nat /\ Top \in Nat
        <4>1. rcv[x].latest \in 0 .. Top /\ Top \in Nat
          BY <3>1, Known
        <4> QED
          BY <4>1
      <3> QED
        BY <3>1, <3>2 DEF AckedInv
    <2> QED
      BY <2>1, <2>2
  <1> QED
    BY <1>1, <1>2 DEF RmpInv, LastRecvedInv

LEMMA HandleNakInv ==
  ASSUME RmpInv, NEW m \in toSender, HandleNak(m)
  PROVE  RmpInv'
  <1>1. /\ DataHead \in Nat /\ DataTail \in 1 .. N + 1 /\ Top \in Nat /\ Top < DataTail
        /\ odata \subseteq 1 .. Top
    BY TopType DEF RmpInv, SenderInv
  <1>2. /\ UNCHANGED <<DataHead, DataTail, SendingSeqNo, SendWin, sent, rcv, nak, restarted,
                       overtaken>>
        /\ LastRecved' = Registered(m.id) /\ toSender' \subseteq toSender /\ Top' = Top
    BY DEF HandleNak, recverVars, history, Takes, Top
  <1>3. m \in [type : {"nak"}, id : Recvers, begin : Nat \ {0}, end : Nat]
        /\ (m.end <= Top \/ m.end >= N + 1)
    BY DEF HandleNak, Takes, RmpInv, MessageInv
  <1>4. odata' \subseteq 1 .. Top
    <2>1. CASE odata' = odata
      BY <1>1, <2>1
    <2>2. CASE /\ m.begin >= DataHead /\ m.end < DataTail
               /\ odata' = odata \cup {SendWin[s % SenderWinSize] : s \in m.begin .. m.end}
      <3>1. m.begin \in Nat \ {0} /\ m.end \in Nat /\ m.end <= Top
        BY <1>1, <1>3, <2>2
      <3>2. ASSUME NEW s \in m.begin .. m.end
            PROVE  SendWin[s % SenderWinSize] \in 1 .. Top
        <4>1. s \in DataHead .. DataTail - 1 /\ s \in 1 .. Top
          BY <1>1, <2>2, <3>1
        <4> QED
          BY <4>1 DEF RmpInv, SenderInv
      <3> QED
        BY <1>1, <2>2, <3>2
    <2>3. m.begin \in Nat /\ m.end \in Nat
      BY <1>3
    <2> QED
      BY <1>1, <2>1, <2>2, <2>3 DEF HandleNak, Multicast
  <1>5. SenderInv'
    BY <1>2, <1>4 DEF RmpInv, SenderInv
  <1>6. LastRecvedInv'
    <2>1. m.id \in Recvers
      BY <1>3
    <2>2. /\ DOMAIN LastRecved' \subseteq Recvers
          /\ \A x \in DOMAIN LastRecved' : AckedInv(x, LastRecved'[x])
          /\ LastRecved' = [x \in DOMAIN LastRecved' |-> LastRecved'[x]]
      BY <1>2, <2>1, RegisteredIs DEF Registered
    <2>3. \A x \in DOMAIN LastRecved' : AckedInv(x, LastRecved[x])'
      BY <1>2, <2>2 DEF AckedInv
    <2> QED
      BY <2>2, <2>3 DEF LastRecvedInv
  <1>7. Top <= Top'
    BY <1>1, <1>2
  <1> QED
    BY <1>2, <1>5, <1>6, <1>7, SenderStep

LEMMA MaxOfTwo ==
  ASSUME NEW a \in Nat, NEW b \in Nat
  PROVE  Max({a, b}) \in {a, b} /\ Max({a, b}) >= a /\ Max({a, b}) >= b
  <1>1. {a, b} \in SUBSET Nat /\ a \in {a, b} /\ a + b \in Nat
    OBVIOUS
  <1>2. \A n \in {a, b} : n <= a + b
    OBVIOUS
  <1> QED
    BY <1>1, <1>2, MaxIsGreatest

(* The head after an acknowledgement.                                      *)
LEMMA HandleAckHead ==
  ASSUME RmpInv, NEW m \in toSender, HandleAck(m)
  PROVE  /\ LastRecved' = [x \in DOMAIN LastRecved' |-> LastRecved'[x]]
         /\ DOMAIN LastRecved' \subseteq Recvers
         /\ \A x \in DOMAIN LastRecved' : AckedInv(x, LastRecved'[x])
         /\ DataHead' = DataHead
              \/ /\ DataHead' \in 1 .. Top + 1 /\ DataHead' > DataHead
                 /\ \A x \in DOMAIN LastRecved' : DataHead' - 1 <= LastRecved'[x]
  <1>1. m \in [type : {"ack"}, id : Recvers, seq : Nat] /\ AckedInv(m.id, m.seq)
    BY DEF HandleAck, Takes, RmpInv, MessageInv
  <1>2. m.id \in Recvers /\ m.seq \in 0 .. Top /\ Top \in Nat /\ DataHead \in Nat
    BY <1>1, TopType DEF AckedInv, RmpInv, SenderInv
  <1>3. /\ DOMAIN Registered(m.id) = DOMAIN LastRecved \cup {m.id}
        /\ DOMAIN Registered(m.id) \subseteq Recvers
        /\ \A x \in DOMAIN Registered(m.id) : AckedInv(x, Registered(m.id)[x])
    BY <1>2, RegisteredIs
  <1>4. CASE m.seq < DataHead
    BY <1>3, <1>4 DEF HandleAck, Registered
  <1>5. CASE ~ (m.seq < DataHead)
    <2> DEFINE acks == [Registered(m.id) EXCEPT ![m.id] = Max({@, m.seq})]
    <2>1. DOMAIN acks = DOMAIN Registered(m.id)
      OBVIOUS
    <2>2. ASSUME NEW x \in DOMAIN acks PROVE AckedInv(x, acks[x])
      <3>1. AckedInv(x, Registered(m.id)[x])
        BY <1>3, <2>1
      <3>2. CASE x = m.id
        <4>1. Registered(m.id)[x] \in Nat /\ m.seq \in Nat
          BY <1>2, <3>1 DEF AckedInv
        <4>2. acks[x] \in {Registered(m.id)[x], m.seq}
          BY <3>2, <4>1, MaxOfTwo
        <4> QED
          BY <1>1, <3>1, <3>2, <4>2
      <3>3. CASE x # m.id
        BY <3>1, <3>3
      <3> QED
        BY <3>2, <3>3
    <2>3. PICK forgotten \in SUBSET (DOMAIN acks \ {m.id}), first \in DOMAIN acks :
            LET heard == DOMAIN acks \ forgotten
                mini == MiniAckSeqNo(acks, heard, first)
            IN /\ LastRecved' = Restrict(acks, heard)
               /\ DataHead' = IF mini < DataHead THEN DataHead ELSE mini + 1
      BY <1>5 DEF HandleAck
    <2> DEFINE heard == DOMAIN acks \ forgotten
               mini == MiniAckSeqNo(acks, heard, first)
               all == {acks[x] : x \in heard \cup {first}}
    <2>4. /\ LastRecved' = [x \in heard |-> acks[x]]
          /\ DataHead' = IF mini < DataHead THEN DataHead ELSE mini + 1
      BY <2>3 DEF Restrict
    <2>5. \A x \in DOMAIN acks : acks[x] \in 0 .. Top
      BY <2>2 DEF AckedInv
    <2> HIDE DEF acks
    <2>6. all \in SUBSET Nat /\ acks[first] \in all /\ all \subseteq 0 .. Top
      BY <1>2, <2>5
    <2>7. mini \in 0 .. Top /\ \A x \in heard : mini <= acks[x]
      <3>1. Min(all) \in all /\ \A n \in all : Min(all) <= n
        <4> HIDE DEF all
        <4> QED
          BY <2>6, MinIsLeast
      <3>2. mini = Min(all)
        BY DEF MiniAckSeqNo
      <3>3. \A x \in heard : acks[x] \in all
        OBVIOUS
      <3> QED
        BY <2>6, <3>1, <3>2, <3>3
    <2>8. /\ LastRecved' = [x \in DOMAIN LastRecved' |-> LastRecved'[x]]
          /\ DOMAIN LastRecved' = heard /\ heard \subseteq DOMAIN acks
          /\ \A x \in heard : LastRecved'[x] = acks[x]
      BY <2>4
    <2> HIDE DEF heard, mini
    <2>9. CASE mini < DataHead
      BY <1>3, <2>1, <2>2, <2>4, <2>8, <2>9
    <2>10. CASE ~ (mini < DataHead)
      <3>1. DataHead' = mini + 1 /\ mini + 1 \in 1 .. Top + 1 /\ mini + 1 > DataHead
            /\ (mini + 1) - 1 = mini
        BY <1>2, <2>4, <2>7, <2>10
      <3>2. \A x \in heard : DataHead' - 1 <= LastRecved'[x]
        BY <2>7, <2>8, <3>1
      <3> QED
        BY <1>3, <2>1, <2>2, <2>8, <3>1, <3>2
    <2> QED
      BY <2>9, <2>10
  <1> QED
    BY <1>4, <1>5

LEMMA HandleAckInv ==
  ASSUME RmpInv, NEW m \in toSender, HandleAck(m)
  PROVE  RmpInv'
  <1>1. /\ DataHead \in Nat /\ DataTail \in 1 .. N + 1 /\ Top \in Nat /\ Top < DataTail
        /\ DataHead <= Top + 1 /\ Top <= DataHead + Flight
        /\ DataTail - DataHead < SenderWinSize
    BY TopType DEF RmpInv, SenderInv
  <1>2. /\ UNCHANGED <<DataTail, SendingSeqNo, SendWin, sent, rcv, nak, restarted, odata>>
        /\ toSender' \subseteq toSender /\ Top' = Top
        /\ overtaken' = overtaken \cup {r \in Recvers : rcv[r].latest + 1 < DataHead'}
    BY DEF HandleAck, Takes, Top, Overtakes
  <1>3. DataHead' \in Nat /\ DataHead <= DataHead' /\ DataHead' <= Top + 1
    <2>1. DataHead' = DataHead \/ (DataHead' \in 1 .. Top + 1 /\ DataHead' > DataHead)
      BY HandleAckHead
    <2> QED
      BY <1>1, <2>1
  <1>4. SenderInv'
    <2> DEFINE h == DataHead'
    <2>1. h \in Nat /\ h <= Top + 1 /\ Top <= h + Flight /\ DataTail - h < SenderWinSize
          /\ h .. DataTail - 1 \subseteq DataHead .. DataTail - 1
      <3>1. h \in Nat /\ DataHead <= h /\ h <= Top + 1
        BY <1>3
      <3> HIDE DEF h
      <3> QED
        BY <1>1, <3>1
    <2>2. \A s \in h .. DataTail - 1 : SendWin[s % SenderWinSize] = s
      BY <2>1 DEF RmpInv, SenderInv
    <2> QED
      BY <1>2, <2>1, <2>2 DEF RmpInv, SenderInv
  <1>5. LastRecvedInv'
    <2>1. \A x \in DOMAIN LastRecved' : AckedInv(x, LastRecved[x])'
      BY <1>2, HandleAckHead DEF AckedInv
    <2> QED
      BY <2>1, HandleAckHead DEF LastRecvedInv
  <1>6. \A r \in Recvers \ overtaken' : DataHead' <= rcv[r].latest + 1
    <2> TAKE r \in Recvers \ overtaken'
    <2>1. rcv[r].latest + 1 \in Nat
      <3>1. rcv[r].latest \in 0 .. Top
        BY Known
      <3> QED
        BY <1>1, <3>1
    <2>2. ~ (rcv[r].latest + 1 < DataHead')
      BY <1>2
    <2> QED
      BY <1>3, <2>1, <2>2
  <1>7. Top <= Top' /\ overtaken \subseteq overtaken'
    BY <1>1, <1>2
  <1> QED
    BY <1>2, <1>4, <1>5, <1>6, <1>7, SenderStep

-----------------------------------------------------------------------------
(* The theorems.                                                           *)

LEMMA NextInv == RmpInv /\ [Next]_vars => RmpInv'
  <1> SUFFICES ASSUME RmpInv, [Next]_vars PROVE RmpInv'
    OBVIOUS
  <1>1. CASE Send
    BY <1>1, SendInv
  <1>2. CASE HbRefused
    <2>1. UNCHANGED <<senderVars, recverVars, netVars>>
      BY <1>2 DEF HbRefused
    <2> QED
      BY <2>1 DEF senderVars, recverVars, history, netVars, RmpInv, SenderInv, Top,
                  LastRecvedInv, AckedInv, MessageInv, RecverInv
  <1>3. CASE MulticastNext
    BY <1>3, MulticastNextInv
  <1>4. CASE CountSent
    BY <1>4, CountSentInv
  <1>5. ASSUME NEW m \in toSender, HandleNak(m) \/ HandleAck(m) PROVE RmpInv'
    BY <1>5, HandleNakInv, HandleAckInv
  <1>6. ASSUME NEW r \in Recvers, Recver(r) PROVE RmpInv'
    <2>1. CASE \E p \in 1 .. N : RecvOdata(r, p)
      BY <2>1, RecvOdataInv
    <2>2. CASE RecvHb(r)
      BY <2>2, RecvHbInv
    <2>3. CASE GetNext(r)
      BY <2>3, GetNextInv
    <2>4. CASE NoData(r)
      BY <2>4, NoDataInv
    <2>5. CASE AckTimer(r)
      BY <2>5, AckTimerInv
    <2>6. CASE NakTimer(r) \/ NakBegin(r)
      BY <2>6, NakTimerInv
    <2>7. CASE NakEnd(r)
      BY <2>7, NakEndInv
    <2>8. CASE Restart(r)
      BY <2>8, RestartInv
    <2> QED
      BY <1>6, <2>1, <2>2, <2>3, <2>4, <2>5, <2>6, <2>7, <2>8 DEF Recver
  <1>7. CASE UNCHANGED vars
    BY <1>7 DEF vars, senderVars, recverVars, history, netVars, RmpInv, SenderInv, Top,
                LastRecvedInv, AckedInv, MessageInv, RecverInv
  <1> QED
    BY <1>1, <1>2, <1>3, <1>4, <1>5, <1>6, <1>7 DEF Next

(* The invariant of the multicast sockets, for any number of receivers and *)
(* packets, any window and any buffer not smaller than the flight.         *)
THEOREM Invariant == Spec => []RmpInv
  BY InitInv, NextInv, PTL DEF Spec

(* Whatever UDP loses, repeats or reorders, the application of a receiver  *)
(* that the sender has not overtaken is given 1, 2, 3, ...                 *)
THEOREM InOrderDelivery == Spec => []DeliveredInOrder
  <1>1. RmpInv => DeliveredInOrder
    BY DEF RmpInv, RecverInv, Good, Handing, Counts, DeliveredInOrder, InOrder
  <1> QED
    BY <1>1, Invariant, PTL

(* The unsigned subtraction in handle_can_send never wraps.                *)
THEOREM WindowTest == Spec => []WindowTestNeverWraps
  <1>1. RmpInv => WindowTestNeverWraps
    BY DEF RmpInv, SenderInv, Top, WindowTestNeverWraps
  <1> QED
    BY <1>1, Invariant, PTL

LEMMA OnlyAcksMoveTheHead ==
  ASSUME [Next]_vars, DataHead' # DataHead
  PROVE  \E m \in toSender : HandleAck(m)
  <1>1. Next
    BY DEF vars, senderVars
  <1>2. ~ (Send \/ HbRefused \/ MulticastNext \/ CountSent)
    BY DEF Send, HbRefused, MulticastNext, CountSent, senderVars
  <1>3. \A m \in toSender : ~ HandleNak(m)
    BY DEF HandleNak
  <1>4. ASSUME NEW r \in Recvers, Recver(r) PROVE FALSE
    BY <1>4
       DEF Recver, RecvOdata, RecvHb, GetNext, NoData, AckTimer, NakTimer, NakBegin,
           NakEnd, Restart, senderVars
  <1> QED
    BY <1>1, <1>2, <1>3, <1>4 DEF Next

(* sendep_handle_ack frees only what all receivers it counts have.         *)
THEOREM FreesSafely == Spec => FreesOnlyWhatAllHave
  <1>1. ASSUME RmpInv, [Next]_vars, DataHead' > DataHead,
               NEW r \in DOMAIN LastRecved', r \notin restarted
        PROVE  rcv[r].latest >= DataHead' - 1
    <2>1. DataHead \in Nat /\ Top \in Nat
      BY <1>1, SenderNumbers
    <2>2. PICK m \in toSender : HandleAck(m)
      <3>1. DataHead' # DataHead
        BY <1>1, <2>1
      <3> QED
        BY <1>1, <3>1, OnlyAcksMoveTheHead
    <2>3. /\ DataHead' \in 1 .. Top + 1 /\ DataHead' - 1 <= LastRecved'[r]
          /\ r \in Recvers /\ AckedInv(r, LastRecved'[r])
      <3>1. DataHead' # DataHead
        BY <1>1, <2>1
      <3> QED
        BY <1>1, <2>2, <3>1, HandleAckHead
    <2>4. rcv[r].latest \in Nat
      <3>1. rcv[r].latest \in 0 .. Top
        BY <1>1, <2>3, Known
      <3> QED
        BY <2>1, <3>1
    <2>5. LastRecved'[r] <= rcv[r].latest /\ LastRecved'[r] \in 0 .. Top
      BY <1>1, <2>3 DEF AckedInv
    <2> DEFINE h == DataHead' a == LastRecved'[r]
    <2>6. h \in 1 .. Top + 1 /\ h - 1 <= a /\ a <= rcv[r].latest /\ a \in 0 .. Top
      BY <2>3, <2>5
    <2> HIDE DEF h, a
    <2>7. rcv[r].latest >= h - 1
      BY <2>1, <2>4, <2>6
    <2> QED
      BY <2>7 DEF h
  <1>2. RmpInv /\ [Next]_vars =>
          [DataHead' > DataHead =>
             \A r \in DOMAIN LastRecved' :
                r \notin restarted => rcv[r].latest >= DataHead' - 1]_vars
    BY <1>1
  <1> QED
    BY <1>2, Invariant, PTL DEF Spec, FreesOnlyWhatAllHave

(* Types.                                                                  *)
THEOREM TypeCorrect == Spec => []TypeOK
  <1>1. RmpInv => TypeOK
    <2> SUFFICES ASSUME RmpInv PROVE TypeOK
      OBVIOUS
    <2>1. /\ DataHead \in Nat /\ SendingSeqNo \in Nat /\ DataTail \in 1 .. N + 1
          /\ Top \in Nat /\ Top <= N /\ DataHead <= Top + 1
          /\ odata \subseteq 1 .. Top /\ sent \in BOOLEAN
          /\ SendWin \in [0 .. SenderWinSize - 1 -> 0 .. N]
      BY TopType DEF RmpInv, SenderInv
    <2>2. {DataHead, DataTail, SendingSeqNo} \subseteq 0 .. N + 1 /\ odata \subseteq 1 .. N
      <3>1. SendingSeqNo <= Top
        BY <2>1 DEF Top
      <3> QED
        BY <2>1, <3>1
    <2>3. DOMAIN LastRecved \subseteq Recvers /\ Range(LastRecved) \subseteq 0 .. N
      <3>1. DOMAIN LastRecved \subseteq Recvers
            /\ \A r \in DOMAIN LastRecved : LastRecved[r] \in 0 .. Top
        BY DEF RmpInv, LastRecvedInv, AckedInv
      <3> QED
        BY <2>1, <3>1 DEF Range
    <2>4. \A m \in toSender : m.id \in Recvers /\ m.type \in {"nak", "ack"}
      BY DEF RmpInv, MessageInv
    <2>5. ASSUME NEW r \in Recvers
          PROVE  /\ rcv[r].latest \in 0 .. N
                 /\ Range(rcv[r].app) \subseteq 0 .. N
                 /\ nak[r].at \in {"idle", "begin", "end"}
      <3>1. rcv[r] \in RecverType /\ nak[r] \in [at : {"idle", "begin", "end"}, begin : Nat]
        BY DEF RmpInv, RecverInv
      <3>2. rcv[r].latest \in 0 .. N /\ rcv[r].app \in Seq(0 .. N)
        BY <3>1, RecverFields
      <3>3. \A q \in Seq(0 .. N) : Range(q) \subseteq 0 .. N
        <4> SUFFICES ASSUME NEW q \in Seq(0 .. N), NEW i \in DOMAIN q PROVE q[i] \in 0 .. N
          BY DEF Range
        <4> QED
          OBVIOUS
      <3> QED
        BY <3>1, <3>2, <3>3
    <2> QED
      BY <2>1, <2>2, <2>3, <2>4, <2>5 DEF TypeOK
  <1> QED
    BY <1>1, Invariant, PTL

LEMMA FlightAndLimit ==
  ASSUME NEW top \in Nat, NEW p \in 1 .. top, NEW latest \in 0 .. top, NEW head \in Nat,
         top <= head + Flight, head <= latest + 1, p - latest > UnvalidPkgsSize
  PROVE  Flight = UnvalidPkgsSize
  <1>1. Flight \in Nat /\ UnvalidPkgsSize \in Nat /\ Flight <= UnvalidPkgsSize
    OBVIOUS
  <1> QED
    BY <1>1

LEMMA OnlyDataGoesBeyond ==
  ASSUME Next, died' = "beyond limitation"
  PROVE  \E r \in Recvers, p \in 1 .. N : RecvOdata(r, p) /\ BeyondLimitation(rcv[r], p)
  <1>1. died # died'
    BY DEF Next
  <1>2. ~ (Send \/ HbRefused \/ MulticastNext \/ CountSent)
    BY <1>1 DEF Send, HbRefused, MulticastNext, CountSent, Die
  <1>3. \A m \in toSender : ~ HandleNak(m)
    BY <1>1 DEF HandleNak, Die
  <1>4. \A m \in toSender : ~ HandleAck(m)
    BY <1>1 DEF HandleAck, Die
  <1>5. PICK r \in Recvers : Recver(r)
    BY <1>2, <1>3, <1>4 DEF Next
  <1>6. ~ (RecvHb(r) \/ GetNext(r) \/ NakTimer(r) \/ NakBegin(r) \/ Restart(r))
    BY <1>1 DEF RecvHb, GetNext, NakTimer, NakBegin, Restart
  <1>7. ~ (NoData(r) \/ AckTimer(r) \/ NakEnd(r))
    BY <1>1 DEF NoData, AckTimer, NakEnd, UdpSendOrDie, Die
  <1>8. PICK p \in 1 .. N : RecvOdata(r, p)
    BY <1>5, <1>6, <1>7 DEF Recver
  <1>9. BeyondLimitation(rcv[r], p)
    BY <1>1, <1>8 DEF RecvOdata, Die
  <1> QED
    BY <1>8, <1>9

(* A receiver that the sender has not overtaken dies of the limit of its   *)
(* buffer (CMN_ASSERT(false) in recvep_handle_odata) only where the flight *)
(* is as large as the buffer, as the constants of the code make it: the    *)
(* sender lets Flight + 1 packets fly, the receiver takes Flight of them.  *)
LimitReached ==
  died = "beyond limitation" /\ overtaken = {} => Flight = UnvalidPkgsSize

THEOREM LimitNeedsTheWholeFlight == Spec => []LimitReached
  <1>1. Init => LimitReached
    BY DEF Init, LimitReached
  <1>2. RmpInv /\ LimitReached /\ [Next]_vars => LimitReached'
    <2> SUFFICES ASSUME RmpInv, LimitReached, [Next]_vars,
                        died' = "beyond limitation", overtaken' = {}
                 PROVE  Flight = UnvalidPkgsSize
      BY DEF LimitReached
    <2>1. CASE UNCHANGED vars
      BY <2>1 DEF vars, recverVars, history, LimitReached
    <2>2. CASE Next
      <3>1. PICK r \in Recvers, p \in 1 .. N : RecvOdata(r, p) /\ BeyondLimitation(rcv[r], p)
        BY <2>2, OnlyDataGoesBeyond
      <3>2. overtaken = {}
        BY <3>1 DEF RecvOdata, history
      <3>3. p \in odata /\ odata \subseteq 1 .. Top /\ p - rcv[r].latest > UnvalidPkgsSize
        <4>1. odata \subseteq 1 .. Top
          BY DEF RmpInv, SenderInv
        <4> QED
          BY <3>1, <4>1 DEF RecvOdata, Arrives, BeyondLimitation
      <3>4. DataHead \in Nat /\ Top <= DataHead + Flight /\ DataHead <= rcv[r].latest + 1
        BY <3>2 DEF RmpInv, SenderInv, RecverInv
      <3>5. Top \in Nat /\ rcv[r].latest \in 0 .. Top /\ p \in 1 .. Top
        BY <3>3, Known
      <3> QED
        BY <3>3, <3>4, <3>5, FlightAndLimit
    <2> QED
      BY <2>1, <2>2
  <1> QED
    BY <1>1, <1>2, Invariant, PTL DEF Spec
=============================================================================
