----------------------------- MODULE UtilsProofs -----------------------------
(***************************************************************************)
(* What Utils promises, for every number of threads, pointers, objects,    *)
(* events, readers and blocks.  The utilities share no state and only one  *)
(* takes a step, so each has an inductive invariant of its own, and a step *)
(* of another is a stuttering step of it.                                  *)
(***************************************************************************)
EXTENDS Utils, DataLemmas, FiniteSetTheorems, SequenceTheorems

-----------------------------------------------------------------------------
(* The ring buffer.                                                        *)

Unread == DataHeadIdx .. FreeHeadIdx - 1

(* A block is written only when it holds nothing unread, and the reader    *)
(* has a block that is unread.                                             *)
RingInv ==
  /\ DataHeadIdx \in Nat \ {0} /\ FreeHeadIdx \in Nat
  /\ DataHeadIdx <= FreeHeadIdx /\ FreeHeadIdx - DataHeadIdx <= BlockCnt
  /\ writing \in BOOLEAN /\ (writing => FreeHeadIdx - DataHeadIdx < BlockCnt)
  /\ block \in [0 .. BlockCnt - 1 -> Nat]
  /\ reading = 0 \/ reading \in Unread
  /\ \A idx \in Unread : block[BlockAt(idx)] = idx

LEMMA RingStart == RingInit => RingInv
  <1> SUFFICES ASSUME RingInit PROVE RingInv
    OBVIOUS
  <1>1. /\ DataHeadIdx = 1 /\ FreeHeadIdx = 1 /\ writing = FALSE /\ reading = 0
        /\ block \in [0 .. BlockCnt - 1 -> Nat]
    BY DEF RingInit
  <1>2. Unread = {}
    BY <1>1 DEF Unread
  <1>3. writing \in BOOLEAN /\ ~ writing /\ reading = 0 /\ \A idx \in Unread : block[BlockAt(idx)] = idx
    BY <1>1, <1>2
  <1>4. /\ DataHeadIdx \in Nat \ {0} /\ FreeHeadIdx \in Nat /\ DataHeadIdx <= FreeHeadIdx
        /\ FreeHeadIdx - DataHeadIdx <= BlockCnt
    BY <1>1, RingAssumption
  <1> QED
    BY <1>1, <1>3, <1>4 DEF RingInv

LEMMA RingStep == RingInv /\ (RingNext \/ UNCHANGED ringVars) => RingInv'
  <1> SUFFICES ASSUME RingInv, RingNext \/ UNCHANGED ringVars PROVE RingInv'
    OBVIOUS
  <1> USE RingAssumption
  <1>0. /\ DataHeadIdx \in Nat \ {0} /\ FreeHeadIdx \in Nat
        /\ \A idx \in Unread : idx \in Nat /\ idx < FreeHeadIdx
                                /\ FreeHeadIdx - idx <= FreeHeadIdx - DataHeadIdx
    BY DEF RingInv, Unread
  <1>1. CASE GetFreeHead
    <2>1. FreeHeadIdx - DataHeadIdx < BlockCnt
      BY <1>1 DEF GetFreeHead, Full, RingInv
    <2>2. ASSUME NEW idx \in Unread PROVE BlockAt(idx) # BlockAt(FreeHeadIdx)
      BY <1>0, <2>1, SlotsDiffer DEF BlockAt
    <2>3. block' \in [0 .. BlockCnt - 1 -> Nat]
      BY <1>1 DEF GetFreeHead, RingInv
    <2>4. ASSUME NEW idx \in Unread PROVE block'[BlockAt(idx)] = idx
      <3>1. BlockAt(idx) \in 0 .. BlockCnt - 1
        BY <1>0, DivMod DEF BlockAt
      <3> QED
        BY <1>1, <2>2, <3>1 DEF GetFreeHead, RingInv
    <2>5. UNCHANGED <<DataHeadIdx, FreeHeadIdx, reading>> /\ writing' = TRUE
      BY <1>1 DEF GetFreeHead
    <2>6. Unread' = Unread
      BY <2>5 DEF Unread
    <2> QED
      BY <2>1, <2>3, <2>4, <2>5, <2>6 DEF RingInv, BlockAt
  <1>2. CASE SetFreeHeadIdx
    <2>1. FreeHeadIdx - DataHeadIdx < BlockCnt
      BY <1>2 DEF SetFreeHeadIdx, RingInv
    <2>2. ASSUME NEW idx \in Unread PROVE BlockAt(idx) # BlockAt(FreeHeadIdx)
      BY <1>0, <2>1, SlotsDiffer DEF BlockAt
    <2>3. BlockAt(FreeHeadIdx) \in 0 .. BlockCnt - 1
      BY <1>0, DivMod DEF BlockAt
    <2>4. /\ block' = [block EXCEPT ![BlockAt(FreeHeadIdx)] = FreeHeadIdx]
          /\ FreeHeadIdx' = FreeHeadIdx + 1 /\ writing' = FALSE
          /\ UNCHANGED <<DataHeadIdx, reading>>
      BY <1>2 DEF SetFreeHeadIdx
    <2>5. block' \in [0 .. BlockCnt - 1 -> Nat]
      BY <1>0, <2>3, <2>4 DEF RingInv
    <2>6. ASSUME NEW idx \in Unread PROVE block'[BlockAt(idx)] = idx
      <3>1. BlockAt(idx) \in 0 .. BlockCnt - 1
        BY <1>0, DivMod DEF BlockAt
      <3> QED
        BY <2>2, <2>4, <3>1 DEF RingInv
    <2>7. block'[BlockAt(FreeHeadIdx)] = FreeHeadIdx
      BY <2>3, <2>4 DEF RingInv
    <2>8. Unread' = Unread \cup {FreeHeadIdx}
      BY <2>4, <1>0 DEF Unread, RingInv
    <2>9. \A idx \in Unread' : block'[BlockAt(idx)'] = idx
      BY <2>6, <2>7, <2>8 DEF BlockAt
    <2>10. reading' = 0 \/ reading' \in Unread'
      BY <2>4, <2>8 DEF RingInv
    <2>11. /\ FreeHeadIdx' \in Nat /\ DataHeadIdx' <= FreeHeadIdx'
           /\ FreeHeadIdx' - DataHeadIdx' <= BlockCnt /\ DataHeadIdx' \in Nat \ {0}
      BY <1>0, <2>1, <2>4 DEF RingInv
    <2> QED
      BY <2>4, <2>5, <2>9, <2>10, <2>11 DEF RingInv, BlockAt
  <1>3. ASSUME NEW idx \in 1 .. MaxIdx, GetData(idx) PROVE RingInv'
    <2>1. reading' = idx /\ idx \in Unread /\ UNCHANGED <<DataHeadIdx, FreeHeadIdx, block, writing>>
      BY <1>3, <1>0 DEF GetData, Unread
    <2>2. Unread' = Unread
      BY <2>1 DEF Unread
    <2> QED
      BY <2>1, <2>2 DEF RingInv, BlockAt
  <1>4. ASSUME NEW idx \in 1 .. MaxIdx, SetDataHeadIdx(idx) PROVE RingInv'
    <2>1. /\ idx \in Nat \ {0} /\ idx > DataHeadIdx /\ idx < FreeHeadIdx /\ DataHeadIdx' = idx
          /\ reading' = IF reading < idx THEN 0 ELSE reading
          /\ UNCHANGED <<FreeHeadIdx, block, writing>>
      BY <1>4 DEF SetDataHeadIdx
    <2>2. Unread' = {i \in Unread : i >= idx}
      BY <1>0, <2>1 DEF Unread
    <2>3. reading' = 0 \/ reading' \in Unread'
      BY <1>0, <2>1, <2>2 DEF RingInv
    <2>4. \A i \in Unread' : block'[BlockAt(i)] = i
      BY <2>1, <2>2 DEF RingInv
    <2> QED
      BY <1>0, <2>1, <2>3, <2>4 DEF RingInv, BlockAt
  <1>5. CASE UNCHANGED ringVars
    BY <1>5 DEF ringVars, RingInv, Unread, BlockAt
  <1> QED
    BY <1>1, <1>2, <1>3, <1>4, <1>5 DEF RingNext

LEMMA RingSafe == RingInv => RingKeepsUnread
  BY DEF RingInv, RingKeepsUnread, Unread

-----------------------------------------------------------------------------
(* The event engine.                                                       *)

Unhandled == SubSeq(dqueevts, iter, Len(dqueevts))

(* The deque that exec() swaps for the cache is empty, and its iterator    *)
(* stays within the deque it walks.                                        *)
EventInv ==
  /\ dquecache \in Seq(Events) /\ dqueevts \in Seq(Events)
  /\ posted \in Seq(Events) /\ handled \in Seq(Events)
  /\ lkcache \in Events \cup {NoEvent}
  /\ iter \in 1 .. Len(dqueevts) + 1
  /\ execPc \in {"top", "swap"} => dqueevts = <<>> /\ iter = 1
  /\ handled \o (Unhandled \o dquecache) = posted

(* The facts about sequences it needs, for sequences of events.            *)
LEMMA EventsAssociate ==
  \A s, t, u \in Seq(Events) : (s \o t) \o u = s \o (t \o u)
  BY ConcatAssociative

LEMMA EventsAppend ==
  \A s, t \in Seq(Events), e \in Events : s \o Append(t, e) = Append(s \o t, e)
  OBVIOUS

LEMMA EventsMoveOne ==
  \A s, t, u \in Seq(Events), e \in Events : Append(s, e) \o (t \o u) = s \o ((<<e>> \o t) \o u)
  <1> SUFFICES ASSUME NEW s \in Seq(Events), NEW t \in Seq(Events), NEW u \in Seq(Events), NEW e \in Events
               PROVE  Append(s, e) \o (t \o u) = s \o ((<<e>> \o t) \o u)
    OBVIOUS
  <1> DEFINE one == <<e>>
  <1>1. one \in Seq(Events) /\ Append(s, e) = s \o one
    OBVIOUS
  <1> HIDE DEF one
  <1>2. t \o u \in Seq(Events)
    OBVIOUS
  <1>3. (one \o t) \o u = one \o (t \o u)
    BY <1>1, EventsAssociate
  <1>4. (s \o one) \o (t \o u) = s \o (one \o (t \o u))
    BY <1>1, <1>2, EventsAssociate
  <1> QED
    BY <1>1, <1>3, <1>4 DEF one

LEMMA EventStart == EventInit => EventInv
  <1> SUFFICES ASSUME EventInit PROVE EventInv
    OBVIOUS
  <1>1. /\ dquecache = <<>> /\ dqueevts = <<>> /\ posted = <<>> /\ handled = <<>>
        /\ lkcache = NoEvent /\ iter = 1
    BY DEF EventInit
  <1>2. Unhandled = <<>>
    BY <1>1 DEF Unhandled
  <1>3. handled \o (Unhandled \o dquecache) = posted
    BY <1>1, <1>2
  <1> QED
    BY <1>1, <1>3 DEF EventInv

LEMMA EventStep == EventInv /\ (EventNext \/ UNCHANGED eventVars) => EventInv'
  <1> SUFFICES ASSUME EventInv, EventNext \/ UNCHANGED eventVars PROVE EventInv'
    OBVIOUS
  <1>0. /\ dquecache \in Seq(Events) /\ dqueevts \in Seq(Events)
        /\ posted \in Seq(Events) /\ handled \in Seq(Events)
        /\ lkcache \in Events \cup {NoEvent}
        /\ iter \in 1 .. Len(dqueevts) + 1 /\ Len(dqueevts) \in Nat
        /\ Unhandled \in Seq(Events)
        /\ handled \o (Unhandled \o dquecache) = posted
    BY DEF EventInv, Unhandled
  <1>1. ASSUME NEW e \in Events, PostEvent(e) PROVE EventInv'
    BY <1>1 DEF PostEvent, EventInv, Unhandled
  <1>2. CASE PushBack
    <2>1. /\ lkcache \in Events /\ lkcache' = NoEvent
          /\ dquecache' = Append(dquecache, lkcache) /\ posted' = Append(posted, lkcache)
          /\ UNCHANGED <<dqueevts, execPc, iter, handled>>
      BY <1>0, <1>2 DEF PushBack
    <2>2. Unhandled' = Unhandled
      BY <2>1 DEF Unhandled
    <2>3. Unhandled \o Append(dquecache, lkcache) = Append(Unhandled \o dquecache, lkcache)
      BY <1>0, <2>1, EventsAppend
    <2>0. Unhandled \o dquecache \in Seq(Events)
      BY <1>0
    <2>4. handled \o Append(Unhandled \o dquecache, lkcache)
             = Append(handled \o (Unhandled \o dquecache), lkcache)
      BY <1>0, <2>1, <2>0, EventsAppend
    <2>5. handled' \o (Unhandled' \o dquecache') = posted'
      BY <1>0, <2>1, <2>2, <2>3, <2>4
    <2>6. dquecache' \in Seq(Events) /\ posted' \in Seq(Events)
      BY <1>0, <2>1
    <2> QED
      BY <2>1, <2>5, <2>6 DEF EventInv
  <1>3. CASE ExecFindsSome
    BY <1>3 DEF ExecFindsSome, EventInv, Unhandled
  <1>4. CASE SwapEvents
    <2>1. /\ dqueevts = <<>> /\ iter = 1 /\ dqueevts' = dquecache /\ dquecache' = <<>>
          /\ iter' = 1 /\ execPc' = "handle" /\ UNCHANGED <<lkcache, posted, handled>>
      BY <1>4 DEF SwapEvents, EventInv
    <2>2. Unhandled = <<>> /\ Unhandled' = dquecache
      BY <1>0, <2>1 DEF Unhandled
    <2>3. Unhandled \o dquecache = dquecache /\ Unhandled' \o dquecache' = dquecache
      BY <1>0, <2>1, <2>2
    <2>4. handled' \o (Unhandled' \o dquecache') = posted'
      BY <1>0, <2>1, <2>3
    <2>5. iter' \in 1 .. Len(dqueevts') + 1
      BY <1>0, <2>1
    <2> QED
      BY <1>0, <2>1, <2>4, <2>5 DEF EventInv
  <1>5. CASE HandleEvent
    <2>1. /\ execPc = "handle" /\ iter <= Len(dqueevts)
          /\ handled' = Append(handled, dqueevts[iter]) /\ iter' = iter + 1
          /\ UNCHANGED <<dquecache, dqueevts, lkcache, execPc, posted>>
      BY <1>5 DEF HandleEvent
    <2>2. dqueevts[iter] \in Events
      BY <1>0, <2>1
    <2>3. Unhandled' \in Seq(Events) /\ Unhandled = <<dqueevts[iter]>> \o Unhandled'
      BY <1>0, <2>1, <2>2 DEF Unhandled
    <2>4. Append(handled, dqueevts[iter]) \o (Unhandled' \o dquecache)
            = handled \o ((<<dqueevts[iter]>> \o Unhandled') \o dquecache)
      <3> DEFINE rest == Unhandled'
                 e    == dqueevts[iter]
      <3>1. rest \in Seq(Events) /\ e \in Events /\ handled \in Seq(Events) /\ dquecache \in Seq(Events)
        BY <1>0, <2>2, <2>3
      <3> HIDE DEF rest, e
      <3>2. Append(handled, e) \o (rest \o dquecache) = handled \o ((<<e>> \o rest) \o dquecache)
        BY ONLY <3>1, EventsMoveOne
      <3> QED
        BY <3>2 DEF rest, e
    <2>6. handled' \o (Unhandled' \o dquecache') = posted'
      BY <1>0, <2>1, <2>3, <2>4
    <2>7. handled' \in Seq(Events) /\ iter' \in 1 .. Len(dqueevts') + 1
      BY <1>0, <2>1, <2>2
    <2> QED
      BY <1>0, <2>1, <2>6, <2>7 DEF EventInv
  <1>6. CASE ClearEvents
    <2>1. /\ execPc = "handle" /\ iter > Len(dqueevts) /\ dqueevts' = <<>> /\ iter' = 1
          /\ UNCHANGED <<dquecache, lkcache, posted, handled>>
      BY <1>6 DEF ClearEvents
    <2>2. Unhandled = <<>> /\ Unhandled' = <<>>
      BY <1>0, <2>1 DEF Unhandled
    <2>3. handled' \o (Unhandled' \o dquecache') = posted'
      BY <1>0, <2>1, <2>2
    <2> QED
      BY <1>0, <2>1, <2>3 DEF EventInv
  <1>7. CASE UNCHANGED eventVars
    BY <1>7 DEF eventVars, EventInv, Unhandled
  <1> QED
    BY <1>1, <1>2, <1>3, <1>4, <1>5, <1>6, <1>7 DEF EventNext

LEMMA EventSafe == EventInv => EventsOnceInOrder
  <1> SUFFICES ASSUME EventInv PROVE EventsOnceInOrder
    OBVIOUS
  <1>1. /\ handled \in Seq(Events) /\ Unhandled \in Seq(Events) /\ dquecache \in Seq(Events)
        /\ handled \o (Unhandled \o dquecache) = posted
    BY DEF EventInv, Unhandled
  <1>2. (handled \o Unhandled) \o dquecache = handled \o (Unhandled \o dquecache)
    BY <1>1, EventsAssociate
  <1> QED
    BY <1>1, <1>2 DEF EventInv, EventsOnceInOrder, Unhandled

-----------------------------------------------------------------------------
(* The lock for readers and writers, and the singleton.                    *)

Permits == 1 .. uiMaxReaders
Owners == Users \cup {NoUser}
HeldBy(f, u) == {i \in Permits : f[i] = u}

(* The counts add up to uiMaxReaders: each permit can be given an owner.   *)
Accounted ==
  \E f \in [Permits -> Owners] :
    /\ m_sem = Cardinality(HeldBy(f, NoUser))
    /\ \A u \in Users : permits[u] = Cardinality(HeldBy(f, u))

(* What a thread holds in each of its places; the mutex is held by the one *)
(* thread that is acquiring.                                               *)
RwInv ==
  /\ m_sem \in Nat
  /\ user \in [Users -> {"out", "reading", "acquiring", "writing", "releasing"}]
  /\ permits \in [Users -> Nat]
  /\ Accounted
  /\ \A u \in Users :
       /\ user[u] = "out"       => permits[u] = 0
       /\ user[u] = "reading"   => permits[u] = 1
       /\ user[u] = "acquiring" => m_lock = u
       /\ user[u] = "writing"   => permits[u] = uiMaxReaders
       /\ user[u] = "releasing" => permits[u] >= 1

(* The singleton has the instance s_t names and no other.                  *)
SingletonInv ==
  /\ s_t \in Nat /\ instances \in Nat
  /\ deleted \in BOOLEAN /\ (deleted => s_t # 0)
  /\ live = IF s_t = 0 \/ deleted THEN {} ELSE {s_t}

(* A permit changes its owner.                                             *)
Moved(f, g, a, b) ==
  /\ g \in [Permits -> Owners]
  /\ Cardinality(HeldBy(g, a)) = Cardinality(HeldBy(f, a)) - 1
  /\ Cardinality(HeldBy(g, b)) = Cardinality(HeldBy(f, b)) + 1
  /\ \A c : c # a /\ c # b => HeldBy(g, c) = HeldBy(f, c)

LEMMA PermitMoves ==
  ASSUME NEW f \in [Permits -> Owners], NEW i \in Permits, NEW a \in Owners, NEW b \in Owners,
         f[i] = a, a # b, NEW g, g = [f EXCEPT ![i] = b]
  PROVE  Moved(f, g, a, b)
  <1>1. /\ HeldBy(g, a) = HeldBy(f, a) \ {i} /\ i \in HeldBy(f, a)
        /\ HeldBy(g, b) = HeldBy(f, b) \cup {i} /\ i \notin HeldBy(f, b)
        /\ \A c : c # a /\ c # b => HeldBy(g, c) = HeldBy(f, c)
    BY DEF HeldBy
  <1>2. IsFiniteSet(Permits)
    BY FS_Interval, LocksAssumption DEF Permits
  <1>3. IsFiniteSet(HeldBy(f, a)) /\ IsFiniteSet(HeldBy(f, b))
    BY <1>2, FS_Subset DEF HeldBy
  <1>4. Cardinality(HeldBy(g, a)) = Cardinality(HeldBy(f, a)) - 1
    BY <1>1, <1>3, FS_RemoveElement
  <1>5. Cardinality(HeldBy(g, b)) = Cardinality(HeldBy(f, b)) + 1
    BY <1>1, <1>3, FS_AddElement
  <1> QED
    BY <1>1, <1>4, <1>5 DEF Moved

LEMMA HeldByIsFinite ==
  ASSUME NEW f, NEW u
  PROVE  /\ IsFiniteSet(HeldBy(f, u)) /\ Cardinality(HeldBy(f, u)) \in Nat
         /\ Cardinality(HeldBy(f, u)) = 0 <=> HeldBy(f, u) = {}
         /\ Cardinality(HeldBy(f, u)) = uiMaxReaders <=> HeldBy(f, u) = Permits
  <1>1. IsFiniteSet(Permits) /\ Cardinality(Permits) = uiMaxReaders
    BY FS_Interval, LocksAssumption DEF Permits
  <1>2. HeldBy(f, u) \in SUBSET Permits
    BY DEF HeldBy
  <1>3. IsFiniteSet(HeldBy(f, u)) /\ (Cardinality(HeldBy(f, u)) = uiMaxReaders => HeldBy(f, u) = Permits)
    BY <1>1, <1>2, FS_Subset
  <1>4. Cardinality(HeldBy(f, u)) \in Nat /\ (Cardinality(HeldBy(f, u)) = 0 <=> HeldBy(f, u) = {})
    BY <1>3, FS_CardinalityType, FS_EmptySet
  <1> QED
    BY <1>1, <1>3, <1>4

(* A permit is taken, which the semaphore has, and one is given back.      *)
LEMMA TakeKeeps ==
  ASSUME RwInv, NEW u \in Users, Acquire(u)
  PROVE  m_sem' \in Nat /\ permits' \in [Users -> Nat] /\ Accounted'
  <1>1. PICK f \in [Permits -> Owners] :
          /\ m_sem = Cardinality(HeldBy(f, NoUser))
          /\ \A v \in Users : permits[v] = Cardinality(HeldBy(f, v))
    BY DEF RwInv, Accounted
  <1>2. PICK i \in Permits : f[i] = NoUser
    <2>1. HeldBy(f, NoUser) # {}
      <3>1. Cardinality(HeldBy(f, NoUser)) # 0
        BY <1>1 DEF Acquire
      <3> QED
        BY <3>1, HeldByIsFinite
    <2> QED
      BY <2>1 DEF HeldBy
  <1>0. PICK g : g = [f EXCEPT ![i] = u]
    OBVIOUS
  <1>3. NoUser \in Owners /\ u \in Owners /\ NoUser # u
    BY LocksAssumption DEF Owners
  <1>4. Moved(f, g, NoUser, u)
    BY <1>0, <1>2, <1>3, PermitMoves, Zenon
  <1>5. /\ m_sem > 0 /\ m_sem' = m_sem - 1 /\ m_sem \in Nat /\ permits \in [Users -> Nat]
        /\ permits' = [permits EXCEPT ![u] = permits[u] + 1]
    BY DEF Acquire, RwInv
  <1>6. m_sem' \in Nat /\ permits' \in [Users -> Nat]
    BY <1>5
  <1>7. m_sem' = Cardinality(HeldBy(g, NoUser))
    BY <1>1, <1>4, <1>5 DEF Moved
  <1>8. ASSUME NEW v \in Users PROVE permits'[v] = Cardinality(HeldBy(g, v))
    <2>1. CASE v = u
      BY <2>1, <1>1, <1>4, <1>5 DEF Moved
    <2>2. CASE v # u
      BY <2>2, <1>1, <1>4, <1>5, LocksAssumption DEF Moved
    <2> QED
      BY <2>1, <2>2
  <1> QED
    BY <1>4, <1>6, <1>7, <1>8 DEF Accounted, Moved

LEMMA GiveKeeps ==
  ASSUME RwInv, NEW u \in Users, Release(u), permits[u] >= 1
  PROVE  m_sem' \in Nat /\ permits' \in [Users -> Nat] /\ Accounted'
  <1>1. PICK f \in [Permits -> Owners] :
          /\ m_sem = Cardinality(HeldBy(f, NoUser))
          /\ \A v \in Users : permits[v] = Cardinality(HeldBy(f, v))
    BY DEF RwInv, Accounted
  <1>2. PICK i \in Permits : f[i] = u
    <2>1. HeldBy(f, u) # {}
      <3>1. Cardinality(HeldBy(f, u)) # 0
        BY <1>1
      <3> QED
        BY <3>1, HeldByIsFinite
    <2> QED
      BY <2>1 DEF HeldBy
  <1>0. PICK g : g = [f EXCEPT ![i] = NoUser]
    OBVIOUS
  <1>3. NoUser \in Owners /\ u \in Owners /\ u # NoUser
    BY LocksAssumption DEF Owners
  <1>4. Moved(f, g, u, NoUser)
    BY <1>0, <1>2, <1>3, PermitMoves, Zenon
  <1>5. /\ m_sem' = m_sem + 1 /\ m_sem \in Nat /\ permits \in [Users -> Nat]
        /\ permits' = [permits EXCEPT ![u] = permits[u] - 1]
    BY DEF Release, RwInv
  <1>6. m_sem' \in Nat /\ permits' \in [Users -> Nat]
    BY <1>5
  <1>7. m_sem' = Cardinality(HeldBy(g, NoUser))
    BY <1>1, <1>4, <1>5 DEF Moved
  <1>8. ASSUME NEW v \in Users PROVE permits'[v] = Cardinality(HeldBy(g, v))
    <2>1. CASE v = u
      BY <2>1, <1>1, <1>4, <1>5 DEF Moved
    <2>2. CASE v # u
      BY <2>2, <1>1, <1>4, <1>5, LocksAssumption DEF Moved
    <2> QED
      BY <2>1, <2>2
  <1> QED
    BY <1>4, <1>6, <1>7, <1>8 DEF Accounted, Moved

LEMMA RwStart == LocksInit => RwInv /\ SingletonInv
  <1> SUFFICES ASSUME LocksInit PROVE RwInv /\ SingletonInv
    OBVIOUS
  <1>1. /\ m_sem = uiMaxReaders /\ user = [u \in Users |-> "out"] /\ permits = [u \in Users |-> 0]
        /\ s_t = 0 /\ instances = 0 /\ live = {} /\ deleted = FALSE
    BY DEF LocksInit
  <1> DEFINE f == [i \in Permits |-> NoUser]
  <1>2. f \in [Permits -> Owners] /\ HeldBy(f, NoUser) = Permits
    BY DEF Owners, HeldBy
  <1>3. \A u \in Users : HeldBy(f, u) = {}
    BY LocksAssumption DEF HeldBy
  <1>4. /\ m_sem = Cardinality(HeldBy(f, NoUser))
        /\ \A u \in Users : permits[u] = Cardinality(HeldBy(f, u))
    <2> HIDE DEF f
    <2>1. Cardinality(HeldBy(f, NoUser)) = uiMaxReaders
      BY <1>2, HeldByIsFinite
    <2>2. \A u \in Users : Cardinality(HeldBy(f, u)) = 0
      BY <1>3, HeldByIsFinite
    <2> QED
      BY <1>1, <2>1, <2>2
  <1>5. Accounted
    BY <1>2, <1>4 DEF Accounted
  <1>6. RwInv
    BY <1>1, <1>5, LocksAssumption DEF RwInv
  <1> QED
    BY <1>1, <1>6 DEF SingletonInv

(* What only depends on the thread: where it is and what it holds.         *)
Place(u) ==
  /\ user[u] \in {"out", "reading", "acquiring", "writing", "releasing"}
  /\ user[u] = "out"       => permits[u] = 0
  /\ user[u] = "reading"   => permits[u] = 1
  /\ user[u] = "acquiring" => m_lock = u
  /\ user[u] = "writing"   => permits[u] = uiMaxReaders
  /\ user[u] = "releasing" => permits[u] >= 1

(* A step of u leaves the place of every other thread as it was, if the    *)
(* mutex is not taken from one.                                            *)
LEMMA RwStepOf ==
  ASSUME RwInv, NEW u \in Users, NEW s, s \in {"out", "reading", "acquiring", "writing", "releasing"},
         user' = [user EXCEPT ![u] = s],
         \A v \in Users : v # u => permits'[v] = permits[v],
         \A v \in Users : v # u /\ user[v] = "acquiring" => m_lock' = v,
         m_sem' \in Nat /\ permits' \in [Users -> Nat] /\ Accounted',
         s = "out"       => permits'[u] = 0,
         s = "reading"   => permits'[u] = 1,
         s = "acquiring" => m_lock' = u,
         s = "writing"   => permits'[u] = uiMaxReaders,
         s = "releasing" => permits'[u] >= 1
  PROVE  RwInv'
  <1>1. user \in [Users -> {"out", "reading", "acquiring", "writing", "releasing"}]
        /\ \A v \in Users : Place(v)
    BY DEF RwInv, Place
  <1>2. user' \in [Users -> {"out", "reading", "acquiring", "writing", "releasing"}]
    BY <1>1
  <1>3. ASSUME NEW v \in Users PROVE Place(v)'
    <2>1. CASE v = u
      BY <2>1, <1>1 DEF Place
    <2>2. CASE v # u
      <3>1. user'[v] = user[v] /\ permits'[v] = permits[v]
        BY <2>2, <1>1
      <3> QED
        BY <2>2, <3>1, <1>1 DEF Place
    <2> QED
      BY <2>1, <2>2
  <1> QED
    BY <1>2, <1>3 DEF RwInv, Place

LEMMA RwStep == RwInv /\ (RwNext \/ UNCHANGED rwVars) => RwInv'
  <1> SUFFICES ASSUME RwInv, RwNext \/ UNCHANGED rwVars PROVE RwInv'
    OBVIOUS
  <1>0. /\ m_sem \in Nat /\ permits \in [Users -> Nat] /\ Accounted
        /\ user \in [Users -> {"out", "reading", "acquiring", "writing", "releasing"}]
        /\ \A u \in Users : Place(u)
        /\ uiMaxReaders \in Nat \ {0}
    BY LocksAssumption DEF RwInv, Place
  <1>1. ASSUME NEW u \in Users, LockRead(u) PROVE RwInv'
    <2>1. Acquire(u) /\ user[u] = "out" /\ user' = [user EXCEPT ![u] = "reading"] /\ m_lock' = m_lock
      BY <1>1 DEF LockRead
    <2>2. m_sem' \in Nat /\ permits' \in [Users -> Nat] /\ Accounted'
      BY <2>1, TakeKeeps
    <2>3. permits' = [permits EXCEPT ![u] = permits[u] + 1] /\ permits[u] = 0
      BY <1>0, <2>1 DEF Acquire, Place
    <2>4. \A v \in Users : v # u => permits'[v] = permits[v]
      BY <1>0, <2>3
    <2>5. \A v \in Users : v # u /\ user[v] = "acquiring" => m_lock' = v
      BY <1>0, <2>1 DEF Place
    <2>6. permits'[u] = 1
      BY <1>0, <2>3
    <2> QED
      BY <2>1, <2>2, <2>4, <2>5, <2>6, RwStepOf
  <1>2. ASSUME NEW u \in Users, UnlockRead(u) PROVE RwInv'
    <2>1. Release(u) /\ user[u] = "reading" /\ user' = [user EXCEPT ![u] = "out"] /\ m_lock' = m_lock
      BY <1>2 DEF UnlockRead
    <2>2. permits' = [permits EXCEPT ![u] = permits[u] - 1] /\ permits[u] = 1
      BY <1>0, <2>1 DEF Release, Place
    <2>3. m_sem' \in Nat /\ permits' \in [Users -> Nat] /\ Accounted'
      BY <2>1, <2>2, GiveKeeps
    <2>4. \A v \in Users : v # u => permits'[v] = permits[v]
      BY <1>0, <2>2
    <2>5. \A v \in Users : v # u /\ user[v] = "acquiring" => m_lock' = v
      BY <1>0, <2>1 DEF Place
    <2>6. permits'[u] = 0
      BY <1>0, <2>2
    <2> QED
      BY <2>1, <2>3, <2>4, <2>5, <2>6, RwStepOf
  <1>3. ASSUME NEW u \in Users, LockWrite(u) PROVE RwInv'
    <2>1. /\ m_lock = NoUser /\ m_lock' = u /\ user' = [user EXCEPT ![u] = "acquiring"]
          /\ UNCHANGED <<m_sem, permits>>
      BY <1>3 DEF LockWrite
    <2>2. m_sem' \in Nat /\ permits' \in [Users -> Nat] /\ Accounted'
      BY <1>0, <2>1 DEF Accounted
    <2>3. \A v \in Users : v # u /\ user[v] = "acquiring" => m_lock' = v
      BY <1>0, <2>1, LocksAssumption DEF Place
    <2> QED
      BY <2>1, <2>2, <2>3, RwStepOf
  <1>4. ASSUME NEW u \in Users, AcquireNext(u) PROVE RwInv'
    <2>1. Acquire(u) /\ user[u] = "acquiring" /\ UNCHANGED <<m_lock, user>>
      BY <1>4 DEF AcquireNext
    <2>2. m_sem' \in Nat /\ permits' \in [Users -> Nat] /\ Accounted'
      BY <2>1, TakeKeeps
    <2>3. permits' = [permits EXCEPT ![u] = permits[u] + 1]
      BY <2>1 DEF Acquire
    <2>4. user' = [user EXCEPT ![u] = "acquiring"]
      BY <1>0, <2>1
    <2>5. \A v \in Users : v # u => permits'[v] = permits[v]
      BY <1>0, <2>3
    <2>6. \A v \in Users : user[v] = "acquiring" => m_lock' = v
      BY <1>0, <2>1 DEF Place
    <2> QED
      BY <2>1, <2>2, <2>4, <2>5, <2>6, RwStepOf
  <1>5. ASSUME NEW u \in Users, Locked(u) PROVE RwInv'
    <2>1. /\ user[u] = "acquiring" /\ permits[u] = uiMaxReaders /\ m_lock' = NoUser
          /\ user' = [user EXCEPT ![u] = "writing"] /\ UNCHANGED <<m_sem, permits>>
      BY <1>5 DEF Locked, HasAll
    <2>2. m_sem' \in Nat /\ permits' \in [Users -> Nat] /\ Accounted'
      BY <1>0, <2>1 DEF Accounted
    <2>3. \A v \in Users : v # u /\ user[v] = "acquiring" => m_lock' = v
      BY <1>0, <2>1 DEF Place
    <2> QED
      BY <2>1, <2>2, <2>3, RwStepOf
  <1>6. ASSUME NEW u \in Users, UnlockWrite(u) PROVE RwInv'
    <2>1. /\ user[u] = "writing" /\ user' = [user EXCEPT ![u] = "releasing"]
          /\ UNCHANGED <<m_sem, m_lock, permits>>
      BY <1>6 DEF UnlockWrite
    <2>2. m_sem' \in Nat /\ permits' \in [Users -> Nat] /\ Accounted'
      BY <1>0, <2>1 DEF Accounted
    <2>3. permits'[u] >= 1 /\ \A v \in Users : v # u /\ user[v] = "acquiring" => m_lock' = v
      BY <1>0, <2>1 DEF Place
    <2> QED
      BY <2>1, <2>2, <2>3, RwStepOf
  <1>7. ASSUME NEW u \in Users, ReleaseNext(u) PROVE RwInv'
    <2>1. Release(u) /\ user[u] = "releasing" /\ m_lock' = m_lock
          /\ user' = [user EXCEPT ![u] = IF permits[u] = 1 THEN "out" ELSE user[u]]
      BY <1>7 DEF ReleaseNext
    <2>2. permits' = [permits EXCEPT ![u] = permits[u] - 1] /\ permits[u] >= 1
      BY <1>0, <2>1 DEF Release, Place
    <2>3. m_sem' \in Nat /\ permits' \in [Users -> Nat] /\ Accounted'
      BY <2>1, <2>2, GiveKeeps
    <2>4. \A v \in Users : v # u => permits'[v] = permits[v]
      BY <1>0, <2>2
    <2>5. \A v \in Users : v # u /\ user[v] = "acquiring" => m_lock' = v
      BY <1>0, <2>1 DEF Place
    <2>6. permits'[u] = permits[u] - 1 /\ permits[u] \in Nat
      BY <1>0, <2>2
    <2>7. CASE permits[u] = 1
      <3>1. user' = [user EXCEPT ![u] = "out"] /\ permits'[u] = 0
        BY <2>1, <2>6, <2>7
      <3> QED
        BY <3>1, <2>3, <2>4, <2>5, RwStepOf
    <2>8. CASE permits[u] # 1
      <3>1. user' = [user EXCEPT ![u] = "releasing"] /\ permits'[u] >= 1
        BY <2>1, <2>2, <2>6, <2>8
      <3> QED
        BY <3>1, <2>3, <2>4, <2>5, RwStepOf
    <2> QED
      BY <2>7, <2>8
  <1>8. CASE UNCHANGED rwVars
    BY <1>8 DEF rwVars, RwInv, Accounted
  <1> QED
    BY <1>1, <1>2, <1>3, <1>4, <1>5, <1>6, <1>7, <1>8 DEF RwNext

LEMMA SingletonStep ==
  SingletonInv /\ (SingletonNext \/ UNCHANGED singletonVars) => SingletonInv'
  <1> SUFFICES ASSUME SingletonInv, SingletonNext \/ UNCHANGED singletonVars PROVE SingletonInv'
    OBVIOUS
  <1>1. ASSUME NEW u \in Users, Instance(u) \/ ReturnInstance(u) PROVE SingletonInv'
    BY <1>1 DEF Instance, ReturnInstance, SingletonInv
  <1>2. ASSUME NEW u \in Users, TestAgain(u) PROVE SingletonInv'
    BY <1>2 DEF TestAgain, SingletonInv
  <1>3. CASE DestroyDeletes
    <2>1. live = {s_t} /\ s_t \in Nat /\ instances \in Nat
      BY <1>3 DEF DestroyDeletes, SingletonInv
    <2>2. live' = {} /\ deleted' = TRUE /\ s_t' = s_t /\ instances' = instances /\ s_t # 0
      BY <1>3, <2>1 DEF DestroyDeletes
    <2> QED
      BY <2>1, <2>2 DEF SingletonInv
  <1>4. CASE DestroyClears
    BY <1>4 DEF DestroyClears, SingletonInv
  <1>5. CASE UNCHANGED singletonVars
    BY <1>5 DEF singletonVars, SingletonInv
  <1> QED
    BY <1>1, <1>2, <1>3, <1>4, <1>5 DEF SingletonNext

LEMMA LocksSafe == RwInv /\ SingletonInv => ExclusionHolds
  <1> SUFFICES ASSUME RwInv, SingletonInv PROVE ExclusionHolds
    OBVIOUS
  <1>0. /\ m_sem \in Nat /\ permits \in [Users -> Nat]
        /\ \A u \in Users : Place(u)
        /\ uiMaxReaders \in Nat \ {0}
    BY LocksAssumption DEF RwInv, Place
  <1>1. PICK f \in [Permits -> Owners] :
          /\ m_sem = Cardinality(HeldBy(f, NoUser))
          /\ \A u \in Users : permits[u] = Cardinality(HeldBy(f, u))
    BY DEF RwInv, Accounted
  <1>2. ASSUME NEW u \in Users, permits[u] = uiMaxReaders
        PROVE  \A v \in Users : v # u => permits[v] = 0
    <2>1. HeldBy(f, u) = Permits
      BY <1>1, <1>2, HeldByIsFinite
    <2>2. \A v \in Users : v # u => HeldBy(f, v) = {}
      BY <2>1 DEF HeldBy
    <2> QED
      BY <1>1, <2>2, HeldByIsFinite
  <1>3. \A u, v \in Users : user[u] = "writing" /\ u # v => user[v] \notin {"reading", "writing"}
    BY <1>0, <1>2 DEF Place
  <1>4. ASSUME m_sem = 0
        PROVE  \E u \in Users : user[u] \in {"reading", "writing", "releasing"} \/ HasAll(u)
    <2>1. HeldBy(f, NoUser) = {}
      BY <1>1, <1>4, HeldByIsFinite
    <2>2. \A i \in Permits : f[i] \in Users
      BY <2>1 DEF HeldBy, Owners
    <2>3. \A i \in Permits : permits[f[i]] # 0
      <3> TAKE i \in Permits
      <3>1. HeldBy(f, f[i]) # {}
        BY DEF HeldBy
      <3> QED
        BY <3>1, <1>1, <2>2, HeldByIsFinite
    <2>4. 1 \in Permits
      BY <1>0 DEF Permits
    <2>5. CASE \A i \in Permits : f[i] = f[1]
      <3>1. HeldBy(f, f[1]) = Permits
        BY <2>5 DEF HeldBy
      <3>2. permits[f[1]] = uiMaxReaders
        BY <1>1, <2>2, <2>4, <3>1, HeldByIsFinite
      <3> QED
        BY <3>2, <2>2, <2>4 DEF HasAll
    <2>6. CASE \E i \in Permits : f[i] # f[1]
      <3>1. PICK i \in Permits : f[i] # f[1]
        BY <2>6
      <3>2. user[f[i]] # "out" /\ user[f[1]] # "out" /\ f[i] \in Users /\ f[1] \in Users
        BY <1>0, <2>2, <2>3, <2>4 DEF Place
      <3>3. ~ (user[f[i]] = "acquiring" /\ user[f[1]] = "acquiring")
        BY <1>0, <3>1, <3>2 DEF Place
      <3> QED
        BY <1>0, <3>2, <3>3 DEF Place
    <2> QED
      BY <2>5, <2>6
  <1>5. Cardinality(live) <= 1
    <2>1. live = {} \/ live = {s_t}
      BY DEF SingletonInv
    <2> QED
      BY <2>1, FS_EmptySet, FS_Singleton
  <1> QED
    BY <1>3, <1>4, <1>5 DEF ExclusionHolds

-----------------------------------------------------------------------------
(* The smart pointers.                                                     *)

Steps == {"none", "set", "dec", "clear", "inc"}
Ops == [step : Steps, ptr : Ptrs \cup {Null}, to : Objs \cup {Null}, from : Ptrs \cup {Null}]

(* The pointers the count of an object stands for: not one that has given  *)
(* its reference up, nor one that has yet to take it.                      *)
Counts(p) == \A t \in PtrThreads : op[t].ptr = p => op[t].step \notin {"clear", "inc"}
Holders(o) == {p \in Ptrs : m_pObj[p] = o /\ Counts(p)}

(* The object of an assignment is held by a pointer that nobody changes    *)
(* meanwhile, or it is new and this thread the only one that knows it.     *)
OnlyKnownTo(t, o) ==
  /\ \A p \in Ptrs : m_pObj[p] = o => p = op[t].ptr
  /\ \A u \in PtrThreads : op[u].to = o => u = t

Source(t) ==
  IF op[t].from = Null
    THEN op[t].to # Null => OnlyKnownTo(t, op[t].to)
    ELSE /\ m_pObj[op[t].from] = op[t].to /\ op[t].to # Null
         /\ AtRest(op[t].from)

OpOk(t) ==
  /\ op[t].step = "none" => op[t].ptr = Null /\ op[t].to = Null /\ op[t].from = Null
  /\ op[t].step # "none" => op[t].ptr \in Ptrs
  /\ op[t].step \in {"dec", "clear"} => m_pObj[op[t].ptr] # Null /\ m_pObj[op[t].ptr] # op[t].to
  /\ op[t].step = "set" => m_pObj[op[t].ptr] = Null
  /\ op[t].step = "inc" => op[t].to # Null /\ m_pObj[op[t].ptr] = op[t].to
  /\ op[t].to # Null => op[t].to \in made
  /\ Source(t)

(* The counter is the number of holders, and an object is disposed of when *)
(* it has none and will get none.                                          *)
Counted(o) ==
  /\ IsFiniteSet(Holders(o)) /\ m_iCnt[o] = Cardinality(Holders(o))
  /\ disposed[o] = IF o \in made /\ Holders(o) = {} /\ \A t \in PtrThreads : op[t].to # o
                     THEN 1 ELSE 0

PtrInv ==
  /\ m_pObj \in [Ptrs -> Objs \cup {Null}]
  /\ m_iCnt \in [Objs -> Int]
  /\ made \subseteq Objs
  /\ disposed \in [Objs -> Nat]
  /\ op \in [PtrThreads -> Ops]
  /\ \A t \in PtrThreads : OpOk(t)
  /\ \A t, u \in PtrThreads : t # u => op[t].ptr # op[u].ptr \/ op[t].ptr = Null
  /\ \A p \in Ptrs : m_pObj[p] # Null => m_pObj[p] \in made
  /\ \A o \in Objs : Counted(o)

LEMMA PtrStart == PtrInit => PtrInv
  <1> SUFFICES ASSUME PtrInit PROVE PtrInv
    OBVIOUS
  <1>1. /\ m_pObj = [p \in Ptrs |-> Null] /\ m_iCnt = [o \in Objs |-> 0] /\ made = {}
        /\ disposed = [o \in Objs |-> 0] /\ op = [t \in PtrThreads |-> Idle]
    BY DEF PtrInit
  <1>2. /\ Idle \in Ops /\ Idle.step = "none"
        /\ Idle.ptr = Null /\ Idle.to = Null /\ Idle.from = Null
    BY DEF Idle, Ops, Steps
  <1> HIDE DEF Idle
  <1>3. op \in [PtrThreads -> Ops]
    BY <1>1, <1>2
  <1>4. ASSUME NEW t \in PtrThreads PROVE OpOk(t)
    BY <1>1, <1>2 DEF OpOk, Source
  <1>5. ASSUME NEW o \in Objs PROVE Counted(o)
    <2>1. Holders(o) = {}
      BY <1>1, NullAssumption DEF Holders
    <2> QED
      BY <2>1, <1>1, FS_EmptySet DEF Counted
  <1> QED
    BY <1>1, <1>2, <1>3, <1>4, <1>5 DEF PtrInv

(* The operations a thread may be in the middle of.                        *)
LEMMA OpFields ==
  ASSUME op \in [PtrThreads -> Ops], NEW t \in PtrThreads
  PROVE  /\ op[t].step \in Steps /\ op[t].ptr \in Ptrs \cup {Null}
         /\ op[t].to \in Objs \cup {Null} /\ op[t].from \in Ptrs \cup {Null}
  <1>1. op[t] \in Ops
    OBVIOUS
  <1> QED
    BY <1>1 DEF Ops

LEMMA OpChanges ==
  ASSUME op \in [PtrThreads -> Ops], NEW t \in PtrThreads, NEW r \in Ops,
         op' = [op EXCEPT ![t] = r]
  PROVE  /\ op' \in [PtrThreads -> Ops] /\ op'[t] = r
         /\ \A u \in PtrThreads : u # t => op'[u] = op[u]
  OBVIOUS

LEMMA StepChanges ==
  ASSUME op \in [PtrThreads -> Ops], NEW t \in PtrThreads, NEW s \in Steps,
         op' = [op EXCEPT ![t].step = s]
  PROVE  /\ op' \in [PtrThreads -> Ops]
         /\ op'[t].step = s /\ op'[t].ptr = op[t].ptr
         /\ op'[t].to = op[t].to /\ op'[t].from = op[t].from
         /\ \A u \in PtrThreads : u # t => op'[u] = op[u]
  <1> DEFINE r == [op[t] EXCEPT !.step = s]
  <1>1. op[t] \in Ops
    OBVIOUS
  <1>2. /\ r.step = s /\ r.ptr = op[t].ptr /\ r.to = op[t].to /\ r.from = op[t].from /\ r \in Ops
    BY <1>1 DEF Ops
  <1>3. op' = [op EXCEPT ![t] = r]
    OBVIOUS
  <1> HIDE DEF r
  <1> QED
    BY <1>2, <1>3, OpChanges

(* A new operation of a thread that was idle: the pointer it changes is at *)
(* rest, and its object is the object of a pointer at rest, or new, or     *)
(* none.                                                                   *)
LEMMA AssignStep ==
  ASSUME PtrInv, NEW t \in PtrThreads, NEW p \in Ptrs,
         NEW o \in Objs \cup {Null}, NEW from \in Ptrs \cup {Null},
         Assign(t, p, o, from),
         \/ o = Null /\ from = Null /\ made' = made
         \/ from \in Ptrs /\ o = m_pObj[from] /\ o # Null /\ AtRest(from) /\ made' = made
         \/ from = Null /\ o \in Objs \ made /\ made' = made \cup {o}
  PROVE  PtrInv'
  <1>0. /\ m_pObj \in [Ptrs -> Objs \cup {Null}] /\ made \subseteq Objs
        /\ op \in [PtrThreads -> Ops]
        /\ \A u \in PtrThreads : OpOk(u)
        /\ \A u, v \in PtrThreads : u # v => op[u].ptr # op[v].ptr \/ op[u].ptr = Null
        /\ \A q \in Ptrs : m_pObj[q] # Null => m_pObj[q] \in made
        /\ \A c \in Objs : Counted(c)
        /\ Null \notin Ptrs /\ Null \notin Objs
    BY NullAssumption DEF PtrInv
  <1> DEFINE s == IF m_pObj[p] = Null THEN "set" ELSE "dec"
             r == [step |-> s, ptr |-> p, to |-> o, from |-> from]
  <1>1. /\ op[t] = Idle /\ AtRest(p) /\ NotCopied(p) /\ m_pObj[p] # o
        /\ op' = [op EXCEPT ![t] = r] /\ UNCHANGED <<m_pObj, m_iCnt, disposed>>
    BY DEF Assign, Differs
  <1>2. r \in Ops /\ r.step = s /\ r.ptr = p /\ r.to = o /\ r.from = from
        /\ s \in {"set", "dec"} /\ (s = "dec" <=> m_pObj[p] # Null)
    BY DEF Ops, Steps
  <1> HIDE DEF r, s
  <1>3. /\ op' \in [PtrThreads -> Ops] /\ op'[t] = r
        /\ \A u \in PtrThreads : u # t => op'[u] = op[u]
    BY <1>0, <1>1, <1>2, OpChanges
  <1>4. /\ op'[t].step = s /\ op'[t].ptr = p /\ op'[t].to = o /\ op'[t].from = from
        /\ op[t].step = "none" /\ op[t].ptr = Null /\ op[t].to = Null /\ op[t].from = Null
        /\ made \subseteq made' /\ made' \subseteq Objs
    BY <1>0, <1>1, <1>2, <1>3 DEF Idle
  <1>5. \A u \in PtrThreads : u # t => op[u].ptr # p /\ op[u].from # p
    BY <1>1 DEF AtRest, NotCopied
  <1>6. ASSUME NEW q \in Ptrs PROVE Counts(q)' <=> Counts(q)
    BY <1>0, <1>2, <1>3, <1>4, <1>5 DEF Counts
  <1>7. ASSUME NEW c PROVE Holders(c)' = Holders(c)
    BY <1>1, <1>6 DEF Holders
  <1>8. ASSUME NEW u \in PtrThreads PROVE OpOk(u)'
    <2>1. CASE u = t
      <3>1. Source(t)'
        <4>1. CASE o = Null /\ from = Null
          BY <4>1, <1>4 DEF Source
        <4>2. CASE from \in Ptrs /\ o = m_pObj[from] /\ o # Null /\ AtRest(from)
          <5>1. AtRest(from)'
            BY <4>2, <1>1, <1>3, <1>4 DEF AtRest
          <5> QED
            BY <4>2, <5>1, <1>0, <1>1, <1>4 DEF Source
        <4>3. CASE from = Null /\ o \in Objs \ made
          <5>1. \A q \in Ptrs : m_pObj[q] # o
            BY <4>3, <1>0
          <5>2. \A v \in PtrThreads : v # t => op'[v].to # o
            BY <4>3, <1>0, <1>3 DEF OpOk
          <5> QED
            BY <4>3, <5>1, <5>2, <1>1, <1>4 DEF Source, OnlyKnownTo
        <4> QED
          BY <4>1, <4>2, <4>3
      <3>2. o # Null => o \in made'
        BY <1>0
      <3> QED
        BY <2>1, <3>1, <3>2, <1>1, <1>2, <1>4 DEF OpOk
    <2>2. CASE u # t
      <3>1. op'[u] = op[u] /\ OpOk(u) /\ Source(u)
        BY <2>2, <1>0, <1>3 DEF OpOk
      <3>2. Source(u)'
        <4>1. CASE op[u].from = Null
          <5>1. ASSUME op[u].to # Null PROVE OnlyKnownTo(u, op[u].to)'
            <6>1. OnlyKnownTo(u, op[u].to) /\ op[u].to \in made
              BY <4>1, <5>1, <3>1 DEF Source, OpOk
            <6>2. o # op[u].to
              BY <6>1, <5>1, <2>2 DEF OnlyKnownTo, AtRest
            <6> QED
              BY <6>1, <6>2, <3>1, <1>1, <1>3, <1>4 DEF OnlyKnownTo
          <5> QED
            BY <4>1, <5>1, <3>1 DEF Source
        <4>2. CASE op[u].from # Null
          <5>1. op[u].from # p /\ AtRest(op[u].from) /\ m_pObj[op[u].from] = op[u].to /\ op[u].to # Null
            BY <4>2, <3>1, <1>5, <2>2 DEF Source
          <5>2. AtRest(op[u].from)'
            BY <5>1, <3>1, <1>3, <1>4 DEF AtRest
          <5> QED
            BY <4>2, <5>1, <5>2, <3>1, <1>1 DEF Source
        <4> QED
          BY <4>1, <4>2
      <3> QED
        BY <3>1, <3>2, <1>1, <1>4 DEF OpOk
    <2> QED
      BY <2>1, <2>2
  <1>9. \A u, v \in PtrThreads : u # v => op'[u].ptr # op'[v].ptr \/ op'[u].ptr = Null
    BY <1>0, <1>3, <1>4, <1>5
  <1>10. ASSUME NEW c \in Objs PROVE Counted(c)'
    <2>1. Counted(c) /\ Holders(c)' = Holders(c) /\ m_iCnt'[c] = m_iCnt[c] /\ disposed'[c] = disposed[c]
      BY <1>0, <1>1, <1>7
    <2>2. CASE c # o
      <3>1. c \in made' <=> c \in made
        BY <2>2
      <3>2. (\A u \in PtrThreads : op'[u].to # c) <=> (\A u \in PtrThreads : op[u].to # c)
        BY <2>2, <1>0, <1>3, <1>4
      <3> QED
        BY <2>1, <3>1, <3>2 DEF Counted
    <2>3. CASE c = o
      <3>1. disposed[c] = 0
        <4>1. CASE o \in made
          <5>1. from \in Ptrs /\ o = m_pObj[from] /\ AtRest(from)
            BY <4>1, <2>3, <1>0
          <5>2. from \in Holders(c)
            BY <5>1, <2>3 DEF Holders, Counts, AtRest
          <5> QED
            BY <5>2, <2>1 DEF Counted
        <4>2. CASE o \notin made
          BY <4>2, <2>1, <2>3 DEF Counted
        <4> QED
          BY <4>1, <4>2
      <3>2. ~ \A u \in PtrThreads : op'[u].to # c
        BY <2>3, <1>4
      <3> QED
        BY <2>1, <3>1, <3>2 DEF Counted
    <2> QED
      BY <2>2, <2>3
  <1>11. \A q \in Ptrs : m_pObj'[q] # Null => m_pObj'[q] \in made'
    BY <1>0, <1>1, <1>4
  <1>12. m_pObj' \in [Ptrs -> Objs \cup {Null}] /\ m_iCnt' \in [Objs -> Int] /\ disposed' \in [Objs -> Nat]
    BY <1>1 DEF PtrInv
  <1> QED
    BY <1>3, <1>4, <1>8, <1>9, <1>10, <1>11, <1>12 DEF PtrInv

(* The steps of an operation.  q is its pointer, which no other operation  *)
(* changes or copies from.                                                 *)
Goes(t) ==
  /\ \A u \in PtrThreads : u # t => op'[u] = op[u]
  /\ \A p \in Ptrs : p # op[t].ptr => m_pObj'[p] = m_pObj[p]
  /\ made' = made

LEMMA NobodyElses ==
  ASSUME PtrInv, NEW t \in PtrThreads, op[t].step # "none"
  PROVE  /\ op[t].ptr \in Ptrs /\ op[t].ptr # Null /\ op[t].from # op[t].ptr
         /\ \A u \in PtrThreads : u # t => op[u].ptr # op[t].ptr /\ op[u].from # op[t].ptr
  <1>0. /\ op \in [PtrThreads -> Ops] /\ \A u \in PtrThreads : OpOk(u) /\ Source(u)
        /\ \A u, v \in PtrThreads : u # v => op[u].ptr # op[v].ptr \/ op[u].ptr = Null
        /\ Null \notin Ptrs
    BY NullAssumption DEF PtrInv, OpOk
  <1>1. op[t].ptr \in Ptrs /\ op[t].ptr # Null
    BY <1>0 DEF OpOk
  <1>2. \A u \in PtrThreads : op[u].from # op[t].ptr
    <2> TAKE u \in PtrThreads
    <2>1. CASE op[u].from = Null
      BY <2>1, <1>1
    <2>2. CASE op[u].from # Null
      BY <2>2, <1>0 DEF Source, AtRest
    <2> QED
      BY <2>1, <2>2
  <1> QED
    BY <1>0, <1>1, <1>2

(* What an operation copies from stays, and what is new stays unknown.     *)
LEMMA SourceKeeps ==
  ASSUME PtrInv, NEW t \in PtrThreads, op[t].step # "none", Goes(t),
         m_pObj'[op[t].ptr] \in {m_pObj[op[t].ptr], Null, op[t].to},
         op'[t].ptr \in {op[t].ptr, Null}, op'[t].to \in {op[t].to, Null},
         NEW u \in PtrThreads, op'[u].ptr = op[u].ptr, op'[u].to = op[u].to, op'[u].from = op[u].from
  PROVE  Source(u)'
  <1>0. /\ op \in [PtrThreads -> Ops] /\ OpOk(u) /\ Source(u) /\ Null \notin Ptrs
        /\ \A v \in PtrThreads : v # t => op'[v] = op[v]
        /\ \A p \in Ptrs : p # op[t].ptr => m_pObj'[p] = m_pObj[p]
    BY NullAssumption DEF PtrInv, OpOk, Goes
  <1>1. /\ op[t].ptr \in Ptrs /\ op[t].from # op[t].ptr
        /\ \A v \in PtrThreads : v # t => op[v].ptr # op[t].ptr /\ op[v].from # op[t].ptr
    BY NobodyElses
  <1>2. op[u].from \in Ptrs \cup {Null}
    BY <1>0, OpFields
  <1>3. CASE op[u].from = Null
    <2>1. ASSUME op[u].to # Null PROVE OnlyKnownTo(u, op[u].to)'
      <3>1. OnlyKnownTo(u, op[u].to)
        BY <1>3, <2>1, <1>0 DEF Source
      <3>2. ASSUME NEW p \in Ptrs, m_pObj'[p] = op[u].to PROVE p = op[u].ptr
        <4>1. CASE p # op[t].ptr \/ m_pObj'[p] = m_pObj[p]
          BY <3>1, <3>2, <4>1, <1>0 DEF OnlyKnownTo
        <4>2. CASE p = op[t].ptr /\ m_pObj'[p] \in {Null, op[t].to}
          BY <3>1, <3>2, <4>2, <2>1 DEF OnlyKnownTo
        <4> QED
          BY <4>1, <4>2
      <3>3. ASSUME NEW v \in PtrThreads, op'[v].to = op[u].to PROVE v = u
        <4>1. CASE v = t
          BY <4>1, <3>1, <3>3, <2>1 DEF OnlyKnownTo
        <4>2. CASE v # t
          BY <4>2, <3>1, <3>3, <1>0 DEF OnlyKnownTo
        <4> QED
          BY <4>1, <4>2
      <3> QED
        BY <3>2, <3>3 DEF OnlyKnownTo
    <2> QED
      BY <1>3, <2>1 DEF Source
  <1>4. CASE op[u].from # Null
    <2>1. op[u].from # op[t].ptr
      BY <1>1
    <2>2. /\ AtRest(op[u].from) /\ op[u].from \in Ptrs
          /\ m_pObj[op[u].from] = op[u].to /\ op[u].to # Null
      BY <1>0, <1>2, <1>4 DEF Source
    <2>3. \A v \in PtrThreads : op'[v].ptr # op[u].from
      BY <1>0, <2>1, <2>2 DEF AtRest
    <2>4. m_pObj'[op[u].from] = m_pObj[op[u].from]
      BY <1>0, <2>1, <2>2
    <2> QED
      BY <1>4, <2>2, <2>3, <2>4 DEF Source, AtRest
  <1> QED
    BY <1>3, <1>4

(* The steps of t leave the operations of the others in order.             *)
LEMMA OthersKeep ==
  ASSUME PtrInv, NEW t \in PtrThreads, op[t].step # "none", Goes(t),
         m_pObj'[op[t].ptr] \in {m_pObj[op[t].ptr], Null, op[t].to},
         op'[t].ptr \in {op[t].ptr, Null}, op'[t].to \in {op[t].to, Null},
         OpOk(t)'
  PROVE  /\ \A u \in PtrThreads : OpOk(u)'
         /\ \A u, v \in PtrThreads : u # v => op'[u].ptr # op'[v].ptr \/ op'[u].ptr = Null
         /\ \A p \in Ptrs : m_pObj'[p] # Null => m_pObj'[p] \in made'
  <1>0. /\ op \in [PtrThreads -> Ops] /\ \A u \in PtrThreads : OpOk(u)
        /\ \A u, v \in PtrThreads : u # v => op[u].ptr # op[v].ptr \/ op[u].ptr = Null
        /\ \A p \in Ptrs : m_pObj[p] # Null => m_pObj[p] \in made
        /\ \A u \in PtrThreads : u # t => op'[u] = op[u]
        /\ \A p \in Ptrs : p # op[t].ptr => m_pObj'[p] = m_pObj[p]
        /\ made' = made
    BY DEF PtrInv, Goes
  <1>1. /\ op[t].ptr \in Ptrs /\ op[t].ptr # Null
        /\ \A v \in PtrThreads : v # t => op[v].ptr # op[t].ptr /\ op[v].from # op[t].ptr
    BY NobodyElses
  <1>2. ASSUME NEW u \in PtrThreads PROVE OpOk(u)'
    <2>1. CASE u # t
      <3>1. op'[u] = op[u] /\ OpOk(u) /\ op[u].ptr # op[t].ptr
        BY <2>1, <1>0, <1>1
      <3>2. Source(u)'
        BY <3>1, SourceKeeps
      <3>3. op[u].step # "none" => op[u].ptr \in Ptrs /\ m_pObj'[op[u].ptr] = m_pObj[op[u].ptr]
        BY <3>1, <1>0 DEF OpOk
      <3> QED
        BY <3>1, <3>2, <3>3, <1>0 DEF OpOk
    <2> QED
      BY <2>1
  <1>3. \A u, v \in PtrThreads : u # v => op'[u].ptr # op'[v].ptr \/ op'[u].ptr = Null
    BY <1>0, <1>1
  <1>4. \A p \in Ptrs : m_pObj'[p] # Null => m_pObj'[p] \in made'
    BY <1>0, <1>1 DEF OpOk
  <1> QED
    BY <1>2, <1>3, <1>4

(* A counter that no step touches stays right.                             *)
LEMMA CountStays ==
  ASSUME NEW c \in Objs, Counted(c), Holders(c)' = Holders(c), m_iCnt'[c] = m_iCnt[c],
         disposed'[c] = disposed[c], made' = made,
         (\A u \in PtrThreads : op'[u].to # c) <=> (\A u \in PtrThreads : op[u].to # c)
  PROVE  Counted(c)'
  BY DEF Counted

LEMMA DecRefStep ==
  ASSUME PtrInv, NEW t \in PtrThreads, DecRef(t)
  PROVE  PtrInv'
  <1> DEFINE q == op[t].ptr
             o == m_pObj[q]
  <1>0. /\ m_pObj \in [Ptrs -> Objs \cup {Null}] /\ m_iCnt \in [Objs -> Int]
        /\ disposed \in [Objs -> Nat] /\ made \subseteq Objs /\ op \in [PtrThreads -> Ops]
        /\ \A u \in PtrThreads : OpOk(u) /\ Source(u)
        /\ \A c \in Objs : Counted(c)
        /\ \A p \in Ptrs : m_pObj[p] # Null => m_pObj[p] \in made
        /\ Null \notin Ptrs
    BY NullAssumption DEF PtrInv, OpOk
  <1>1. /\ op[t].step = "dec" /\ op' = [op EXCEPT ![t].step = "clear"]
        /\ m_iCnt' = [m_iCnt EXCEPT ![o] = m_iCnt[o] + (-1)]
        /\ disposed' = IF m_iCnt[o] = 1 THEN [disposed EXCEPT ![o] = disposed[o] + 1] ELSE disposed
        /\ UNCHANGED <<m_pObj, made>>
    BY DEF DecRef, ExchangeAndAdd
  <1>2. /\ q \in Ptrs /\ q # Null /\ op[t].from # q
        /\ \A u \in PtrThreads : u # t => op[u].ptr # q /\ op[u].from # q
    BY <1>1, NobodyElses
  <1>3. o \in Objs /\ o \in made /\ o # op[t].to
    BY <1>0, <1>1, <1>2 DEF OpOk
  <1>4. /\ op' \in [PtrThreads -> Ops]
        /\ op'[t].step = "clear" /\ op'[t].ptr = q /\ op'[t].to = op[t].to /\ op'[t].from = op[t].from
        /\ \A u \in PtrThreads : u # t => op'[u] = op[u]
    <2>1. "clear" \in Steps
      BY DEF Steps
    <2> QED
      BY <2>1, <1>0, <1>1, StepChanges
  <1>5. Goes(t)
    BY <1>1, <1>4 DEF Goes
  <1>6. OpOk(t)'
    <2>1. Source(t)'
      BY <1>1, <1>4, <1>5, SourceKeeps
    <2> QED
      BY <2>1, <1>0, <1>1, <1>4 DEF OpOk
  <1>7. /\ \A u \in PtrThreads : OpOk(u)'
        /\ \A u, v \in PtrThreads : u # v => op'[u].ptr # op'[v].ptr \/ op'[u].ptr = Null
        /\ \A p \in Ptrs : m_pObj'[p] # Null => m_pObj'[p] \in made'
    BY <1>1, <1>4, <1>5, <1>6, OthersKeep
  <1>8. q \in Holders(o) /\ Holders(o)' = Holders(o) \ {q}
    BY <1>0, <1>1, <1>2, <1>4 DEF Holders, Counts
  <1>9. \A c \in Objs : c # o => Holders(c)' = Holders(c)
    BY <1>0, <1>1, <1>2, <1>4 DEF Holders, Counts
  <1>10. \A c : (\A u \in PtrThreads : op'[u].to # c) <=> (\A u \in PtrThreads : op[u].to # c)
    BY <1>4
  <1>11. ASSUME NEW u \in PtrThreads, op[u].to = o PROVE Holders(o) # {q}
    <2>1. u # t /\ op[u].to # Null
      BY <1>3, <1>11, NullAssumption
    <2>2. op[u].from # Null
      <3>1. SUFFICES ASSUME op[u].from = Null PROVE FALSE
        OBVIOUS
      <3>2. OnlyKnownTo(u, op[u].to)
        BY <3>1, <2>1, <1>0 DEF Source
      <3> QED
        BY <3>2, <1>2, <1>11, <2>1 DEF OnlyKnownTo
    <2>3. op[u].from \in Ptrs /\ m_pObj[op[u].from] = o /\ AtRest(op[u].from)
      BY <2>2, <1>0, <1>11, OpFields DEF Source
    <2>4. op[u].from \in Holders(o) /\ op[u].from # q
      BY <2>1, <2>3, <1>2 DEF Holders, Counts, AtRest
    <2> QED
      BY <2>4
  <1>12. Counted(o)'
    <2>1. /\ IsFiniteSet(Holders(o)) /\ m_iCnt[o] = Cardinality(Holders(o))
          /\ disposed[o] = 0
      BY <1>0, <1>3, <1>8 DEF Counted
    <2>2. IsFiniteSet(Holders(o)') /\ Cardinality(Holders(o)') = Cardinality(Holders(o)) - 1
      BY <1>8, <2>1, FS_RemoveElement
    <2>3. m_iCnt'[o] = m_iCnt[o] - 1
      BY <1>0, <1>1, <1>3
    <2>4. Holders(o)' = {} <=> m_iCnt[o] = 1
      BY <2>1, <2>2, FS_EmptySet, FS_CardinalityType
    <2>5. Holders(o)' = {} => \A u \in PtrThreads : op'[u].to # o
      BY <1>8, <1>10, <1>11
    <2>6. disposed'[o] = IF m_iCnt[o] = 1 THEN 1 ELSE 0
      BY <1>0, <1>1, <1>3, <2>1
    <2> QED
      BY <1>1, <1>3, <2>1, <2>2, <2>3, <2>4, <2>5, <2>6 DEF Counted
  <1>13. ASSUME NEW c \in Objs, c # o PROVE Counted(c)'
    <2>1. m_iCnt'[c] = m_iCnt[c] /\ disposed'[c] = disposed[c]
      BY <1>0, <1>1, <1>13
    <2> QED
      BY <2>1, <1>0, <1>1, <1>9, <1>10, <1>13, CountStays
  <1>14. m_iCnt' \in [Objs -> Int] /\ disposed' \in [Objs -> Nat]
    BY <1>0, <1>1, <1>3
  <1> QED
    BY <1>0, <1>1, <1>4, <1>7, <1>12, <1>13, <1>14 DEF PtrInv

LEMMA ClearPtrStep ==
  ASSUME PtrInv, NEW t \in PtrThreads, ClearPtr(t)
  PROVE  PtrInv'
  <1> DEFINE q == op[t].ptr
  <1>0. /\ m_pObj \in [Ptrs -> Objs \cup {Null}] /\ m_iCnt \in [Objs -> Int]
        /\ disposed \in [Objs -> Nat] /\ made \subseteq Objs /\ op \in [PtrThreads -> Ops]
        /\ \A u \in PtrThreads : OpOk(u) /\ Source(u)
        /\ \A c \in Objs : Counted(c)
        /\ Null \notin Ptrs /\ Null \notin Objs
    BY NullAssumption DEF PtrInv, OpOk
  <1>1. /\ op[t].step = "clear" /\ op' = [op EXCEPT ![t].step = "set"]
        /\ m_pObj' = [m_pObj EXCEPT ![q] = Null] /\ UNCHANGED <<m_iCnt, made, disposed>>
    BY DEF ClearPtr
  <1>2. /\ q \in Ptrs /\ op[t].from # q
        /\ \A u \in PtrThreads : u # t => op[u].ptr # q /\ op[u].from # q
    BY <1>1, NobodyElses
  <1>3. /\ m_pObj' \in [Ptrs -> Objs \cup {Null}] /\ m_pObj'[q] = Null
        /\ \A p \in Ptrs : p # q => m_pObj'[p] = m_pObj[p]
    BY <1>0, <1>1, <1>2
  <1>4. /\ op' \in [PtrThreads -> Ops]
        /\ op'[t].step = "set" /\ op'[t].ptr = q /\ op'[t].to = op[t].to /\ op'[t].from = op[t].from
        /\ \A u \in PtrThreads : u # t => op'[u] = op[u]
    <2>1. "set" \in Steps
      BY DEF Steps
    <2> QED
      BY <2>1, <1>0, <1>1, StepChanges
  <1>5. Goes(t) /\ m_pObj'[op[t].ptr] \in {m_pObj[op[t].ptr], Null, op[t].to}
    BY <1>1, <1>3, <1>4 DEF Goes
  <1>6. OpOk(t)'
    <2>1. Source(t)'
      BY <1>1, <1>4, <1>5, SourceKeeps
    <2> QED
      BY <2>1, <1>0, <1>1, <1>2, <1>3, <1>4 DEF OpOk
  <1>7. /\ \A u \in PtrThreads : OpOk(u)'
        /\ \A u, v \in PtrThreads : u # v => op'[u].ptr # op'[v].ptr \/ op'[u].ptr = Null
        /\ \A p \in Ptrs : m_pObj'[p] # Null => m_pObj'[p] \in made'
    BY <1>1, <1>4, <1>5, <1>6, OthersKeep
  <1>8. \A c \in Objs : Holders(c)' = Holders(c)
    BY <1>0, <1>1, <1>2, <1>3, <1>4 DEF Holders, Counts
  <1>9. \A c : (\A u \in PtrThreads : op'[u].to # c) <=> (\A u \in PtrThreads : op[u].to # c)
    BY <1>4
  <1>10. ASSUME NEW c \in Objs PROVE Counted(c)'
    <2>1. m_iCnt'[c] = m_iCnt[c] /\ disposed'[c] = disposed[c]
      BY <1>1
    <2> QED
      BY <2>1, <1>0, <1>1, <1>8, <1>9, CountStays
  <1> QED
    BY <1>0, <1>1, <1>3, <1>4, <1>7, <1>10 DEF PtrInv

LEMMA IdleFields ==
  /\ Idle \in Ops /\ Idle.step = "none"
  /\ Idle.ptr = Null /\ Idle.to = Null /\ Idle.from = Null
  BY DEF Idle, Ops, Steps

LEMMA SetPtrStep ==
  ASSUME PtrInv, NEW t \in PtrThreads, SetPtr(t)
  PROVE  PtrInv'
  <1> DEFINE q == op[t].ptr
  <1>0. /\ m_pObj \in [Ptrs -> Objs \cup {Null}] /\ m_iCnt \in [Objs -> Int]
        /\ disposed \in [Objs -> Nat] /\ made \subseteq Objs /\ op \in [PtrThreads -> Ops]
        /\ \A u \in PtrThreads : OpOk(u) /\ Source(u)
        /\ \A c \in Objs : Counted(c)
        /\ Null \notin Ptrs /\ Null \notin Objs
    BY NullAssumption DEF PtrInv, OpOk
  <1>1. /\ op[t].step = "set" /\ m_pObj' = [m_pObj EXCEPT ![q] = op[t].to]
        /\ op' = [op EXCEPT ![t] = IF op[t].to = Null THEN Idle ELSE [op[t] EXCEPT !.step = "inc"]]
        /\ UNCHANGED <<m_iCnt, made, disposed>>
    BY DEF SetPtr
  <1>2. /\ q \in Ptrs /\ q # Null /\ op[t].from # q /\ m_pObj[q] = Null
        /\ \A u \in PtrThreads : u # t => op[u].ptr # q /\ op[u].from # q
    BY <1>0, <1>1, NobodyElses DEF OpOk
  <1>3. /\ m_pObj' \in [Ptrs -> Objs \cup {Null}] /\ m_pObj'[q] = op[t].to
        /\ \A p \in Ptrs : p # q => m_pObj'[p] = m_pObj[p]
    <2>1. op[t].to \in Objs \cup {Null}
      BY <1>0, OpFields
    <2> QED
      BY <2>1, <1>0, <1>1, <1>2
  <1>4. /\ op' \in [PtrThreads -> Ops]
        /\ \A u \in PtrThreads : u # t => op'[u] = op[u]
        /\ op[t].to = Null => /\ op'[t].step = "none" /\ op'[t].ptr = Null
                              /\ op'[t].to = Null /\ op'[t].from = Null
        /\ op[t].to # Null => /\ op'[t].step = "inc" /\ op'[t].ptr = q
                              /\ op'[t].to = op[t].to /\ op'[t].from = op[t].from
    <2>1. CASE op[t].to = Null
      <3>1. op' = [op EXCEPT ![t] = Idle]
        BY <2>1, <1>1
      <3> QED
        BY <2>1, <3>1, <1>0, IdleFields, OpChanges
    <2>2. CASE op[t].to # Null
      <3>1. op' = [op EXCEPT ![t].step = "inc"] /\ "inc" \in Steps
        BY <2>2, <1>1 DEF Steps
      <3> QED
        BY <2>2, <3>1, <1>0, StepChanges
    <2> QED
      BY <2>1, <2>2
  <1>5. /\ Goes(t) /\ m_pObj'[op[t].ptr] \in {m_pObj[op[t].ptr], Null, op[t].to}
        /\ op'[t].ptr \in {op[t].ptr, Null} /\ op'[t].to \in {op[t].to, Null}
    BY <1>1, <1>3, <1>4 DEF Goes
  <1>6. OpOk(t)'
    <2>1. CASE op[t].to = Null
      BY <2>1, <1>4 DEF OpOk, Source
    <2>2. CASE op[t].to # Null
      <3>1. Source(t)'
        BY <2>2, <1>1, <1>4, <1>5, SourceKeeps
      <3> QED
        BY <2>2, <3>1, <1>0, <1>1, <1>2, <1>3, <1>4 DEF OpOk
    <2> QED
      BY <2>1, <2>2
  <1>7. /\ \A u \in PtrThreads : OpOk(u)'
        /\ \A u, v \in PtrThreads : u # v => op'[u].ptr # op'[v].ptr \/ op'[u].ptr = Null
        /\ \A p \in Ptrs : m_pObj'[p] # Null => m_pObj'[p] \in made'
    BY <1>1, <1>4, <1>5, <1>6, OthersKeep
  <1>8. \A c \in Objs : Holders(c)' = Holders(c)
    BY <1>0, <1>1, <1>2, <1>3, <1>4 DEF Holders, Counts
  <1>9. \A c \in Objs : (\A u \in PtrThreads : op'[u].to # c) <=> (\A u \in PtrThreads : op[u].to # c)
    BY <1>0, <1>4
  <1>10. ASSUME NEW c \in Objs PROVE Counted(c)'
    <2>1. m_iCnt'[c] = m_iCnt[c] /\ disposed'[c] = disposed[c]
      BY <1>1
    <2> QED
      BY <2>1, <1>0, <1>1, <1>8, <1>9, CountStays
  <1> QED
    BY <1>0, <1>1, <1>3, <1>4, <1>7, <1>10 DEF PtrInv

LEMMA IncRefStep ==
  ASSUME PtrInv, NEW t \in PtrThreads, IncRef(t)
  PROVE  PtrInv'
  <1> DEFINE q == op[t].ptr
  <1>0. /\ m_pObj \in [Ptrs -> Objs \cup {Null}] /\ m_iCnt \in [Objs -> Int]
        /\ disposed \in [Objs -> Nat] /\ made \subseteq Objs /\ op \in [PtrThreads -> Ops]
        /\ \A u \in PtrThreads : OpOk(u) /\ Source(u)
        /\ \A c \in Objs : Counted(c)
        /\ Null \notin Ptrs /\ Null \notin Objs
    BY NullAssumption DEF PtrInv, OpOk
  <1>o. PICK o : o = op[t].to
    OBVIOUS
  <1>1. /\ op[t].step = "inc" /\ op' = [op EXCEPT ![t] = Idle]
        /\ m_iCnt' = [m_iCnt EXCEPT ![o] = m_iCnt[o] + 1]
        /\ UNCHANGED <<m_pObj, made, disposed>>
    BY <1>o DEF IncRef, AtomicIncrement
  <1>2. /\ q \in Ptrs /\ q # Null /\ op[t].from # q
        /\ \A u \in PtrThreads : u # t => op[u].ptr # q /\ op[u].from # q
    BY <1>1, NobodyElses
  <1>3. o \in Objs /\ o \in made /\ m_pObj[q] = o /\ o = op[t].to
    BY <1>o, <1>0, <1>1, OpFields DEF OpOk
  <1>4. /\ op' \in [PtrThreads -> Ops]
        /\ op'[t].step = "none" /\ op'[t].ptr = Null /\ op'[t].to = Null /\ op'[t].from = Null
        /\ \A u \in PtrThreads : u # t => op'[u] = op[u]
    BY <1>0, <1>1, IdleFields, OpChanges
  <1>5. Goes(t)
    BY <1>1, <1>4 DEF Goes
  <1>6. OpOk(t)'
    BY <1>4 DEF OpOk, Source
  <1>7. /\ \A u \in PtrThreads : OpOk(u)'
        /\ \A u, v \in PtrThreads : u # v => op'[u].ptr # op'[v].ptr \/ op'[u].ptr = Null
        /\ \A p \in Ptrs : m_pObj'[p] # Null => m_pObj'[p] \in made'
    BY <1>1, <1>4, <1>5, <1>6, OthersKeep
  <1>8. q \notin Holders(o) /\ Holders(o)' = Holders(o) \cup {q}
    BY <1>0, <1>1, <1>2, <1>3, <1>4 DEF Holders, Counts
  <1>9. \A c \in Objs : c # o => Holders(c)' = Holders(c)
    BY <1>0, <1>1, <1>2, <1>3, <1>4 DEF Holders, Counts
  <1>10. \A c \in Objs : c # o =>
           ((\A u \in PtrThreads : op'[u].to # c) <=> (\A u \in PtrThreads : op[u].to # c))
    BY <1>0, <1>3, <1>4
  <1>11. Counted(o)'
    <2>1. /\ IsFiniteSet(Holders(o)) /\ m_iCnt[o] = Cardinality(Holders(o)) /\ disposed[o] = 0
      BY <1>0, <1>3 DEF Counted
    <2>2. IsFiniteSet(Holders(o)') /\ Cardinality(Holders(o)') = Cardinality(Holders(o)) + 1
      <3>1. /\ IsFiniteSet(Holders(o) \cup {q})
            /\ Cardinality(Holders(o) \cup {q}) = IF q \in Holders(o) THEN Cardinality(Holders(o))
                                                                     ELSE Cardinality(Holders(o)) + 1
        BY <2>1, FS_AddElement
      <3> QED
        BY <3>1, <1>8
    <2>3. m_iCnt'[o] = m_iCnt[o] + 1 /\ disposed'[o] = 0 /\ Holders(o)' # {}
      BY <1>0, <1>1, <1>3, <1>8, <2>1
    <2> QED
      BY <2>2, <2>3, <2>1 DEF Counted
  <1>12. ASSUME NEW c \in Objs, c # o PROVE Counted(c)'
    <2>1. m_iCnt'[c] = m_iCnt[c] /\ disposed'[c] = disposed[c]
      BY <1>0, <1>1, <1>12
    <2> QED
      BY <2>1, <1>0, <1>1, <1>9, <1>10, <1>12, CountStays
  <1>13. m_iCnt' \in [Objs -> Int] /\ disposed' \in [Objs -> Nat]
    BY <1>0, <1>1, <1>3
  <1> QED
    BY <1>0, <1>1, <1>4, <1>7, <1>11, <1>12, <1>13 DEF PtrInv

LEMMA PtrStep == PtrInv /\ (PtrNext \/ UNCHANGED ptrVars) => PtrInv'
  <1> SUFFICES ASSUME PtrInv, PtrNext \/ UNCHANGED ptrVars PROVE PtrInv'
    OBVIOUS
  <1>0. m_pObj \in [Ptrs -> Objs \cup {Null}] /\ Null \notin Objs
    BY NullAssumption DEF PtrInv
  <1>1. ASSUME NEW t \in PtrThreads, NEW p \in Ptrs, NEW from \in Ptrs, CopyPtr(t, p, from) PROVE PtrInv'
    <2> DEFINE o == m_pObj[from]
    <2>1. o \in Objs \cup {Null} /\ from \in Ptrs \cup {Null} /\ o = m_pObj[from]
      BY <1>0
    <2>2. Assign(t, p, o, from) /\ o # Null /\ AtRest(from) /\ made' = made
      BY <1>1 DEF CopyPtr
    <2> HIDE DEF o
    <2> QED
      BY <1>1, <2>1, <2>2, AssignStep
  <1>2. ASSUME NEW t \in PtrThreads, NEW p \in Ptrs, ResetPtr(t, p) PROVE PtrInv'
    BY <1>2, AssignStep DEF ResetPtr
  <1>3. ASSUME NEW t \in PtrThreads, NEW p \in Ptrs, NEW o \in Objs, PointAtNew(t, p, o) PROVE PtrInv'
    BY <1>3, AssignStep DEF PointAtNew
  <1>4. ASSUME NEW t \in PtrThreads, DecRef(t) \/ ClearPtr(t) \/ SetPtr(t) \/ IncRef(t) PROVE PtrInv'
    BY <1>4, DecRefStep, ClearPtrStep, SetPtrStep, IncRefStep
  <1>5. CASE UNCHANGED ptrVars
    <2>1. UNCHANGED <<m_pObj, m_iCnt, made, disposed, op>>
      BY <1>5 DEF ptrVars
    <2> QED
      <3>1. \A c : Holders(c)' = Holders(c)
        BY <2>1 DEF Holders, Counts
      <3>2. \A c \in Objs : Counted(c)'
        BY <2>1, <3>1 DEF PtrInv, Counted
      <3>3. \A t \in PtrThreads : OpOk(t)'
        BY <2>1 DEF PtrInv, OpOk, Source, OnlyKnownTo, AtRest
      <3> QED
        BY <2>1, <3>2, <3>3 DEF PtrInv
  <1> QED
    BY <1>1, <1>2, <1>3, <1>4, <1>5 DEF PtrNext

LEMMA PtrSafe == PtrInv => DisposedWhenUnreferenced
  <1> SUFFICES ASSUME PtrInv PROVE DisposedWhenUnreferenced
    OBVIOUS
  <1>0. /\ m_pObj \in [Ptrs -> Objs \cup {Null}] /\ made \subseteq Objs
        /\ \A t \in PtrThreads : OpOk(t)
        /\ \A c \in Objs : Counted(c)
    BY DEF PtrInv
  <1>1. ASSUME NEW p \in Ptrs, m_pObj[p] # Null,
               \A t \in PtrThreads : op[t].ptr = p => op[t].step # "clear"
        PROVE  disposed[m_pObj[p]] = 0
    <2>1. m_pObj[p] \in Objs /\ Counted(m_pObj[p])
      BY <1>0, <1>1
    <2>2. CASE Counts(p)
      <3>1. p \in Holders(m_pObj[p])
        BY <2>2 DEF Holders
      <3> QED
        BY <2>1, <3>1 DEF Counted
    <2>3. CASE ~ Counts(p)
      <3>1. PICK t \in PtrThreads : op[t].ptr = p /\ op[t].step = "inc"
        BY <2>3, <1>1 DEF Counts
      <3>2. op[t].to = m_pObj[p]
        BY <3>1, <1>0 DEF OpOk
      <3> QED
        BY <2>1, <3>2 DEF Counted
    <2> QED
      BY <2>2, <2>3
  <1>2. ASSUME NEW o \in made, \A p \in Ptrs : m_pObj[p] # o, \A t \in PtrThreads : op[t].to # o
        PROVE  disposed[o] = 1
    <2>1. Holders(o) = {} /\ Counted(o)
      BY <1>0, <1>2 DEF Holders
    <2> QED
      BY <2>1, <1>2 DEF Counted
  <1> QED
    BY <1>1, <1>2 DEF DisposedWhenUnreferenced

-----------------------------------------------------------------------------
(* All of them.                                                            *)

UtilsInv == PtrInv /\ EventInv /\ RwInv /\ SingletonInv /\ RingInv

(* Whatever utility is used, in whatever order its users take their steps, *)
(* each keeps its invariant.                                               *)
THEOREM Invariant == Spec => []UtilsInv
  <1>1. UtilsInit => UtilsInv
    BY PtrStart, EventStart, RwStart, RingStart DEF UtilsInit, UtilsInv
  <1>2. UtilsInv /\ [UtilsNext]_utilsVars => UtilsInv'
    <2> SUFFICES ASSUME UtilsInv, [UtilsNext]_utilsVars PROVE UtilsInv'
      OBVIOUS
    <2>1. /\ PtrNext \/ UNCHANGED ptrVars
          /\ EventNext \/ UNCHANGED eventVars
          /\ RwNext \/ UNCHANGED rwVars
          /\ SingletonNext \/ UNCHANGED singletonVars
          /\ RingNext \/ UNCHANGED ringVars
      BY DEF UtilsNext, utilsVars, lockVars, RwNext, SingletonNext
    <2> QED
      BY <2>1, PtrStep, EventStep, RwStep, SingletonStep, RingStep DEF UtilsInv
  <1> QED
    BY <1>1, <1>2, PTL DEF Spec

(* CSmartPtr: an object that a pointer names is alive, and one that nobody *)
(* names any more has been deleted, once.                                  *)
THEOREM Pointers == Spec => []DisposedWhenUnreferenced
  <1>1. UtilsInv => DisposedWhenUnreferenced
    BY PtrSafe DEF UtilsInv
  <1> QED
    BY <1>1, Invariant, PTL

(* CEventHandleEngine: every event is handled once and in the order of the *)
(* posts, however post_event and exec() interleave.                        *)
THEOREM EventOrder == Spec => []EventsOnceInOrder
  <1>1. UtilsInv => EventsOnceInOrder
    BY EventSafe DEF UtilsInv
  <1> QED
    BY <1>1, Invariant, PTL

(* CRWLock: no reader beside a writer, no two writers, and the permits are *)
(* never all with threads that wait for more; CSingleton: one instance.    *)
THEOREM Exclusion == Spec => []ExclusionHolds
  <1>1. UtilsInv => ExclusionHolds
    BY LocksSafe DEF UtilsInv
  <1> QED
    BY <1>1, Invariant, PTL

(* CSmartRB: neither the writer nor the reader takes a lock, and no block  *)
(* that has not been read, or is being read, is overwritten.               *)
THEOREM RingBuffer == Spec => []RingKeepsUnread
  <1>1. UtilsInv => RingKeepsUnread
    BY RingSafe DEF UtilsInv
  <1> QED
    BY <1>1, Invariant, PTL

=============================================================================
