------------------------------- MODULE SmartRB -------------------------------
(***************************************************************************)
(* CSmartRB (libcomm_utils/src/memory/smart_rb.h): a ring of blocks with   *)
(* two counters that only grow, for one writer and one reader who take no  *)
(* lock.  A block's content is the index it was written for; 0 stands for  *)
(* what a memcpy that is not over, or ZERO_MEM, leaves there.  What the    *)
(* calls assert of an index is their precondition, and a guard here: no    *)
(* code of the repository calls them wrongly, or at all.                   *)
(***************************************************************************)
EXTENDS Naturals

CONSTANTS
  BlockCnt,
  MaxIdx     (* bound on the indexes                                       *)

ASSUME RingAssumption == BlockCnt \in Nat \ {0} /\ MaxIdx \in Nat

VARIABLES
  DataHeadIdx,  (* m_ui64DataHeadIdx                                       *)
  FreeHeadIdx,  (* m_ui64FreeHeadIdx                                       *)
  block,        (* the blocks of m_bytes                                   *)
  writing,      (* the writer is copying into the free head block          *)
  reading       (* the index the reader has the block of, 0 when none      *)

ringVars == <<DataHeadIdx, FreeHeadIdx, block, writing, reading>>

(* The constructor, which ends in reset().                                 *)
RingInit ==
  /\ DataHeadIdx = 1 /\ FreeHeadIdx = 1
  /\ block = [i \in 0..(BlockCnt - 1) |-> 0]
  /\ writing = FALSE /\ reading = 0

Empty == DataHeadIdx = FreeHeadIdx

(* Mutation of Full: one block too many.                                   *)
FullByOne == FreeHeadIdx - DataHeadIdx > BlockCnt

Full == FreeHeadIdx - DataHeadIdx = BlockCnt

BlockAt(idx) == idx % BlockCnt

(* set_data, or get_free_head and the writing in place: the block is       *)
(* overwritten                                                             *)
GetFreeHead ==
  /\ ~ writing /\ ~ Full /\ FreeHeadIdx < MaxIdx
  /\ writing' = TRUE
  /\ block' = [block EXCEPT ![BlockAt(FreeHeadIdx)] = 0]
  /\ UNCHANGED <<DataHeadIdx, FreeHeadIdx, reading>>

(* and then shown to the reader: set_data's increment, set_free_head_idx.  *)
(* One block at a time: get_free_head, the only way to the blocks for      *)
(* writing, gives the first free one, so an index further on would show    *)
(* blocks that nobody has written.                                         *)
SetFreeHeadIdx ==
  /\ writing
  /\ block' = [block EXCEPT ![BlockAt(FreeHeadIdx)] = FreeHeadIdx]
  /\ FreeHeadIdx' = FreeHeadIdx + 1
  /\ writing' = FALSE
  /\ UNCHANGED <<DataHeadIdx, reading>>

(* get_data: a pointer into the ring.                                      *)
GetData(idx) ==
  /\ ~ Empty /\ idx < FreeHeadIdx /\ idx >= DataHeadIdx
  /\ reading' = idx
  /\ UNCHANGED <<DataHeadIdx, FreeHeadIdx, block, writing>>

(* set_data_head_idx: idx < m_ui64FreeHeadIdx, so that the last block with *)
(* data is never given back, and a ring of one block is full for ever.     *)
SetDataHeadIdx(idx) ==
  /\ idx > DataHeadIdx /\ idx < FreeHeadIdx
  /\ DataHeadIdx' = idx
  /\ reading' = IF reading < idx THEN 0 ELSE reading
  /\ UNCHANGED <<FreeHeadIdx, block, writing>>

RingNext ==
  \/ GetFreeHead
  \/ SetFreeHeadIdx
  \/ \E idx \in 1..MaxIdx : GetData(idx) \/ SetDataHeadIdx(idx)

-----------------------------------------------------------------------------
(* The block the reader has, and every block between the two heads, holds  *)
(* what was written for its index.                                         *)
RingKeepsUnread ==
  /\ reading # 0 => block[BlockAt(reading)] = reading
  /\ \A idx \in DataHeadIdx..(FreeHeadIdx - 1) : block[BlockAt(idx)] = idx
=============================================================================
