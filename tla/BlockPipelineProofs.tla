------------------------ MODULE BlockPipelineProofs ------------------------
(***************************************************************************)
(* Proofs about BlockPipeline, for every length of an epoch, any number of *)
(* crashes and any bound on the chain: a node broadcasts at most one block *)
(* for an epoch and slot, and the blocks it serves are linked.             *)
(***************************************************************************)
EXTENDS BlockPipeline, TLAPS

\* What the pipeline uses of sequences: the last header and the parent of a
\* block that was appended to its parent.
LEMMA AppendFacts ==
    ASSUME NEW S, NEW s \in Seq(S), NEW e \in S
    PROVE  /\ Append(s, e) \in Seq(S)
           /\ Append(s, e) # <<>>
           /\ Len(Append(s, e)) = Len(s) + 1
           /\ Last(Append(s, e)) = e
           /\ Front(Append(s, e)) = s
<1>1. /\ Append(s, e) \in Seq(S)
      /\ Len(Append(s, e)) = Len(s) + 1
      /\ Append(s, e)[Len(s) + 1] = e
      /\ \A i \in 1..Len(s) : Append(s, e)[i] = s[i]
  OBVIOUS
<1>2. Append(s, e) # <<>>
  BY <1>1
<1>3. Last(Append(s, e)) = e
  BY <1>1 DEF Last
<1>4. Front(Append(s, e)) = s
  <2>1. Front(Append(s, e)) = SubSeq(Append(s, e), 1, Len(s))
    BY <1>1 DEF Front
  <2> DEFINE f == SubSeq(Append(s, e), 1, Len(s))
  <2>2. f \in Seq(S) /\ Len(f) = Len(s) /\ \A i \in 1..Len(s) : f[i] = s[i]
    BY <1>1
  <2>3. f = s
    BY <2>2
  <2> QED BY <2>1, <2>3
<1> QED BY <1>1, <1>2, <1>3, <1>4

\* A block that is not the genesis is one longer than its parent.
LEMMA FrontFacts ==
    ASSUME NEW S, NEW s \in Seq(S), s # <<>>
    PROVE  Front(s) \in Seq(S) /\ Len(Front(s)) = Len(s) - 1 /\ Len(s) >= 1
<1>1. Len(s) \in Nat /\ Len(s) >= 1 /\ \A i \in 1..Len(s) : s[i] \in S
  OBVIOUS
<1> DEFINE n == Len(s) - 1
<1>2. n \in Nat /\ \A i \in 1..n : s[i] \in S
  BY <1>1
<1> HIDE DEF n
<1>3. SubSeq(s, 1, n) \in Seq(S) /\ Len(SubSeq(s, 1, n)) = n
  BY <1>2
<1> USE DEF n
<1> QED BY <1>1, <1>3 DEF Front

-----------------------------------------------------------------------------
(* Types.                                                                  *)

LEMMA ExecutedType ==
    ASSUME ledger \in 0..MaxLedger
    PROVE  Executed \in 0..MaxLedger
BY PipelineAssumption DEF Executed

LEMMA InitType == Init => TypeOK
<1> SUFFICES ASSUME Init PROVE TypeOK
  OBVIOUS
<1>1. <<>> \in Seq(Header)
  OBVIOUS
<1> QED BY <1>1, PipelineAssumption DEF Init, TypeOK, Idle, Step

\* A block that a handler starts from the tip is well formed.
LEMMA NewTaskType ==
    ASSUME TypeOK, NEW h \in Header, NEW step \in Step
    PROVE  LET t == [step |-> step, block |-> Append(current_block, h)]
           IN  /\ t \in [step : Step, block : Seq(Header)]
               /\ t.block # <<>>
               /\ Front(t.block) = current_block
               /\ Last(t.block) = h
BY AppendFacts DEF TypeOK

LEMMA DivType ==
    ASSUME NEW n \in Nat, NEW d \in Nat \ {0}
    PROVE  n \div d \in Nat
OBVIOUS

LEMMA EpochType ==
    ASSUME TypeOK
    PROVE  current_epoch \in Nat
<1>1. chain_height \in Nat
  BY DEF TypeOK, chain_height
<1> QED BY <1>1, DivType, PipelineAssumption DEF current_epoch

LEMMA HeadersMonotone ==
    ASSUME NEW E \in SUBSET Nat, NEW S \in SUBSET Nat, NEW R \in SUBSET Nat
    PROVE  [author : {"peer"}, epoch : E, slot : S, state_root : R] \subseteq Header
BY DEF Header

LEMMA PeerHeaderType ==
    ASSUME TypeOK
    PROVE  PeerHeader(chain_height + 1) \subseteq Header
<1>1. chain_height \in Nat /\ chain_height + 1 \in Nat /\ chain_height + 1 - 1 = chain_height
  BY DEF TypeOK, chain_height
<1>2. PeerEpoch(chain_height + 1) \in Nat
  <2>1. PeerEpoch(chain_height + 1) = chain_height \div EPOCH_DURATION_BLOCKS
    BY <1>1 DEF PeerEpoch
  <2> QED BY <1>1, <2>1, DivType, PipelineAssumption
<1>3. PeerRoots(chain_height + 1) \in SUBSET Nat
  BY <1>1 DEF PeerRoots
<1>4. {PeerEpoch(chain_height + 1)} \in SUBSET Nat /\ 1..slot \in SUBSET Nat
  BY <1>2 DEF TypeOK
<1> QED BY <1>3, <1>4, HeadersMonotone DEF PeerHeader

LEMMA NextType == TypeOK /\ [Next]_vars => TypeOK'
<1> SUFFICES ASSUME TypeOK, [Next]_vars PROVE TypeOK'
  OBVIOUS
<1>0. <<>> \in Seq(Header) /\ Idle \in [step : Step, block : Seq(Header)] /\ Idle.step = "idle"
  BY DEF Idle, Step
<1>1. CASE Import
  <2>1. PICK h \in PeerHeader(chain_height + 1) : import_execute(h)
    BY <1>1 DEF Import, ImportFrom
  <2>2. h \in Header
    BY PeerHeaderType
  <2>3. task' \in [step : Step, block : Seq(Header)]
        /\ (task'.step = "idle" \/ (task'.block # <<>> /\ Front(task'.block) = current_block))
    BY <2>1, <2>2, <1>0, NewTaskType DEF import_execute, Step
  <2>4. ledger' \in 0..MaxLedger
    BY <2>1, ExecutedType DEF import_execute, TypeOK
  <2> QED BY <2>1, <2>3, <2>4 DEF import_execute, TypeOK, memory
<1>2. CASE import_commit
  BY <1>0, <1>2 DEF import_commit, TypeOK
<1>3. CASE Produce
  <2> DEFINE h == [author |-> "self", epoch |-> current_epoch, slot |-> slot, state_root |-> ledger']
  <2>1. ledger' \in 0..MaxLedger
    BY <1>3, ExecutedType DEF Produce, produce_execute, TypeOK
  <2>2. h \in Header
    BY <2>1, EpochType, PipelineAssumption DEF Header, TypeOK
  <2>3. task' = [step |-> "sign", block |-> Append(current_block, h)]
    BY <1>3 DEF Produce, produce_execute
  <2> HIDE DEF h
  <2>4. task' \in [step : Step, block : Seq(Header)]
        /\ task'.block # <<>> /\ Front(task'.block) = current_block
    BY <2>2, <2>3, NewTaskType DEF Step
  <2> QED BY <1>3, <2>1, <2>4 DEF Produce, produce_execute, TypeOK, memory
<1>4. CASE mark_slot_as_signed
  <2>1. Last(task.block) \in Header
    BY <1>4 DEF mark_slot_as_signed, TypeOK, Last
  <2>2. <<Last(task.block).epoch, Last(task.block).slot>> \in Nat \X Nat
    BY <2>1 DEF Header
  <2> QED BY <1>4, <2>2 DEF mark_slot_as_signed, TypeOK, memory, Step
<1>5. CASE store_produced_block
  BY <1>0, <1>5 DEF store_produced_block, TypeOK
<1>6. CASE PeerStatus
  BY <1>6 DEF PeerStatus, TypeOK, disk, chain_height
<1>7. CASE Clock
  BY <1>7 DEF Clock, TypeOK, disk, memory
<1>8. CASE Crash
  BY <1>0, <1>8 DEF Crash, TypeOK, disk
<1>9. CASE UNCHANGED vars
  BY <1>9 DEF TypeOK, vars, memory, disk
<1>10. CASE store_block
  BY <1>10 DEF store_block, TypeOK, memory, Step
<1> QED BY <1>1, <1>2, <1>3, <1>4, <1>5, <1>6, <1>7, <1>8, <1>9, <1>10 DEF Next

\* Type correctness of the pipeline: the block a handler works on extends the tip
\* for as long as the handler runs.
THEOREM TypeCorrect == Spec => []TypeOK
BY InitType, NextType, PTL DEF Spec

-----------------------------------------------------------------------------
(* A node signs once.  Every block that was broadcast, and every block that *)
(* is about to be stored, has its slot in the producer database; a block    *)
(* that is about to be signed has not.                                      *)

SlotOf(block) == <<Last(block).epoch, Last(block).slot>>

SlotsInv ==
    /\ \A b \in published : SlotOf(b) \in signed_slots
    /\ task.step = "sign" => SlotOf(task.block) \notin signed_slots
    /\ task.step \in {"store", "stored"} =>
         /\ SlotOf(task.block) \in signed_slots
         /\ \A b \in published : SlotOf(b) # SlotOf(task.block)
    /\ \A b, c \in published : SlotOf(b) = SlotOf(c) => b = c

LEMMA InitSlots == Init => SlotsInv
BY DEF Init, Idle, SlotsInv

LEMMA NextSlots == TypeOK /\ SlotsInv /\ [Next]_vars => SlotsInv'
<1> SUFFICES ASSUME TypeOK, SlotsInv, [Next]_vars PROVE SlotsInv'
  OBVIOUS
<1>1. CASE Import
  BY <1>1 DEF Import, ImportFrom, import_execute, SlotsInv, SlotOf, Idle
<1>2. CASE import_commit
  BY <1>2 DEF import_commit, SlotsInv, SlotOf, Idle
<1>3. CASE Produce
  <2> DEFINE h == [author |-> "self", epoch |-> current_epoch, slot |-> slot, state_root |-> ledger']
  <2>1. h \in Header
    <3>1. ledger' \in 0..MaxLedger
      BY <1>3, ExecutedType DEF Produce, produce_execute, TypeOK
    <3> QED BY <3>1, EpochType, PipelineAssumption DEF Header, TypeOK
  <2>2. task' = [step |-> "sign", block |-> Append(current_block, h)]
    BY <1>3 DEF Produce, produce_execute
  <2>3. Last(task'.block) = h
    BY <2>1, <2>2, NewTaskType DEF Step
  <2>4. SlotOf(task'.block) = <<current_epoch, slot>>
    BY <2>3 DEF SlotOf
  <2>5. SlotOf(task'.block) \notin signed_slots
    BY <1>3, <2>4 DEF Produce, produce_execute, has_signed_slot
  <2> QED BY <1>3, <2>2, <2>5 DEF Produce, produce_execute, SlotsInv, SlotOf
<1>4. CASE mark_slot_as_signed
  <2>1. /\ task'.step = "store" /\ task'.block = task.block /\ task.step = "sign"
        /\ signed_slots' = signed_slots \cup {SlotOf(task.block)}
        /\ published' = published
    BY <1>4 DEF mark_slot_as_signed, SlotOf, TypeOK
  <2> QED BY <2>1 DEF SlotsInv, SlotOf
<1>5. CASE store_produced_block
  BY <1>5 DEF store_produced_block, SlotsInv, SlotOf, Idle
<1>6. CASE PeerStatus
  BY <1>6 DEF PeerStatus, disk, SlotsInv, SlotOf
<1>7. CASE Clock
  BY <1>7 DEF Clock, disk, memory, SlotsInv, SlotOf
<1>8. CASE Crash
  BY <1>8 DEF Crash, disk, SlotsInv, SlotOf, Idle
<1>9. CASE UNCHANGED vars
  BY <1>9 DEF vars, memory, disk, SlotsInv, SlotOf
<1>10. CASE store_block
  <2>1. /\ task'.block = task.block /\ task'.step \in {"imported", "stored"}
        /\ task'.step = "stored" => task.step = "store"
    BY <1>10 DEF store_block, TypeOK
  <2> QED BY <1>10, <2>1 DEF store_block, SlotsInv, SlotOf
<1> QED BY <1>1, <1>2, <1>3, <1>4, <1>5, <1>6, <1>7, <1>8, <1>9, <1>10 DEF Next

\* has_signed_slot and mark_slot_as_signed: a node broadcasts at most one block for
\* an epoch and slot, wherever it crashes and however often.
THEOREM BroadcastsOncePerSlot == Spec => []SignsOnce
<1>1. SlotsInv => SignsOnce
  BY DEF SlotsInv, SignsOnce, SlotOf
<1> QED BY <1>1, InitType, NextType, InitSlots, NextSlots, PTL DEF Spec

-----------------------------------------------------------------------------
(* The served blocks are linked.  The best block on disk is the tip, except *)
(* after a restart, when the tip is the genesis block.  Between the two     *)
(* writes it is the blocks up to the new one that are linked; a first crash *)
(* there leaves a chain because the best block is still the parent.         *)

Written == task.step \in {"imported", "stored"}

LinkedInv ==
    /\ current_block # <<>> =>
         /\ best_block = Len(current_block)
         /\ best_block \in DOMAIN stored
         /\ stored[best_block] = current_block
    /\ crashes = 0 => best_block = Len(current_block)
    /\ crashes <= 1 /\ ~Written => LinkedUpTo(best_block)
    /\ crashes <= 1 /\ Written => LinkedUpTo(Len(task.block))
    /\ Written => Len(task.block) \in DOMAIN stored /\ stored[Len(task.block)] = task.block

LEMMA InitLinked == Init => LinkedInv
BY DEF Init, LinkedInv, LinkedUpTo, Written, Idle

\* A chain up to a height is one up to any lower height.
LEMMA LinkedPrefix ==
    ASSUME NEW h \in Nat, NEW k \in Nat, k <= h, LinkedUpTo(h)
    PROVE  LinkedUpTo(k)
BY DEF LinkedUpTo

\* What a handler in progress knows of its block.
LEMMA TaskFacts ==
    ASSUME TypeOK, task.step # "idle"
    PROVE  /\ task.block # <<>> /\ Front(task.block) = current_block
           /\ Len(task.block) \in Nat /\ Len(task.block) >= 1
           /\ Len(current_block) = Len(task.block) - 1
BY FrontFacts DEF TypeOK

\* store_block of a block on top of the tip.
LEMMA StoreLinked ==
    ASSUME TypeOK, LinkedInv, store_block
    PROVE  /\ crashes <= 1 => LinkedUpTo(Len(task.block))'
           /\ Len(task.block) \in DOMAIN stored' /\ stored'[Len(task.block)] = task.block
           /\ current_block # <<>> => best_block \in DOMAIN stored' /\ stored'[best_block] = current_block
<1> DEFINE b == task.block
<1>1. b # <<>> /\ Front(b) = current_block
  BY TaskFacts DEF store_block
<1>2. Len(b) \in Nat /\ Len(b) >= 1 /\ Len(current_block) = Len(b) - 1
  BY TaskFacts DEF store_block
<1>3. /\ Len(b) \in DOMAIN stored' /\ stored'[Len(b)] = b
      /\ \A n \in DOMAIN stored : n # Len(b) => n \in DOMAIN stored' /\ stored'[n] = stored[n]
      /\ task'.block = b
  BY DEF store_block, TypeOK
<1>4. ~Written
  BY DEF store_block, Written
<1> HIDE DEF b
<1>5. ASSUME crashes <= 1, NEW n \in 1..Len(b)
      PROVE  /\ n \in DOMAIN stored' /\ Len(stored'[n]) = n
             /\ n > 1 => Front(stored'[n]) = stored'[n - 1]
  <2>0. n \in Nat /\ n >= 1 /\ n <= Len(b)
    BY <1>2
  <2>1. CASE Len(b) = 1
    <3>1. n = Len(b) /\ ~(n > 1)
      BY <2>0, <2>1
    <3>2. stored'[n] = b
      BY <1>3, <3>1
    <3> QED BY <1>3, <3>1, <3>2
  <2>2. CASE Len(b) > 1
    <3>1. current_block # <<>>
      BY <1>2, <2>2
    <3>2. /\ best_block = Len(b) - 1
          /\ stored[Len(b) - 1] = current_block
          /\ \A m \in 1..(Len(b) - 1) :
                /\ m \in DOMAIN stored /\ Len(stored[m]) = m
                /\ m > 1 => Front(stored[m]) = stored[m - 1]
      BY <1>2, <1>4, <1>5, <3>1 DEF LinkedInv, LinkedUpTo
    <3>3. \A m \in 1..(Len(b) - 1) : m \in DOMAIN stored' /\ stored'[m] = stored[m]
      BY <1>2, <1>3, <3>2
    <3>4. CASE n = Len(b)
      <4>1. stored'[n] = b /\ n - 1 \in 1..(Len(b) - 1)
        BY <1>2, <1>3, <2>2, <3>4
      <4>2. stored'[n - 1] = current_block
        BY <3>2, <3>3, <3>4, <4>1
      <4> QED BY <1>1, <1>3, <3>4, <4>1, <4>2
    <3>5. CASE n # Len(b)
      <4>1. n \in 1..(Len(b) - 1)
        BY <1>2, <2>0, <3>5
      <4>2. n > 1 => n - 1 \in 1..(Len(b) - 1)
        BY <1>2, <2>0, <3>5
      <4> QED BY <3>2, <3>3, <4>1, <4>2
    <3> QED BY <3>4, <3>5
  <2> QED BY <1>2, <2>1, <2>2
<1>6. crashes <= 1 => LinkedUpTo(Len(task.block))'
  BY <1>3, <1>5 DEF LinkedUpTo
<1>7. current_block # <<>> => best_block \in DOMAIN stored' /\ stored'[best_block] = current_block
  BY <1>2, <1>3 DEF LinkedInv
<1> QED BY <1>3, <1>6, <1>7 DEF b

LEMMA NextLinked == TypeOK /\ LinkedInv /\ [Next]_vars => LinkedInv'
<1> SUFFICES ASSUME TypeOK, LinkedInv, [Next]_vars PROVE LinkedInv'
  OBVIOUS
<1>1. CASE store_block
  <2>1. /\ UNCHANGED <<current_block, best_block, crashes>>
        /\ task'.block = task.block /\ Written'
    BY <1>1 DEF store_block, memory, Written, TypeOK
  <2> QED BY <1>1, <2>1, StoreLinked DEF LinkedInv
<1>2. CASE import_commit \/ store_produced_block
  <2>1. /\ Written /\ ~Written' /\ UNCHANGED <<stored, crashes>>
        /\ best_block' = Len(task.block) /\ current_block' = task.block
    BY <1>2 DEF import_commit, store_produced_block, Written, Idle
  <2> QED BY <2>1 DEF LinkedInv, LinkedUpTo
<1>3. CASE UNCHANGED <<stored, best_block, current_block, crashes>> /\ ~Written /\ ~Written'
  BY <1>3 DEF LinkedInv, LinkedUpTo
<1>4. CASE UNCHANGED <<stored, best_block, current_block, crashes, task>>
  BY <1>4 DEF LinkedInv, LinkedUpTo, Written
<1>5. CASE Import
  BY <1>3, <1>5 DEF Import, ImportFrom, import_execute, memory, Written, Idle
<1>6. CASE Produce
  BY <1>3, <1>6 DEF Produce, produce_execute, memory, Written, Idle
<1>7. CASE mark_slot_as_signed
  BY <1>3, <1>7 DEF mark_slot_as_signed, memory, Written, TypeOK
<1>8. CASE PeerStatus \/ Clock \/ UNCHANGED vars
  BY <1>4, <1>8 DEF PeerStatus, Clock, vars, memory, disk
<1>9. CASE Crash
  <2>1. UNCHANGED <<stored, best_block>> /\ current_block' = <<>> /\ ~Written' /\ crashes' = crashes + 1
    BY <1>9 DEF Crash, disk, Written, Idle
  <2>2. crashes' # 0
    BY <2>1 DEF TypeOK
  <2>3. ASSUME crashes' <= 1 PROVE LinkedUpTo(best_block)
    <3>1. crashes = 0
      BY <2>1, <2>3 DEF TypeOK
    <3>2. CASE Written
      <4>1. Len(task.block) \in Nat /\ best_block = Len(task.block) - 1
        BY <3>1, <3>2, TaskFacts DEF LinkedInv, Written
      <4> QED BY <3>1, <3>2, <4>1, LinkedPrefix DEF LinkedInv, TypeOK
    <3> QED BY <3>1, <3>2 DEF LinkedInv
  <2> QED BY <2>1, <2>2, <2>3 DEF LinkedInv, LinkedUpTo
<1> QED BY <1>1, <1>2, <1>5, <1>6, <1>7, <1>8, <1>9 DEF Next

\* store_block, set_best_block, get_blocks_range: the blocks 1 to the best one are
\* a chain, also after a restart that stored other blocks over them, as long as the
\* node crashed at most once.
THEOREM ServesAChain == Spec => []ServedBlocksLinked
<1>1. LinkedInv => ServedBlocksLinked
  BY DEF LinkedInv, ServedBlocksLinked, Written
<1> QED BY <1>1, InitType, NextType, InitLinked, NextLinked, PTL DEF Spec

-----------------------------------------------------------------------------
(* The handlers implement the abstract chain.  The block of a handler in    *)
(* progress is after its parent, and its author tells which handler it is.  *)

PlacedInv ==
    /\ task.step # "idle" => Abstract!After(Last(task.block), current_block)
    /\ task.step \in {"import", "imported"} => Last(task.block).author = "peer"
    /\ task.step \in {"sign", "store", "stored"} => Last(task.block).author = "self"

LEMMA InitPlaced == Init => PlacedInv
BY DEF Init, Idle, PlacedInv

LEMMA NextPlaced == TypeOK /\ PlacedInv /\ [Next]_vars => PlacedInv'
<1> SUFFICES ASSUME TypeOK, PlacedInv, [Next]_vars PROVE PlacedInv'
  OBVIOUS
<1>1. CASE Import
  <2>1. PICK h \in PeerHeader(chain_height + 1) : import_execute(h)
    BY <1>1 DEF Import, ImportFrom
  <2>2. h \in Header /\ h.author = "peer"
    BY PeerHeaderType DEF PeerHeader
  <2>3. Abstract!After(h, current_block)
    BY <2>1 DEF import_execute, Validates, TipHeader, Abstract!After, Abstract!Last, Last
  <2>4. current_block' = current_block
        /\ (task' = Idle \/ task' = [step |-> "import", block |-> Append(current_block, h)])
    BY <2>1 DEF import_execute, memory
  <2>5. Last(Append(current_block, h)) = h
    BY <2>2, AppendFacts DEF TypeOK
  <2> QED BY <2>2, <2>3, <2>4, <2>5 DEF PlacedInv, Idle, Abstract!After, Abstract!Last, Last
<1>2. CASE Produce
  <2> DEFINE h == [author |-> "self", epoch |-> current_epoch, slot |-> slot, state_root |-> ledger']
  <2>1. h \in Header /\ h.author = "self" /\ h.slot = slot /\ h.epoch = current_epoch
    <3>1. ledger' \in 0..MaxLedger
      BY <1>2, ExecutedType DEF Produce, produce_execute, TypeOK
    <3> QED BY <3>1, EpochType, PipelineAssumption DEF Header, TypeOK
  <2>2. task' = [step |-> "sign", block |-> Append(current_block, h)] /\ current_block' = current_block
    BY <1>2 DEF Produce, produce_execute, memory
  <2>3. slot > TipHeader(current_block).slot \/ current_epoch > TipHeader(current_block).epoch
    BY <1>2 DEF Produce, produce_execute
  <2> HIDE DEF h
  <2>4. Abstract!After(h, current_block)
    BY <2>1, <2>3 DEF TipHeader, Abstract!After, Abstract!Last, Last
  <2>5. Last(task'.block) = h
    BY <2>1, <2>2, NewTaskType DEF Step
  <2> QED BY <2>1, <2>2, <2>4, <2>5 DEF PlacedInv, Abstract!After, Abstract!Last, Last
<1>3. CASE mark_slot_as_signed \/ store_block
  <2>1. /\ current_block' = current_block /\ task'.block = task.block /\ task.step # "idle"
        /\ task'.step = "imported" => task.step = "import"
        /\ task'.step \in {"store", "stored"} => task.step \in {"sign", "store"}
        /\ task'.step \in {"imported", "store", "stored"}
    BY <1>3 DEF mark_slot_as_signed, store_block, memory, TypeOK
  <2> QED BY <2>1 DEF PlacedInv, Abstract!After, Abstract!Last, Last
<1>4. CASE import_commit \/ store_produced_block \/ Crash
  BY <1>4 DEF import_commit, store_produced_block, Crash, PlacedInv, Idle
<1>5. CASE PeerStatus \/ Clock \/ UNCHANGED vars
  <2>1. UNCHANGED <<task, current_block>>
    BY <1>5 DEF PeerStatus, Clock, vars, memory
  <2> QED BY <2>1 DEF PlacedInv, Abstract!After, Abstract!Last, Last
<1> QED BY <1>1, <1>2, <1>3, <1>4, <1>5 DEF Next

\* A block is its parent and its last header.
LEMMA BlockIsAppend ==
    ASSUME NEW S, NEW s \in Seq(S), s # <<>>
    PROVE  s = Append(Front(s), Last(s))
<1> DEFINE f == Front(s) n == Len(s)
<1>1. n \in Nat /\ n >= 1 /\ Last(s) = s[n] /\ s[n] \in S
  BY DEF Last
<1>2. f \in Seq(S) /\ Len(f) = n - 1
  BY FrontFacts
<1>3. \A i \in 1..(n - 1) : f[i] = s[i]
  BY <1>1 DEF Front
<1> HIDE DEF f
<1> DEFINE a == Append(f, Last(s))
<1>4. a \in Seq(S) /\ Len(a) = n /\ a[n] = s[n] /\ \A i \in 1..(n - 1) : a[i] = f[i]
  BY <1>1, <1>2
<1>5. \A i \in 1..n : a[i] = s[i]
  <2> SUFFICES ASSUME NEW i \in 1..n PROVE a[i] = s[i]
    OBVIOUS
  <2>1. CASE i = n
    BY <1>4, <2>1
  <2>2. CASE i # n
    <3>1. i \in 1..(n - 1)
      BY <1>1, <2>2
    <3> QED BY <1>3, <1>4, <3>1
  <2> QED BY <2>1, <2>2
<1> HIDE DEF a
<1>6. a = s
  BY <1>1, <1>4, <1>5
<1> QED BY <1>6 DEF a, f

LEMMA StepRefines ==
    TypeOK /\ SlotsInv /\ PlacedInv /\ [Next]_vars
        => [Abstract!ChainNext]_<<current_block, published>>
<1> SUFFICES ASSUME TypeOK, SlotsInv, PlacedInv, [Next]_vars,
                    ~ UNCHANGED <<current_block, published>>
             PROVE  Abstract!ChainNext
  OBVIOUS
<1> DEFINE h == Last(task.block)
<1>1. CASE import_commit
  <2>1. task.step = "imported" /\ current_block' = task.block /\ published' = published
    BY <1>1 DEF import_commit
  <2>2. task.block # <<>> /\ task.block = Append(current_block, h)
    BY <2>1, BlockIsAppend DEF TypeOK
  <2>3. Abstract!After(h, current_block) /\ h.author = "peer"
    BY <2>1 DEF PlacedInv
  <2> QED BY <2>1, <2>2, <2>3 DEF Abstract!ChainNext, Abstract!Extend, Abstract!Last, Last
<1>2. CASE store_produced_block
  <2>1. /\ task.step = "stored" /\ current_block' = task.block
        /\ published' = published \cup {task.block}
    BY <1>2 DEF store_produced_block
  <2>2. task.block # <<>> /\ task.block = Append(current_block, h)
    BY <2>1, BlockIsAppend DEF TypeOK
  <2>3. Abstract!After(h, current_block) /\ h.author = "self"
    BY <2>1 DEF PlacedInv
  <2>4. \A b \in published : Last(b).epoch # h.epoch \/ Last(b).slot # h.slot
    BY <2>1 DEF SlotsInv, SlotOf
  <2> QED BY <2>1, <2>2, <2>3, <2>4 DEF Abstract!ChainNext, Abstract!Extend, Abstract!Last, Last
<1>3. CASE Crash
  BY <1>3 DEF Crash, Abstract!ChainNext, Abstract!Restart
<1>4. CASE Import \/ Produce \/ mark_slot_as_signed \/ store_block \/ PeerStatus \/ Clock
           \/ UNCHANGED vars
  <2>1. UNCHANGED <<current_block, published>>
    BY <1>4 DEF Import, ImportFrom, import_execute, Produce, produce_execute, mark_slot_as_signed,
               store_block, PeerStatus, Clock, vars, memory
  <2> QED BY <2>1
<1> QED BY <1>1, <1>2, <1>3, <1>4 DEF Next

\* import_block and store_produced_block, write by write and with crashes in between, implement
\* the chain that grows by one block at a time and whose own blocks take fresh slots.
THEOREM PipelineImplementsChain == Spec => ImplementsChain
<1>1. Init => Abstract!ChainInit
  BY DEF Init, Abstract!ChainInit
<1> QED BY <1>1, InitType, NextType, InitSlots, NextSlots, InitPlaced, NextPlaced, StepRefines, PTL
        DEF Spec, ImplementsChain, Abstract!ChainSpec
=============================================================================
