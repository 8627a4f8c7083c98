-------------------------- MODULE SlottedPageProofs --------------------------
(***************************************************************************)
(* Deductive proofs about SlottedPage, for every page size, header size,   *)
(* entry size and set of record sizes the assumptions allow.               *)
(***************************************************************************)
EXTENDS SlottedPage, SeqLemmas

\* A refusal is remembered until the page changes: nothing fits any more.
RefusalJustified == result.op = "full" => ~Fits(result.size)

PageInv == TypeOK /\ RecordsDisjoint /\ RefusalJustified

\* Changing the flag of a slot changes nothing else.
LEMMA SpoiltSlot ==
  ASSUME NEW x \in Slot, NEW b \in BOOLEAN
  PROVE  /\ [x EXCEPT !.whole = b] \in Slot
         /\ [x EXCEPT !.whole = b].offset = x.offset
         /\ [x EXCEPT !.whole = b].size = x.size
BY DEF Slot

\* Overrunning a column spoils bytes; it moves no directory entry.
LEMMA DamageKeepsPlaces ==
  ASSUME NEW s \in Seq(Slot), NEW from \in Int, NEW to \in Int
  PROVE  /\ Damage(s, from, to) \in Seq(Slot)
         /\ Len(Damage(s, from, to)) = Len(s)
         /\ \A i \in DOMAIN s : /\ Damage(s, from, to)[i].offset = s[i].offset
                                /\ Damage(s, from, to)[i].size = s[i].size
<1> DEFINE d == Damage(s, from, to)
<1>1. DOMAIN s = 1..Len(s) /\ Len(s) \in Nat
  BY SeqElements
<1>2. \A i \in DOMAIN s : s[i] \in Slot
  BY SeqElements
<1>3. d = [i \in 1..Len(s) |->
             [s[i] EXCEPT !.whole = @ /\ (s[i].offset >= to \/ s[i].offset + s[i].size <= from)]]
  BY <1>1 DEF Damage
<1>4. \A i \in 1..Len(s) : /\ d[i] \in Slot
                           /\ d[i].offset = s[i].offset
                           /\ d[i].size = s[i].size
  <2>1. SUFFICES ASSUME NEW i \in 1..Len(s)
                 PROVE  d[i] \in Slot /\ d[i].offset = s[i].offset /\ d[i].size = s[i].size
    OBVIOUS
  <2> DEFINE kept == s[i].offset >= to \/ s[i].offset + s[i].size <= from
  <2>2. d[i] = [s[i] EXCEPT !.whole = s[i].whole /\ kept]
    BY <1>3
  <2>3. s[i] \in Slot
    BY <1>1, <1>2
  <2>4. (s[i].whole /\ kept) \in BOOLEAN
    OBVIOUS
  <2> HIDE DEF kept, d
  <2>5. QED
    BY <2>2, <2>3, <2>4, SpoiltSlot
<1> HIDE DEF d
<1>5. d \in Seq(Slot) /\ Len(d) = Len(s)
  <2>1. d \in [1..Len(s) -> Slot]
    BY <1>3, <1>4
  <2>2. QED
    BY <1>1, <2>1, FunctionIsSeq
<1>6. QED
  BY <1>1, <1>4, <1>5 DEF d

\* One more directory entry: the only product in the invariant, in the form
\* the solver needs it.
LEMMA OneMoreEntry ==
  ASSUME NEW n \in Nat
  PROVE  SlotEntrySize * (n + 1) = SlotEntrySize * n + SlotEntrySize
BY PageAssumption

\* The allocation shared by a completed and a failed insert preserves the
\* layout of the page.
LEMMA AllocatePreserves ==
  ASSUME TypeOK, RecordsDisjoint,
         NEW size \in RecordSizes, NEW extra \in Nat, NEW whole \in BOOLEAN,
         AllocateSlot(size, extra, whole)
  PROVE  /\ slots' \in Seq(Slot) /\ freeStart' \in Int /\ freeEnd' \in 0..PageSize
         /\ RecordsDisjoint'
<1> DEFINE record == [offset |-> freeEnd - size, size |-> size, whole |-> whole]
           others == Damage(slots, freeEnd, freeEnd + extra)
<1>0. \A i, j \in Live(slots) :
         i # j => \/ slots[i].offset + slots[i].size <= slots[j].offset
                  \/ slots[j].offset + slots[j].size <= slots[i].offset
  BY DEF RecordsDisjoint
<1>1. size \in Nat \ {0}
  BY InputAssumption
<1>2. /\ Len(slots) \in Nat /\ DOMAIN slots = 1..Len(slots)
      /\ \A i \in DOMAIN slots : slots[i].offset \in 0..PageSize /\ slots[i].size \in Nat
      /\ freeStart \in Int /\ freeEnd \in 0..PageSize /\ PageSize \in Nat
  <2>1. slots \in Seq(Slot) /\ freeStart \in Int /\ freeEnd \in 0..PageSize
    BY DEF TypeOK
  <2>2. Len(slots) \in Nat /\ DOMAIN slots = 1..Len(slots) /\ \A i \in DOMAIN slots : slots[i] \in Slot
    BY <2>1, SeqElements
  <2>3. QED
    BY <2>1, <2>2, PageAssumption DEF Slot
<1>3. SlotEntrySize * Len(slots) \in Nat /\ SlotEntrySize \in Nat /\ SlotDirStart > 0
      /\ SlotDirStart \in Nat
  BY <1>2, PageAssumption
<1>4. freeStart > 0 /\ freeEnd - size >= freeStart + SlotEntrySize
  <2>1. freeStart = SlotDirStart + SlotEntrySize * Len(slots)
    BY DEF RecordsDisjoint
  <2>2. freeEnd - size - SlotEntrySize >= freeStart
    BY DEF AllocateSlot, Fits
  <2>3. QED
    BY <1>1, <1>2, <1>3, <2>1, <2>2
<1>5. /\ others \in Seq(Slot) /\ Len(others) = Len(slots) /\ DOMAIN others = 1..Len(slots)
      /\ \A i \in DOMAIN slots : others[i].offset = slots[i].offset /\ others[i].size = slots[i].size
  BY <1>2, DamageKeepsPlaces DEF TypeOK
<1>6. record \in Slot /\ record.offset = freeEnd - size /\ record.size = size
  BY <1>1, <1>2, <1>3, <1>4 DEF Slot
<1>7. freeEnd' = freeEnd - size
  BY DEF AllocateSlot
<1> HIDE DEF record, others
<1>8. CASE slots' = Append(others, record) /\ freeStart' = freeStart + SlotEntrySize
  <2>1. /\ slots' \in Seq(Slot) /\ Len(slots') = Len(slots) + 1
        /\ DOMAIN slots' = 1..(Len(slots) + 1)
        /\ slots'[Len(slots) + 1] = record
        /\ \A i \in 1..Len(slots) : slots'[i] = others[i]
    BY <1>5, <1>6, <1>8, SeqAppend
  <2>2. freeStart' = SlotDirStart + SlotEntrySize * Len(slots')
    BY <1>2, <1>3, <1>8, <2>1, OneMoreEntry DEF RecordsDisjoint
  <2>3. freeStart' \in Int /\ freeEnd' \in 0..PageSize /\ freeStart' <= freeEnd'
    BY <1>1, <1>2, <1>3, <1>4, <1>7, <1>8
  <2>4. \A i \in Live(slots') : /\ freeEnd' <= slots'[i].offset
                                /\ slots'[i].offset + slots'[i].size <= PageSize
                                /\ i # Len(slots) + 1 => i \in Live(slots) /\ freeEnd <= slots'[i].offset
    <3>1. TAKE i \in Live(slots')
    <3>2. CASE i = Len(slots) + 1
      <4>1. slots'[i].offset = freeEnd - size /\ slots'[i].size = size
        BY <1>6, <2>1, <3>2
      <4>2. QED
        BY <1>1, <1>2, <1>7, <3>2, <4>1
    <3>3. CASE i # Len(slots) + 1
      <4>1. i \in 1..Len(slots) /\ slots'[i].offset # 0
        BY <1>2, <2>1, <3>3 DEF Live
      <4>2. slots'[i].offset = slots[i].offset /\ slots'[i].size = slots[i].size
        BY <1>2, <1>5, <2>1, <4>1
      <4>3. i \in Live(slots)
        BY <1>2, <4>1, <4>2 DEF Live
      <4>4. freeEnd <= slots[i].offset /\ slots[i].offset + slots[i].size <= PageSize
        BY <4>3 DEF RecordsDisjoint
      <4>5. slots[i].offset \in Int
        BY <1>2, <4>1
      <4>6. QED
        BY <1>1, <1>2, <1>7, <4>2, <4>3, <4>4, <4>5
    <3>4. QED
      BY <3>2, <3>3
  <2>5. \A i, j \in Live(slots') :
           i # j => \/ slots'[i].offset + slots'[i].size <= slots'[j].offset
                    \/ slots'[j].offset + slots'[j].size <= slots'[i].offset
    <3>1. TAKE i, j \in Live(slots')
    <3>2. HAVE i # j
    <3>3. CASE i = Len(slots) + 1
      BY <1>1, <1>2, <1>6, <2>1, <2>4, <3>2, <3>3
    <3>4. CASE j = Len(slots) + 1
      <4>1. slots'[j].offset + slots'[j].size = freeEnd
        BY <1>1, <1>2, <1>6, <2>1, <3>4
      <4>2. freeEnd <= slots'[i].offset
        BY <2>4, <3>2, <3>4
      <4>3. QED
        BY <4>1, <4>2
    <3>5. CASE i # Len(slots) + 1 /\ j # Len(slots) + 1
      <4>1. i \in Live(slots) /\ j \in Live(slots)
        BY <2>4, <3>5
      <4>2. /\ slots'[i].offset = slots[i].offset /\ slots'[i].size = slots[i].size
            /\ slots'[j].offset = slots[j].offset /\ slots'[j].size = slots[j].size
        BY <1>2, <1>5, <2>1, <3>5, <4>1 DEF Live
      <4>3. \/ slots[i].offset + slots[i].size <= slots[j].offset
            \/ slots[j].offset + slots[j].size <= slots[i].offset
        BY <1>0, <3>2, <4>1
      <4>4. QED
        BY <4>2, <4>3
    <3>6. QED
      BY <3>3, <3>4, <3>5
  <2>6. QED
    BY <2>1, <2>2, <2>3, <2>4, <2>5 DEF RecordsDisjoint
<1>9. CASE \E slot \in DOMAIN slots : /\ FindFreeSlot(slot)
                                      /\ slots' = [others EXCEPT ![slot] = record]
                                      /\ UNCHANGED freeStart
  <2>0. PICK slot \in DOMAIN slots : /\ FindFreeSlot(slot)
                                     /\ slots' = [others EXCEPT ![slot] = record]
                                     /\ freeStart' = freeStart
    BY <1>9
  <2>1. /\ slots' \in Seq(Slot) /\ Len(slots') = Len(slots) /\ DOMAIN slots' = 1..Len(slots)
        /\ slots'[slot] = record
        /\ \A i \in 1..Len(slots) : i # slot => slots'[i] = others[i]
    BY <1>2, <1>5, <1>6, <2>0, SeqExcept
  <2>2. freeStart' = SlotDirStart + SlotEntrySize * Len(slots')
    BY <2>0, <2>1 DEF RecordsDisjoint
  <2>3. freeStart' \in Int /\ freeEnd' \in 0..PageSize /\ freeStart' <= freeEnd'
    BY <1>1, <1>2, <1>3, <1>4, <1>7, <2>0
  <2>4. \A i \in Live(slots') : /\ freeEnd' <= slots'[i].offset
                                /\ slots'[i].offset + slots'[i].size <= PageSize
                                /\ i # slot => i \in Live(slots) /\ freeEnd <= slots'[i].offset
    BY <1>1, <1>2, <1>3, <1>4, <1>5, <1>6, <1>7, <2>0, <2>1 DEF RecordsDisjoint, Live
  <2>5. \A i, j \in Live(slots') :
           i # j => \/ slots'[i].offset + slots'[i].size <= slots'[j].offset
                    \/ slots'[j].offset + slots'[j].size <= slots'[i].offset
    <3>1. TAKE i, j \in Live(slots')
    <3>2. HAVE i # j
    <3>3. CASE i = slot
      BY <1>1, <1>2, <1>6, <2>1, <2>4, <3>2, <3>3
    <3>4. CASE j = slot
      <4>1. slots'[j].offset + slots'[j].size = freeEnd
        BY <1>1, <1>2, <1>6, <2>1, <3>4
      <4>2. freeEnd <= slots'[i].offset
        BY <2>4, <3>2, <3>4
      <4>3. QED
        BY <4>1, <4>2
    <3>5. CASE i # slot /\ j # slot
      <4>1. i \in Live(slots) /\ j \in Live(slots)
        BY <2>4, <3>5
      <4>2. /\ slots'[i].offset = slots[i].offset /\ slots'[i].size = slots[i].size
            /\ slots'[j].offset = slots[j].offset /\ slots'[j].size = slots[j].size
        BY <1>2, <1>5, <2>1, <3>5, <4>1 DEF Live
      <4>3. \/ slots[i].offset + slots[i].size <= slots[j].offset
            \/ slots[j].offset + slots[j].size <= slots[i].offset
        BY <1>0, <3>2, <4>1
      <4>4. QED
        BY <4>2, <4>3
    <3>6. QED
      BY <3>3, <3>4, <3>5
  <2>6. QED
    BY <2>1, <2>2, <2>3, <2>4, <2>5 DEF RecordsDisjoint
<1>10. QED
  BY <1>8, <1>9 DEF AllocateSlot, record, others

LEMMA InitEstablishes == Init => PageInv
<1>1. SUFFICES ASSUME Init PROVE PageInv
  OBVIOUS
<1>2. slots = <<>> /\ freeStart = SlotDirStart /\ freeEnd = PageSize
      /\ result = [op |-> "none", size |-> 0]
  BY <1>1 DEF Init
<1>3. Len(slots) = 0 /\ DOMAIN slots = {} /\ slots \in Seq(Slot)
  BY <1>2, EmptySeq
<1>4. TypeOK
  BY <1>2, <1>3, PageAssumption DEF TypeOK
<1>5. RecordsDisjoint
  <2>1. SlotEntrySize * Len(slots) = 0
    BY <1>3, PageAssumption
  <2>2. Live(slots) = {}
    BY <1>3 DEF Live
  <2>3. QED
    BY <1>2, <2>1, <2>2, PageAssumption DEF RecordsDisjoint
<1>6. RefusalJustified
  BY <1>2 DEF RefusalJustified
<1>7. QED
  BY <1>4, <1>5, <1>6 DEF PageInv

\* Clearing a slot only removes a live record.
LEMMA ClearPreserves ==
  ASSUME TypeOK, RecordsDisjoint, NEW k \in Live(slots), ClearSlot(k)
  PROVE  /\ slots' \in Seq(Slot) /\ freeStart' \in Int /\ freeEnd' \in 0..PageSize
         /\ RecordsDisjoint'
<1>1. FreeSlot \in Slot /\ FreeSlot.offset = 0
  BY PageAssumption DEF FreeSlot, Slot
<1>2. Len(slots) \in Nat /\ DOMAIN slots = 1..Len(slots) /\ k \in 1..Len(slots)
  BY SeqElements DEF TypeOK, Live
<1>3. /\ slots' \in Seq(Slot) /\ Len(slots') = Len(slots) /\ DOMAIN slots' = 1..Len(slots)
      /\ slots'[k] = FreeSlot
      /\ \A i \in 1..Len(slots) : i # k => slots'[i] = slots[i]
  BY <1>1, <1>2, SeqExcept DEF ClearSlot, TypeOK
<1>4. freeStart' = freeStart /\ freeEnd' = freeEnd
  BY DEF ClearSlot
<1>5. \A i \in Live(slots') : i \in Live(slots) /\ slots'[i] = slots[i]
  BY <1>1, <1>2, <1>3 DEF Live
<1>6. QED
  BY <1>3, <1>4, <1>5 DEF RecordsDisjoint, TypeOK

LEMMA NextPreserves == PageInv /\ [Next]_vars => PageInv'
<1> SUFFICES ASSUME PageInv, [Next]_vars PROVE PageInv'
  OBVIOUS
<1> USE DEF PageInv
<1>1. ASSUME NEW size \in RecordSizes, NEW extra \in Overruns, NEW whole \in BOOLEAN,
             Insert(size, extra, whole)
      PROVE  PageInv'
  <2>1. extra \in Nat /\ size \in Nat
    BY <1>1, InputAssumption
  <2>2. /\ slots' \in Seq(Slot) /\ freeStart' \in Int /\ freeEnd' \in 0..PageSize
        /\ RecordsDisjoint'
    BY <1>1, <2>1, AllocatePreserves DEF Insert
  <2>3. result' = [op |-> "stored", size |-> size]
    BY <1>1 DEF Insert
  <2>4. QED
    BY <2>1, <2>2, <2>3 DEF TypeOK, RefusalJustified
<1>2. ASSUME NEW size \in RecordSizes, NEW extra \in Overruns, InsertFails(size, extra)
      PROVE  PageInv'
  <2>1. extra \in Nat /\ size \in Nat
    BY <1>2, InputAssumption
  <2>2. /\ slots' \in Seq(Slot) /\ freeStart' \in Int /\ freeEnd' \in 0..PageSize
        /\ RecordsDisjoint'
    BY <1>2, <2>1, AllocatePreserves DEF InsertFails
  <2>3. result' = [op |-> "failed", size |-> size]
    BY <1>2 DEF InsertFails
  <2>4. QED
    BY <2>1, <2>2, <2>3 DEF TypeOK, RefusalJustified
<1>3. ASSUME NEW size \in RecordSizes, InsertRefused(size)
      PROVE  PageInv'
  <2>1. size \in Nat
    BY <1>3, InputAssumption
  <2>2. UNCHANGED <<slots, freeStart, freeEnd>> /\ ~Fits(size)
        /\ result' = [op |-> "full", size |-> size]
    BY <1>3 DEF InsertRefused
  <2>3. TypeOK'
    BY <2>1, <2>2 DEF TypeOK
  <2>4. RecordsDisjoint'
    BY <2>2 DEF RecordsDisjoint, Live
  <2>5. RefusalJustified'
    BY <2>2 DEF RefusalJustified, Fits
  <2>6. QED
    BY <2>3, <2>4, <2>5
<1>4. ASSUME NEW i \in Live(slots), ClearSlot(i)
      PROVE  PageInv'
  <2>1. /\ slots' \in Seq(Slot) /\ freeStart' \in Int /\ freeEnd' \in 0..PageSize
        /\ RecordsDisjoint'
    BY <1>4, ClearPreserves
  <2>2. result' = [op |-> "cleared", size |-> 0]
    BY <1>4 DEF ClearSlot
  <2>3. QED
    BY <2>1, <2>2 DEF TypeOK, RefusalJustified
<1>5. CASE UNCHANGED vars
  BY <1>5 DEF vars, TypeOK, RecordsDisjoint, Live, RefusalJustified, Fits
<1>6. QED
  BY <1>1, <1>2, <1>3, <1>4, <1>5 DEF Next

\* The invariant of the page: its type, the layout of the records, and that
\* a refused insert still does not fit.
THEOREM PageInvariance == Spec => []PageInv
<1>1. Init => PageInv
  BY InitEstablishes
<1>2. PageInv /\ [Next]_vars => PageInv'
  BY NextPreserves
<1>3. QED
  BY <1>1, <1>2, PTL DEF Spec

\* Every state of every page is well typed.
THEOREM TypeCorrect == Spec => []TypeOK
<1>1. PageInv => TypeOK
  BY DEF PageInv
<1>2. QED
  BY <1>1, PageInvariance, PTL

\* allocate_slot never hands out bytes that another record or the slot
\* directory owns, for every page size and every mix of record sizes.
THEOREM LayoutSafe == Spec => []RecordsDisjoint
<1>1. PageInv => RecordsDisjoint
  BY DEF PageInv
<1>2. QED
  BY <1>1, PageInvariance, PTL

\* The arithmetic of a page with n records of one size: the records fit
\* exactly when n does not exceed the quotient that
\* get_max_records_on_page computes.
LEMMA CapacityArithmetic ==
  ASSUME NEW n \in Nat, NEW size \in Nat \ {0}
  PROVE  LET entry == size + SlotEntrySize IN
         /\ entry \in Nat \ {0}
         /\ n * entry = size * n + SlotEntrySize * n
         /\ n * entry <= PageSize - SlotDirStart => n <= MaxRecordsOnPage(size)
         /\ (n + 1) * entry > PageSize - SlotDirStart => n >= MaxRecordsOnPage(size)
<1> DEFINE entry == size + SlotEntrySize
           space == PageSize - SlotDirStart
           most  == space \div entry
<1>1. entry \in Nat \ {0} /\ space \in Nat
  BY PageAssumption
<1>2. n * entry = size * n + SlotEntrySize * n
  BY PageAssumption
<1> HIDE DEF entry, space
<1>3. most \in Nat /\ most * entry <= space /\ space < (most + 1) * entry
  BY <1>1
<1>4. n * entry <= space => n <= most
  BY <1>1, <1>3
<1>5. (n + 1) * entry > space => n >= most
  BY <1>1, <1>3
<1>6. QED
  BY <1>1, <1>2, <1>4, <1>5 DEF entry, space, MaxRecordsOnPage

\* A page filled with records of one size takes exactly as many of them as
\* get_max_records_on_page says, whatever the page and the record size.
THEOREM CapacityExact == Spec => []FullAtCapacity
<1>1. PageInv => FullAtCapacity
  <2>1. SUFFICES ASSUME PageInv, NEW size \in RecordSizes, Uniform(size)
                 PROVE  /\ Len(slots) <= MaxRecordsOnPage(size)
                        /\ result = [op |-> "full", size |-> size] =>
                             Len(slots) = MaxRecordsOnPage(size)
    BY DEF FullAtCapacity
  <2> DEFINE n == Len(slots)
             entry == size + SlotEntrySize
  <2>2. n \in Nat /\ size \in Nat \ {0}
    BY <2>1, SeqElements, InputAssumption DEF PageInv, TypeOK
  <2>3. /\ freeStart = SlotDirStart + SlotEntrySize * n
        /\ freeStart <= freeEnd /\ freeEnd \in Int
        /\ PageSize - freeEnd = size * n
    BY <2>1 DEF PageInv, RecordsDisjoint, Uniform, TypeOK
  <2>4. /\ entry \in Nat \ {0}
        /\ n * entry = size * n + SlotEntrySize * n
        /\ n * entry <= PageSize - SlotDirStart => n <= MaxRecordsOnPage(size)
        /\ (n + 1) * entry > PageSize - SlotDirStart => n >= MaxRecordsOnPage(size)
    BY <2>2, CapacityArithmetic
  <2>5. /\ PageSize \in Nat /\ SlotDirStart \in Nat /\ SlotEntrySize \in Nat
        /\ size * n \in Nat /\ SlotEntrySize * n \in Nat
        /\ (n + 1) * entry = n * entry + entry
    BY <2>2, PageAssumption
  <2>6. n <= MaxRecordsOnPage(size)
    BY <2>2, <2>3, <2>4, <2>5
  <2>7. MaxRecordsOnPage(size) \in Int
    BY <2>2, <2>4, PageAssumption DEF MaxRecordsOnPage
  <2>8. ASSUME result = [op |-> "full", size |-> size]
        PROVE  n = MaxRecordsOnPage(size)
    <3>1. freeEnd - size - SlotEntrySize < freeStart
      BY <2>1, <2>2, <2>3, <2>5, <2>8 DEF PageInv, RefusalJustified, Fits
    <3>2. (n + 1) * entry > PageSize - SlotDirStart
      BY <2>2, <2>3, <2>4, <2>5, <3>1
    <3>3. QED
      BY <2>2, <2>4, <2>6, <2>7, <3>2
  <2>9. QED
    BY <2>6, <2>8
<1>2. QED
  BY <1>1, PageInvariance, PTL

\* When no value overruns its column, a record that was stored keeps its slot
\* and its bytes until that slot is cleared.
THEOREM StoredRecordsStay ==
  ASSUME Overruns \subseteq {0}
  PROVE  Spec => RecordsStayPut
<1> DEFINE Stay == \A i \in Live(slots) :
                     slots'[i] = slots[i] \/ (slots'[i] = FreeSlot /\ result'.op = "cleared")
<1>1. ASSUME PageInv, NEW size \in RecordSizes, NEW whole \in BOOLEAN,
             AllocateSlot(size, 0, whole)
      PROVE  Stay
  <2> DEFINE others == Damage(slots, freeEnd, freeEnd + 0)
             record == [offset |-> freeEnd - size, size |-> size, whole |-> whole]
  <2>1. /\ Len(slots) \in Nat /\ DOMAIN slots = 1..Len(slots)
        /\ \A i \in 1..Len(slots) : slots[i] \in Slot
        /\ freeEnd \in Int
    BY <1>1, SeqElements DEF PageInv, TypeOK
  <2>2. \A i \in Live(slots) : freeEnd + 0 <= slots[i].offset
    BY <1>1, <2>1 DEF PageInv, RecordsDisjoint
  <2>3. \A i \in Live(slots) : others[i] = slots[i]
    <3>1. TAKE i \in Live(slots)
    <3>2. others[i] = [slots[i] EXCEPT !.whole = @ /\ (slots[i].offset >= freeEnd + 0 \/ slots[i].offset + slots[i].size <= freeEnd)]
      BY DEF Damage, Live
    <3>3. slots[i].offset >= freeEnd + 0
      BY <2>1, <2>2 DEF Live, Slot
    <3>4. others[i] = [slots[i] EXCEPT !.whole = @ /\ TRUE]
      BY <3>2, <3>3
    <3>5. slots[i] \in Slot
      BY <2>1 DEF Live
    <3>6. QED
      BY <3>4, <3>5, Zenon DEF Slot
  <2>4. others \in Seq(Slot) /\ Len(others) = Len(slots)
    BY <1>1, <2>1, DamageKeepsPlaces DEF PageInv, TypeOK
  <2>5. CASE slots' = Append(others, record)
    BY <2>1, <2>3, <2>4, <2>5 DEF Live
  <2>6. CASE \E slot \in DOMAIN slots : FindFreeSlot(slot) /\ slots' = [others EXCEPT ![slot] = record]
    <3>1. PICK slot \in DOMAIN slots : FindFreeSlot(slot) /\ slots' = [others EXCEPT ![slot] = record]
      BY <2>6
    <3>2. slot \notin Live(slots)
      BY <3>1 DEF FindFreeSlot, Live
    <3>3. QED
      BY <2>1, <2>3, <2>4, <3>1, <3>2 DEF Live
  <2>7. QED
    BY <1>1, <2>5, <2>6 DEF AllocateSlot
<1>2. PageInv /\ [Next]_vars => [Stay]_vars
  <2>1. SUFFICES ASSUME PageInv, Next PROVE Stay
    OBVIOUS
  <2>2. ASSUME NEW size \in RecordSizes, NEW extra \in Overruns, NEW whole \in BOOLEAN,
               Insert(size, extra, whole)
        PROVE  Stay
    BY <1>1, <2>1, <2>2 DEF Insert
  <2>3. ASSUME NEW size \in RecordSizes, NEW extra \in Overruns, InsertFails(size, extra)
        PROVE  Stay
    BY <1>1, <2>1, <2>3 DEF InsertFails
  <2>4. ASSUME NEW size \in RecordSizes, InsertRefused(size)
        PROVE  Stay
    BY <2>4 DEF InsertRefused
  <2>5. ASSUME NEW k \in Live(slots), ClearSlot(k)
        PROVE  Stay
    BY <2>1, <2>5 DEF ClearSlot, PageInv, TypeOK, Live
  <2>6. QED
    BY <2>1, <2>2, <2>3, <2>4, <2>5 DEF Next
<1>3. QED
  BY <1>2, PageInvariance, PTL DEF Spec, RecordsStayPut
==============================================================================
