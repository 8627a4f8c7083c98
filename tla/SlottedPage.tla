----------------------------- MODULE SlottedPage -----------------------------
(***************************************************************************)
(* One slotted page (disk/slotted_page.py) with the record writers of      *)
(* data_page.py and header_page.py on top of it.  The slot directory grows *)
(* upwards from SlotDirStart, the records grow downwards from PageSize.    *)
(* Bytes are abstracted to the extents the slots own; what a write does    *)
(* to the bytes of a record is kept as the flag "whole".                   *)
(***************************************************************************)
EXTENDS Integers, Sequences

CONSTANTS
  PageSize,       \* DatabaseConstants.PAGE_SIZE
  SlotDirStart,   \* SLOT_DIR_START, the size of the page header
  SlotEntrySize,  \* DatabaseConstants.SLOT_ENTRY_SIZE
  RecordSizes,    \* the record sizes callers ask for (schema lengths)
  Overruns,       \* bytes a trailing string may exceed its column by; 0 = fits
  ValuesCanFail   \* TRUE when a row may hold a value that _write rejects

ASSUME PageAssumption ==
  /\ PageSize \in Nat /\ SlotDirStart \in Nat /\ SlotEntrySize \in Nat \ {0}
  /\ 0 < SlotDirStart /\ SlotDirStart <= PageSize
  /\ PageSize < 2^16             \* free_start and free_end are unsigned shorts

ASSUME InputAssumption ==
  /\ RecordSizes \subseteq Nat \ {0}
  /\ Overruns \subseteq Nat
  /\ ValuesCanFail \in BOOLEAN

VARIABLES
  slots,      \* slots[i + 1]: directory entry i and the record it points to
  freeStart,  \* end of the directory
  freeEnd,    \* start of the lowest record
  result      \* what the last insert_record or allocate_slot call returned

vars == <<slots, freeStart, freeEnd, result>>

\* offset 0 marks a free directory entry; size and whole describe the record.
Slot == [offset : 0..PageSize, size : Nat, whole : BOOLEAN]
FreeSlot == [offset |-> 0, size |-> 0, whole |-> FALSE]

TypeOK ==
  /\ slots \in Seq(Slot)
  /\ freeStart \in Int /\ freeEnd \in 0..PageSize
  /\ result \in [op : {"none", "stored", "failed", "full", "cleared"}, size : Nat]

Live(s) == {i \in DOMAIN s : s[i].offset # 0}

------------------------------------------------------------------------------

Init ==
  /\ slots = <<>>
  /\ freeStart = SlotDirStart
  /\ freeEnd = PageSize
  /\ result = [op |-> "none", size |-> 0]

\* Faulty variants of the two operators below; no run uses them except the
\* mutation of the properties.
FitsWithoutEntry(size) == freeEnd - size >= freeStart
FitsStrictly(size) == freeEnd - size - SlotEntrySize > freeStart
FitsAlways(size) == size > 0
FindLastSlot(slot) == slot = IF slots = <<>> THEN 1 ELSE Len(slots)

\* The test allocate_slot makes before it changes anything.
Fits(size) == freeEnd - size - SlotEntrySize >= freeStart

\* find_free_slot: the first entry with offset 0, or one past the directory.
FindFreeSlot(slot) ==
  /\ slot \in DOMAIN slots => slots[slot].offset = 0
  /\ \A i \in 1..(slot - 1) : slots[i].offset # 0

\* set_string_value past the column's end runs into the bytes above offset.
Damage(s, from, to) ==
  [i \in DOMAIN s |->
     [s[i] EXCEPT !.whole = @ /\ (s[i].offset >= to \/ s[i].offset + s[i].size <= from)]]

AllocateSlot(size, extra, whole) ==
  LET record == [offset |-> freeEnd - size, size |-> size, whole |-> whole]
      others == Damage(slots, freeEnd, freeEnd + extra)
  IN  /\ Fits(size)
      /\ freeEnd' = freeEnd - size
      /\ \/ /\ FindFreeSlot(Len(slots) + 1)
            /\ slots' = Append(others, record)
            /\ freeStart' = freeStart + SlotEntrySize
         \/ \E slot \in DOMAIN slots :
              /\ FindFreeSlot(slot)
              /\ slots' = [others EXCEPT ![slot] = record]
              /\ UNCHANGED freeStart

\* insert_record / add_entry that returns the slot.  Where strings may be longer
\* than their column, the next column of the record itself may cut them.
Insert(size, extra, whole) ==
  /\ whole \/ Overruns # {0}
  /\ AllocateSlot(size, extra, whole)
  /\ result' = [op |-> "stored", size |-> size]

\* The slot is allocated, then writing a column raises (not an OverflowError),
\* possibly after a string that was longer than its column.
InsertFails(size, extra) ==
  /\ ValuesCanFail
  /\ AllocateSlot(size, extra, FALSE)
  /\ result' = [op |-> "failed", size |-> size]

\* allocate_slot raises OverflowError; insert_record returns False.
InsertRefused(size) ==
  /\ ~Fits(size)
  /\ result' = [op |-> "full", size |-> size]
  /\ UNCHANGED <<slots, freeStart, freeEnd>>

\* set_slot_offset(i, 0): how the page format marks a deleted record.
ClearSlot(i) ==
  /\ slots' = [slots EXCEPT ![i] = FreeSlot]
  /\ result' = [op |-> "cleared", size |-> 0]
  /\ UNCHANGED <<freeStart, freeEnd>>

Next ==
  \/ \E size \in RecordSizes, extra \in Overruns :
       \/ \E whole \in BOOLEAN : Insert(size, extra, whole)
       \/ InsertFails(size, extra)
  \/ \E size \in RecordSizes : InsertRefused(size)
  \/ \E i \in Live(slots) : ClearSlot(i)

Spec == Init /\ [][Next]_vars

------------------------------------------------------------------------------
(* Properties *)

\* The extents of live records are pairwise disjoint, lie between the free
\* space and the end of the page, and the directory ends below all of them:
\* allocate_slot never hands out bytes that something else owns.
RecordsDisjoint ==
  /\ freeStart = SlotDirStart + SlotEntrySize * Len(slots)
  /\ freeStart <= freeEnd
  /\ \A i \in Live(slots) :
       /\ freeEnd <= slots[i].offset
       /\ slots[i].offset + slots[i].size <= PageSize
  /\ \A i, j \in Live(slots) :
       i # j => \/ slots[i].offset + slots[i].size <= slots[j].offset
                \/ slots[j].offset + slots[j].size <= slots[i].offset

\* get_max_records_on_page, the capacity the format promises for one schema.
MaxRecordsOnPage(size) == (PageSize - SlotDirStart) \div (size + SlotEntrySize)

\* Every slot and every record byte in use belong to records of this size.
Uniform(size) ==
  /\ \A i \in DOMAIN slots : slots[i].size = size
  /\ PageSize - freeEnd = size * Len(slots)

\* A page that only ever stored records of one size refuses an insert exactly
\* when it holds get_max_records_on_page of them: the boundary test of
\* allocate_slot neither wastes the last record nor admits one too many.
FullAtCapacity ==
  \A size \in RecordSizes :
    Uniform(size) => /\ Len(slots) <= MaxRecordsOnPage(size)
                     /\ (result = [op |-> "full", size |-> size]) =>
                          Len(slots) = MaxRecordsOnPage(size)

\* A stored record keeps its slot, its place and its bytes until that slot is
\* cleared, whatever else is inserted, refused or cleared on the page.
RecordsStayPut ==
  [][\A i \in Live(slots) :
       slots'[i] = slots[i] \/ (slots'[i] = FreeSlot /\ result'.op = "cleared")]_vars

\* Every record a scan of the page visits (slot < get_record_count) was
\* written completely and not overwritten by a neighbour.
VisibleRecordsWhole == \A i \in Live(slots) : slots[i].whole

==============================================================================
