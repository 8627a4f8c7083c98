------------------------------- MODULE DataPage ------------------------------
(***************************************************************************)
(* One data page as its bytes: the header fields and the slot directory of *)
(* disk/slotted_page.py, the records that disk/data_page.py writes with    *)
(* the setters of disk/page.py, and what its getters make of them.  A byte *)
(* is known by the value it was written for and its place in the encoding, *)
(* so that a field reads back exactly when all its bytes are still there.  *)
(***************************************************************************)
EXTENDS Integers, SequencesExt

CONSTANTS
  PageSize, SlotDirStart, SlotEntrySize,   \* as in SlottedPage
  NumSlotsPos, FreeStartPos, FreeEndPos,   \* offsets of the header fields
  MaxStringLength,   \* DatabaseConstants.MAX_STRING_LENGTH
  Values,            \* the Python values rows are made of
  Schemas            \* column types of the tables, as sequences

\* A value: its Python class, which one it is, the characters of a string, and
\* whether it can be encoded (ASCII, within 32 bits).  Number 0 encodes to
\* zero bytes: 0, 0.0, False and "".
Value == [class : {"str", "float", "int", "bool", "short"}, id : Nat, len : Nat, ok : BOOLEAN]
Type == {"STRING", "DOUBLE", "INTEGER", "BOOLEAN"}

\* The fields of the header do not overlap; an entry of the directory is a short.
ASSUME HeaderAssumption ==
  /\ PageSize \in Nat /\ SlotDirStart \in 1..PageSize /\ PageSize < 2^16
  /\ SlotEntrySize \in Nat /\ SlotEntrySize >= 2
  /\ {NumSlotsPos, FreeStartPos, FreeEndPos} \subseteq 0..(SlotDirStart - 2)
  /\ NumSlotsPos + 2 <= FreeStartPos /\ FreeStartPos + 2 <= FreeEndPos

\* Some string is the longest; True and False are 1 and 0.
ASSUME ValueAssumption ==
  /\ Values \subseteq Value
  /\ IsFiniteSet({v.len : v \in Values})
  /\ \A v, w \in Values : v.class = w.class /\ v.id = w.id => v = w
  /\ \A v \in Values : v.id = 0 => v.len = 0 /\ v.ok
  /\ \A v \in Values : v.class = "bool" => v.id \in {0, 1} /\ v.len = 0 /\ v.ok

ASSUME SchemaAssumption ==
  MaxStringLength \in Nat /\ Schemas \subseteq Seq(Type) \ {<<>>}

VARIABLES
  data,     \* the bytearray of the page; data[i + 1] is the byte at offset i
  schema,   \* the schema of the table the page belongs to
  stored,   \* history: the row each slot was allocated for, and whether its
            \* bytes were all written and are still the same
  result    \* what the last insert_record returned

vars == <<data, schema, stored, result>>

------------------------------------------------------------------------------
(* Bytes *)

Short(n) == [class |-> "short", id |-> n, len |-> 0, ok |-> TRUE]
Byte == [of : Value, at : Nat]
ZeroByte == [of |-> Short(0), at |-> 0]

\* Mutant: the length prefix of a string is not counted.
LenWithoutPrefix(type) ==
  [STRING |-> MaxStringLength, DOUBLE |-> 8, INTEGER |-> 4, BOOLEAN |-> 1][type]

\* Type.get_len and get_max_tuple_length
LenOf(type) == [STRING |-> 2 + MaxStringLength, DOUBLE |-> 8, INTEGER |-> 4, BOOLEAN |-> 1][type]
ColumnOffset(s, i) ==
  LET sum[n \in 0..Len(s)] == IF n = 0 THEN 0 ELSE sum[n - 1] + LenOf(s[n])
  IN  sum[i - 1]
RecordLength(s) == ColumnOffset(s, Len(s) + 1)

Width(v) == [str |-> 2 + v.len, float |-> 8, int |-> 4, bool |-> 1, short |-> 2][v.class]
Bytes(v) == [i \in 1..Width(v) |-> IF v.id = 0 THEN ZeroByte ELSE [of |-> v, at |-> i]]

\* The setters: a string is assigned to a slice, which makes the bytearray
\* longer when the slice ends behind it.
Put(bytes, offset, d) ==
  [k \in DOMAIN d \cup (offset + 1)..(offset + Len(bytes)) |->
     IF k - offset \in DOMAIN bytes THEN bytes[k - offset] ELSE d[k]]

\* The bytes at an offset, as far as the page has them.
Slice(d, offset, width) == SubSeq(d, offset + 1, offset + width)

------------------------------------------------------------------------------
(* Header fields and slot directory, as their getters read them *)

ShortAt(d, offset) == d[offset + 1].of.id
NumSlots(d) == ShortAt(d, NumSlotsPos)
SlotPos(slot) == SlotDirStart + (slot - 1) * SlotEntrySize
SlotOffset(d, slot) == ShortAt(d, SlotPos(slot))

freeStart == ShortAt(data, FreeStartPos)
freeEnd == ShortAt(data, FreeEndPos)
slots ==
  [i \in 1..NumSlots(data) |->
     [offset |-> SlotOffset(data, i), size |-> RecordLength(schema), whole |-> stored[i].whole]]

------------------------------------------------------------------------------
(* insert_record and get_record *)

ClassOf(type) == [STRING |-> "str", DOUBLE |-> "float", INTEGER |-> "int", BOOLEAN |-> "bool"][type]

\* Tuple.set_column: isinstance, and a bool is an int.
Accepts(type, v) == v.class = ClassOf(type) \/ (type = "INTEGER" /\ v.class = "bool")
Rows(s) == {row \in [DOMAIN s -> Values] : \A i \in DOMAIN s : Accepts(s[i], row[i])}

\* What the column holds of the value: True becomes 1.
AsStored(type, v) == [v EXCEPT !.class = ClassOf(type)]

\* _write: column after column, up to the first that raises.
WriteRow(row, offset, d) ==
  LET page[i \in 0..Len(row)] ==
        IF i = 0 THEN d
        ELSE IF \E j \in 1..i : ~row[j].ok THEN page[i - 1]
        ELSE Put(Bytes(AsStored(schema[i], row[i])), offset + ColumnOffset(schema, i), page[i - 1])
  IN  page[Len(row)]

\* _read: the value of which all bytes are there.  A BOOLEAN is False only
\* when its byte is 0.
Zero(class) == [class |-> class, id |-> 0, len |-> 0, ok |-> TRUE]
Garbled == [class |-> "short", id |-> 0, len |-> 0, ok |-> FALSE]
ReadColumn(d, type, offset) ==
  LET first == d[offset + 1]
      v == IF first = ZeroByte THEN Zero(ClassOf(type)) ELSE first.of
  IN  IF type = "BOOLEAN" THEN [Zero("bool") EXCEPT !.id = IF first = ZeroByte THEN 0 ELSE 1]
      ELSE IF v.class = ClassOf(type) /\ Slice(d, offset, Width(v)) = Bytes(v) THEN v
      ELSE Garbled
ReadRow(d, slot) ==
  [i \in DOMAIN schema |-> ReadColumn(d, schema[i], SlotOffset(d, slot) + ColumnOffset(schema, i))]

SetShort(pos, n, d) == Put(Bytes(Short(n)), pos, d)

\* find_free_slot, or the entry after the directory.
FreeSlotOf(d) ==
  LET free == {i \in 1..NumSlots(d) : SlotOffset(d, i) = 0}
  IN  IF free = {} THEN NumSlots(d) + 1 ELSE Min(free)

\* Mutant: the new start of the records is not noted.
AllocatedAbove(size, d) ==
  LET slot == FreeSlotOf(d)
  IN  SetShort(SlotPos(slot), freeEnd - size,
               SetShort(FreeStartPos, freeStart + SlotEntrySize, SetShort(NumSlotsPos, slot, d)))

\* Mutant: the slot is not counted.
AllocatedUncounted(size, d) ==
  SetShort(FreeEndPos, freeEnd - size, SetShort(SlotPos(FreeSlotOf(d)), freeEnd - size, d))

\* allocate_slot, after its test for space
Allocated(size, d) ==
  LET slot == FreeSlotOf(d)
      offset == freeEnd - size
      counted == IF slot <= NumSlots(d) THEN d
                 ELSE SetShort(FreeStartPos, freeStart + SlotEntrySize, SetShort(NumSlotsPos, slot, d))
  IN  SetShort(FreeEndPos, offset, SetShort(SlotPos(slot), offset, counted))

Fits(size) == freeEnd - size - SlotEntrySize >= freeStart

\* The columns of the row in a slot, as inserted.
Inserted(row) == [i \in DOMAIN row |-> AsStored(schema[i], row[i])]
Encodable(row) == \A i \in DOMAIN row : row[i].ok

\* The bytes that the slot owns.
Extent(d, slot) == Slice(d, SlotOffset(d, slot), RecordLength(schema))

------------------------------------------------------------------------------

Init ==
  /\ schema \in Schemas
  /\ data = SetShort(NumSlotsPos, 0,
              SetShort(FreeStartPos, SlotDirStart,
                SetShort(FreeEndPos, PageSize, [k \in 1..PageSize |-> ZeroByte])))
  /\ stored = <<>>
  /\ result = [op |-> "none", size |-> 0]

\* insert_record that finds room; an exception of a setter leaves it after the
\* slot was allocated.
InsertRecord(row) ==
  LET size == RecordLength(schema)
      intact(i) == stored[i].whole /\ Extent(data', i) = Extent(data, i)
      whole == Encodable(row) /\ ReadRow(data', FreeSlotOf(data)) = Inserted(row)
  IN  /\ Fits(size)
      /\ data' = WriteRow(row, freeEnd - size, Allocated(size, data))
      /\ stored' = Append([i \in DOMAIN stored |-> [stored[i] EXCEPT !.whole = intact(i)]],
                          [row |-> row, whole |-> whole])
      /\ result' = [op |-> IF Encodable(row) THEN "stored" ELSE "failed", size |-> size]
      /\ UNCHANGED schema

\* allocate_slot raises OverflowError, insert_record returns False.
RecordRefused ==
  /\ ~Fits(RecordLength(schema))
  /\ result' = [op |-> "full", size |-> RecordLength(schema)]
  /\ UNCHANGED <<data, schema, stored>>

\* The page is written to disk and read again: read_page takes PAGE_SIZE bytes.
PageReloaded ==
  /\ Len(data) > PageSize
  /\ data' = SubSeq(data, 1, PageSize)
  /\ UNCHANGED <<schema, stored, result>>

Next ==
  \/ \E row \in Rows(schema) : InsertRecord(row)
  \/ RecordRefused
  \/ PageReloaded

Spec == Init /\ [][Next]_vars

------------------------------------------------------------------------------
(* Properties *)

TypeOK ==
  /\ schema \in Schemas
  /\ data \in Seq(Byte) /\ Len(data) >= PageSize
  /\ Len(stored) = NumSlots(data)
  /\ stored \in Seq([row : Rows(schema), whole : BOOLEAN])
  /\ result \in [op : {"none", "stored", "failed", "full"}, size : Nat]

\* No string of the row is longer than MAX_STRING_LENGTH.
FitsColumns(row) == \A i \in DOMAIN row : row[i].class = "str" => row[i].len <= MaxStringLength

\* A row reads back as it was inserted when it and the rows inserted after it
\* on this page fit their columns: rows that break off half-written, longer
\* rows before it, a full page and a trip to the disk make no difference.
RowsReadBack ==
  \A i \in DOMAIN stored :
    Encodable(stored[i].row) /\ (\A j \in i..Len(stored) : FitsColumns(stored[j].row)) =>
      ReadRow(data, i) = Inserted(stored[i].row)

\* The bytes implement the page of module SlottedPage: header fields and
\* directory, and which records a longer string damages.
Layout == INSTANCE SlottedPage WITH
  RecordSizes <- {RecordLength(s) : s \in Schemas},
  Overruns <- 0..Max({v.len : v \in Values} \cup {0}),
  ValuesCanFail <- TRUE
ImplementsLayout == Layout!Spec

\* "Page class representing a PAGE_SIZE page": refuted by a string that is
\* longer than the last column of the first record.
PageKeepsItsSize == Len(data) = PageSize
==============================================================================
