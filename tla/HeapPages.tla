------------------------------ MODULE HeapPages ------------------------------
(***************************************************************************)
(* The contents of a page as the heap file and the catalog see them        *)
(* (heap_page.py, data_page.py, header_page.py over slotted_page.py).      *)
(* Module SlottedPage has the bytes; here a page is its kind, its name,    *)
(* its link and the sequence of records its slots point to.                *)
(***************************************************************************)
EXTENDS Integers, Sequences

CONSTANTS
  Names,           \* relation names
  MaxPages,        \* bound on page ids
  RowsPerPage,     \* get_max_records_on_page for the tables' schema
  EntriesPerPage   \* catalog entries a header page holds

ASSUME CapacityAssumption ==
  /\ MaxPages \in Nat \ {0}
  /\ RowsPerPage \in Nat \ {0} /\ EntriesPerPage \in Nat \ {0}

NoName == "no name"
NoLink == -1                    \* DatabaseConstants.INVALID_PAGE_ID
Links == -1..(MaxPages - 1)

\* Rows are numbered; number 0 is a slot whose record was never fully written.
Row == [row : Nat]
HalfWritten == [row |-> 0]
Entry == [name : Names, first : Links]

PageContents ==
  [kind : {"zero", "header", "data"}, name : Names \cup {NoName},
   next : Links, slots : Seq(Row \cup Entry)]

\* PAGE_SIZE zero bytes: no slots, no free space, and a link to page 0.
ZeroBytes == [kind |-> "zero", name |-> NoName, next |-> 0, slots |-> <<>>]

\* HeaderPage.initialise and DataPage.initialise
EmptyHeader == [kind |-> "header", name |-> NoName, next |-> NoLink, slots |-> <<>>]
EmptyData(name) == [kind |-> "data", name |-> name, next |-> NoLink, slots |-> <<>>]

\* The test of allocate_slot; free_start and free_end of a zero page are 0.
HasRoom(page) ==
  \/ page.kind = "header" /\ Len(page.slots) < EntriesPerPage
  \/ page.kind = "data" /\ Len(page.slots) < RowsPerPage

\* insert_record / add_entry on a page with room.
WithRecord(page, record) == [page EXCEPT !.slots = Append(page.slots, record)]

\* set_next_page
WithNext(page, p) == [page EXCEPT !.next = p]
==============================================================================
