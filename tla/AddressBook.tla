----------------------------- MODULE AddressBook -----------------------------
(***************************************************************************)
(* exercise01/task1: an address book, a list of contacts, and the tracker  *)
(* that its malloc and free go through.  The tests of main.c create a      *)
(* book, add contacts, remove some and free the book; the tracker lives on *)
(* from one test to the next.  The fields of a contact are left out, and   *)
(* malloc returns the first block that is free.                            *)
(***************************************************************************)
EXTENDS Integers, Sequences, FiniteSetsExt

CONSTANTS MEMORY_TRACKER_SIZE,
          Blocks,        \* bound: blocks of the heap, numbered from 1; 0 is NULL
          MaxAllocated   \* bound: the total after which nothing more is allocated

ASSUME AddressBookAssumption ==
    MEMORY_TRACKER_SIZE \in Nat \ {0} /\ Blocks \in Nat \ {0} /\ MaxAllocated \in Nat

VARIABLES heap,     \* the blocks that are allocated
          memory,   \* the tracker's table
          error, total_allocated, total_freed,
          address_book, list,   \* the book and its nodes, each with its contact
          held,     \* the contacts the caller still knows
          crashed

book_vars == <<heap, memory, error, total_allocated, total_freed, address_book, list, held,
               crashed>>

\* What malloc and free change, as one record.
Memory == [heap |-> heap, memory |-> memory, error |-> error,
           allocated |-> total_allocated, freed |-> total_freed]

MemoryBecomes(m) == /\ heap' = m.heap /\ memory' = m.memory /\ error' = m.error
                    /\ total_allocated' = m.allocated /\ total_freed' = m.freed

BookInit ==
    /\ heap = {} /\ memory = [k \in 1..MEMORY_TRACKER_SIZE |-> [address |-> 0, size |-> 0]]
    /\ error = {} /\ total_allocated = 0 /\ total_freed = 0
    /\ address_book = 0 /\ list = <<>> /\ held = {} /\ crashed = FALSE

-----------------------------------------------------------------------------
(* The tracker. *)

SizeOf == [book |-> 1, node |-> 2, contact |-> 3]

WithAddress(m, a) == {k \in DOMAIN m.memory : m.memory[k].address = a}

\* my_malloc of a thing at block a, which may be NULL.  A full table is an error, and
\* the block is not tracked.
Malloc(m, a, thing) ==
    IF a = 0 THEN [m EXCEPT !.error = @ \cup {"FAILED_ALLOC"}]
    ELSE IF WithAddress(m, 0) = {}
    THEN [m EXCEPT !.heap = @ \cup {a}, !.error = @ \cup {"MAX_ALLOC"}]
    ELSE [m EXCEPT !.heap = @ \cup {a}, !.allocated = @ + SizeOf[thing],
                   !.memory[Min(WithAddress(m, 0))] = [address |-> a, size |-> SizeOf[thing]]]

\* Mutant of GivenBack: the slot stays taken.
StillTaken(slot) == slot
GivenBack(slot)  == [slot EXCEPT !.address = 0]

\* my_free of block a, which is freed only if it is tracked.
Free(m, a) ==
    IF WithAddress(m, a) = {} THEN [m EXCEPT !.error = @ \cup {"DOUBLE_FREE"}]
    ELSE LET k == Min(WithAddress(m, a))
         IN  [m EXCEPT !.heap = @ \ {a}, !.freed = @ + m.memory[k].size,
                       !.memory[k] = GivenBack(@)]

-----------------------------------------------------------------------------
(* The address book. *)

FreeBlocks(m) == {a \in 1..Blocks : a \notin m.heap /\ m.allocated < MaxAllocated}

Create == /\ address_book = 0 /\ FreeBlocks(Memory) # {}
          /\ address_book' = Min(FreeBlocks(Memory)) /\ list' = <<>> /\ held' = {}
          /\ MemoryBecomes(Malloc(Memory, address_book', "book")) /\ UNCHANGED crashed

\* add_contact(address_book, create_contact(...))
Add == /\ address_book # 0 /\ Cardinality(FreeBlocks(Memory)) >= 2
       /\ LET c  == Min(FreeBlocks(Memory))
              m  == Malloc(Memory, c, "contact")
              nd == Min(FreeBlocks(Memory) \ {c})
          IN  /\ MemoryBecomes(Malloc(m, nd, "node"))
              /\ list' = Append(list, [node |-> nd, data |-> c]) /\ held' = held \cup {c}
       /\ UNCHANGED <<address_book, crashed>>

\* malloc returns NULL, and its caller writes to it.
MallocFails == /\ MemoryBecomes(Malloc(Memory, 0, "node")) /\ crashed' = TRUE
               /\ UNCHANGED <<address_book, list, held>>

\* The first contact is never found; for the second one, it and the first are taken
\* off the list and stay allocated; a later one is unlinked and freed.
Remove(c) ==
    /\ held' = held \ {c} /\ UNCHANGED <<address_book, crashed>>
    /\ LET found == {j \in DOMAIN list : j > 1 /\ list[j].data = c}
           j     == Min(found)
       IN  \/ /\ list = <<>> \/ (Len(list) > 1 /\ found = {})
              /\ MemoryBecomes(Memory) /\ UNCHANGED list
           \/ /\ found # {} /\ j = 2
              /\ list' = SubSeq(list, 3, Len(list)) /\ MemoryBecomes(Memory)
           \/ /\ found # {} /\ j > 2
              /\ list' = SubSeq(list, 1, j - 1) \o SubSeq(list, j + 1, Len(list))
              /\ MemoryBecomes(Free(Free(Memory, c), list[j].node))

\* With one contact in the list, head->next is NULL, and is read.
RemoveCrashes == /\ held # {} /\ Len(list) = 1 /\ crashed' = TRUE
                 /\ MemoryBecomes(Memory) /\ UNCHANGED <<address_book, list, held>>

\* The nodes and the contacts stay allocated.
FreeBook == /\ address_book # 0 /\ address_book' = 0 /\ list' = <<>> /\ held' = {}
            /\ MemoryBecomes(Free(Memory, address_book)) /\ UNCHANGED crashed

BookNext == /\ ~crashed
            /\ \/ Create \/ Add \/ MallocFails \/ RemoveCrashes \/ FreeBook
               \/ \E c \in held : Remove(c)

BookSpec == BookInit /\ [][BookNext]_book_vars

-----------------------------------------------------------------------------
(* Properties. *)

\* The sizes in the first k slots of a table that are taken, added up.
Sizes(table) ==
    LET upTo[k \in 0..MEMORY_TRACKER_SIZE] ==
            IF k = 0 THEN 0
            ELSE upTo[k - 1] + (IF table[k].address = 0 THEN 0 ELSE table[k].size)
    IN  upTo

\* As long as the tracker has seen no error, its table is the heap and its totals
\* differ by what is allocated, so that check_clean_memory_handling is right; no node
\* of the list, and none of its contacts, has been freed (memory_tracking.c:24-64,
\* addressbook.c:46-76).
TrackerIsExact ==
    /\ error = {} => {memory[k].address : k \in DOMAIN memory} \ {0} = heap
    /\ total_allocated - total_freed = Sizes(memory)[MEMORY_TRACKER_SIZE]
    /\ \A j \in DOMAIN list : list[j].node \in heap /\ list[j].data \in heap
=============================================================================
