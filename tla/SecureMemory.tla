---------------------------- MODULE SecureMemory ----------------------------
(***************************************************************************)
(* The kernel's allocator for sensitive data (src/kernel/sec_mem.c) on a   *)
(* system that locks memory by the page and counts nothing, as Windows     *)
(* does (lockMemory and unlockMemory of src/misc/os_spec.c): blocks are    *)
(* kept in a doubly linked list, and a block that is freed unlocks its     *)
(* pages unless another block of the list lies in them.  What happens with *)
(* the allocation mutex held is one action.                                *)
(***************************************************************************)
EXTENDS Integers, SequencesExt

CONSTANTS Blocks, NULL,
          First, Last2,   \* block -> the pages in which it starts and ends
          LockResults     \* what VirtualLock may return

SecureMemoryAssumption ==
  /\ IsFiniteSet(Blocks) /\ NULL \notin Blocks /\ First \in [Blocks -> Nat] /\ LockResults \subseteq BOOLEAN
  /\ \A b \in Blocks : Last2[b] \in {First[b], First[b] + 1}

VARIABLES state,        \* where the thread that allocates or frees a block is
          flagLocked,   \* blocks with MEM_FLAG_LOCKED
          next, prev, allocatedListHead, allocatedListTail,
          lockedPages,  \* of the operating system
          order         \* history: the blocks of the list, oldest first

memoryVars == <<state, flagLocked, next, prev, allocatedListHead, allocatedListTail, lockedPages, order>>

Pages(b) == {First[b], Last2[b]}
Goes(b, from, to) == state[b] = from /\ state' = [state EXCEPT ![b] = to]

\* The blocks that getBlockListInfo returns one after the other.
BlockAt[i \in Nat] == IF i = 0 THEN allocatedListHead
                      ELSE IF BlockAt[i - 1] = NULL THEN NULL ELSE next[BlockAt[i - 1]]
Walk == {BlockAt[i] : i \in 0..Cardinality(Blocks)} \ {NULL}

-----------------------------------------------------------------------------
(* krnlMemalloc *)

(* clAlloc, the header, and lockMemory before the list is locked *)
LockBlock(b) ==
  /\ Goes(b, "free", "locked")
  /\ next' = [next EXCEPT ![b] = NULL] /\ prev' = [prev EXCEPT ![b] = NULL]
  /\ \E ok \in LockResults :
       /\ flagLocked' = IF ok THEN flagLocked \union {b} ELSE flagLocked \ {b}
       /\ lockedPages' = IF ok THEN lockedPages \union Pages(b) ELSE lockedPages
  /\ UNCHANGED <<allocatedListHead, allocatedListTail, order>>

\* Mutant: the new block does not point back.
InsertNextOnly(b) ==
  /\ Goes(b, "locked", "listed")
  /\ IF allocatedListHead = NULL
     THEN allocatedListHead' = b /\ UNCHANGED <<next, prev>>
     ELSE /\ next' = [next EXCEPT ![allocatedListTail] = b]
          /\ UNCHANGED <<allocatedListHead, prev>>
  /\ allocatedListTail' = b
  /\ order' = Append(order, b)
  /\ UNCHANGED <<flagLocked, lockedPages>>

(* insertMemBlock *)
insertMemBlock(b) ==
  /\ Goes(b, "locked", "listed")
  /\ IF allocatedListHead = NULL
     THEN allocatedListHead' = b /\ UNCHANGED <<next, prev>>
     ELSE /\ next' = [next EXCEPT ![allocatedListTail] = b]
          /\ prev' = [prev EXCEPT ![b] = allocatedListTail]
          /\ UNCHANGED allocatedListHead
  /\ allocatedListTail' = b
  /\ order' = Append(order, b)
  /\ UNCHANGED <<flagLocked, lockedPages>>

-----------------------------------------------------------------------------
(* krnlMemfree *)

(* unlinkMemBlock's look at the neighbours before it touches anything *)
Linked(b) ==
  /\ IF b = allocatedListHead THEN prev[b] = NULL ELSE prev[b] # NULL
  /\ b = allocatedListTail => next[b] = NULL
  /\ prev[b] # NULL => next[prev[b]] = b
  /\ next[b] # NULL => prev[next[b]] = b

UnlinkedLinks(b) ==
  LET n == next[b]
      p == prev[b] IN
  /\ allocatedListHead' = IF b = allocatedListHead THEN n ELSE allocatedListHead
  /\ allocatedListTail' = IF b = allocatedListTail THEN p ELSE allocatedListTail
  /\ next' = [[c \in Blocks |-> IF c = p THEN n ELSE next[c]] EXCEPT ![b] = NULL]
  /\ prev' = [[c \in Blocks |-> IF c = n THEN p ELSE prev[c]] EXCEPT ![b] = NULL]

(* A block that cannot be unlinked is left where it is; only the head goes *)
(* with the whole list.                                                    *)
unlinkMemBlock(b) ==
  IF Linked(b) THEN UnlinkedLinks(b)
  ELSE /\ allocatedListHead' = IF b = allocatedListHead THEN NULL ELSE allocatedListHead
       /\ allocatedListTail' = IF b = allocatedListHead THEN NULL ELSE allocatedListTail
       /\ UNCHANGED <<next, prev>>

\* Mutant: only the page in which another block begins is looked at.
UnlockedFirstOnly(b) == {p \in Pages(b) : \A c \in Walk \ {b} : First[c] # p}

(* unlockMemory walks over the list for other blocks in the block's pages. *)
Unlocked(b) == {p \in Pages(b) : \A c \in Walk \ {b} : p \notin Pages(c)}

Position(b) == CHOOSE i \in 1..Len(order) : order[i] = b

(* Unlink and unlock with the list locked, in this order: what is unlocked *)
(* does not depend on it, the block itself is filtered out of the walk.    *)
UnlinkBlock(b) ==
  /\ Goes(b, "listed", "unlinked")
  /\ unlinkMemBlock(b)
  /\ lockedPages' = IF b \in flagLocked THEN lockedPages \ Unlocked(b) ELSE lockedPages
  /\ order' = RemoveAt(order, Position(b))
  /\ UNCHANGED flagLocked

(* zeroise, clFree *)
FreeBlock(b) ==
  /\ Goes(b, "unlinked", "free")
  /\ UNCHANGED <<flagLocked, next, prev, allocatedListHead, allocatedListTail, lockedPages, order>>

MemoryInit ==
  /\ state = [b \in Blocks |-> "free"] /\ flagLocked = {}
  /\ next = [b \in Blocks |-> NULL] /\ prev = [b \in Blocks |-> NULL]
  /\ allocatedListHead = NULL /\ allocatedListTail = NULL
  /\ lockedPages = {} /\ order = <<>>

MemoryNext == \E b \in Blocks : LockBlock(b) \/ insertMemBlock(b) \/ UnlinkBlock(b) \/ FreeBlock(b)
MemorySpec == MemoryInit /\ [][MemoryNext]_memoryVars

-----------------------------------------------------------------------------

MemoryTypeOK ==
  /\ state \in [Blocks -> {"free", "locked", "listed", "unlinked"}]
  /\ flagLocked \subseteq Blocks
  /\ next \in [Blocks -> Blocks \union {NULL}] /\ prev \in [Blocks -> Blocks \union {NULL}]
  /\ allocatedListHead \in Blocks \union {NULL} /\ allocatedListTail \in Blocks \union {NULL}
  /\ lockedPages \subseteq Nat /\ order \in Seq(Blocks)

(* Blocks come and go anywhere in the list, in any thread: followed either *)
(* way it is the blocks that are in use, in the order in which they came.  *)
ListInOrder ==
  /\ ToSet(order) = {b \in Blocks : state[b] = "listed"}
  /\ order = <<>> => allocatedListHead = NULL /\ allocatedListTail = NULL
  /\ order # <<>> => /\ allocatedListHead = order[1] /\ prev[order[1]] = NULL
                     /\ allocatedListTail = Last(order) /\ next[Last(order)] = NULL
  /\ \A i \in 2..Len(order) : prev[order[i]] = order[i - 1] /\ next[order[i - 1]] = order[i]

(* The inductive invariant behind it: no block is listed twice, and a      *)
(* block that is about to be listed points nowhere.                        *)
ListedOnce == \A i, j \in 1..Len(order) : order[i] = order[j] => i = j
NewUnlinked == \A b \in Blocks : state[b] = "locked" => next[b] = NULL /\ prev[b] = NULL
MemoryInv == MemoryTypeOK /\ ListedOnce /\ NewUnlinked /\ ListInOrder

(* "We can't unlock a memory block if there's another locked block on the  *)
(* same page" (os_spec.c): no page of a block of the list is unlocked.     *)
SharedPageStaysLockedStep ==
  \A p \in lockedPages \ lockedPages' : \A b \in ToSet(order') : p \notin Pages(b)
SharedPageStaysLocked == [][SharedPageStaysLockedStep]_memoryVars

(* "They'll be unlocked when the other memory block is freed" (os_spec.c): *)
(* a page is locked only while a block, listed or about to be, lies in it. *)
NoPageLeftLocked ==
  \A p \in lockedPages :
    \E b \in Blocks : state[b] \in {"locked", "listed"} /\ p \in Pages(b)

(* The purpose of it all: sensitive data is never in a page that may be    *)
(* written to disk.                                                        *)
DataInLockedPages ==
  \A b \in Blocks : state[b] = "listed" /\ b \in flagLocked => Pages(b) \subseteq lockedPages
=============================================================================
