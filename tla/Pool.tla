-------------------------------- MODULE Pool --------------------------------
(***************************************************************************)
(* src/pool.c: blocks of memory that are handed out and taken back.  Each  *)
(* block has a slot behind it, whose link makes the free list.             *)
(***************************************************************************)
EXTENDS Lists

CONSTANT Count   \* the number of blocks, which are the nodes of a list

ASSUME CountAssumption == Count \in Nat \ {0} /\ Nodes = 1 .. Count

Blocks == Nodes         \* in the order of their addresses
FreeHead == HeadField   \* the place of the pool's own field free

VARIABLES
    plink,   \* next of every slot, and free of the pool
    pmem,    \* what is in each block: "zero", "init" by the callback, "used",
             \* or "given up" to the callback of free
    pconf,   \* zero_blocks, and whether there is an init callback
    pout,    \* history: the blocks that are handed out
    plife    \* "live", or "gone" after free

pvars == <<plink, pmem, pconf, pout, plife>>

Free == Chain(plink, FreeHead)

(* The loop that links the slots stops before the last one, so that the     *)
(* callback does not see it.                                                *)
PoolInit ==
    /\ pconf \in [zero : BOOLEAN, callback : BOOLEAN]
    /\ plink = [p \in Blocks \cup {FreeHead} |->
                   IF p = FreeHead THEN 1 ELSE IF p = Count THEN NULL ELSE p + 1]
    /\ pmem = [b \in Blocks |-> IF pconf.callback /\ b # Count THEN "init" ELSE "zero"]
    /\ pout = {}
    /\ plife = "live"

Exhausted == plink[FreeHead] = NULL

(* Mutant: the list loses all but its first block. *)
AllocBlock_LinkFirst(b) ==
    /\ b = plink[FreeHead]
    /\ plink' = [plink EXCEPT ![b] = NULL, ![FreeHead] = NULL]
    /\ pmem' = [pmem EXCEPT ![b] = "used"]
    /\ pout' = pout \cup {b}
    /\ UNCHANGED <<pconf, plife>>

(* A block is handed out, and its new owner writes to it. *)
AllocBlock(b) ==
    /\ b = plink[FreeHead]
    /\ plink' = [plink EXCEPT ![b] = NULL, ![FreeHead] = plink[b]]
    /\ pmem' = [pmem EXCEPT ![b] = "used"]
    /\ pout' = pout \cup {b}
    /\ UNCHANGED <<pconf, plife>>

FreeBlock(b) ==
    /\ plink' = [plink EXCEPT ![b] = plink[FreeHead], ![FreeHead] = b]
    /\ pmem' = [pmem EXCEPT ![b] = IF pconf.zero THEN "zero" ELSE @]
    /\ pout' = pout \ {b}
    /\ UNCHANGED <<pconf, plife>>

(* The whole pool goes, once its blocks are back.  The callback, if there   *)
(* is one, gets every block of the free list: also the one that the other   *)
(* callback never saw.                                                      *)
PoolFree ==
    /\ plife = "live" /\ pout = {}
    /\ \E callback \in BOOLEAN :
          pmem' = [b \in Blocks |-> IF callback /\ b \in ToSet(Free) THEN "given up" ELSE pmem[b]]
    /\ plife' = "gone"
    /\ UNCHANGED <<plink, pconf, pout>>

-----------------------------------------------------------------------------
(* Properties. *)

(* alloc_block and free_block (pool.c:66-89) lose no block and hand out     *)
(* none twice: the free list has each block that is not out, once.  With    *)
(* zero_blocks (pool.c:83), nobody who is handed a block finds in it what   *)
(* an earlier owner wrote.                                                  *)
FreeListIsTheRest ==
    /\ ToSet(Free) = Blocks \ pout
    /\ Len(Free) = Cardinality(Blocks \ pout)
    /\ plink[LastPlace(plink, FreeHead)] = NULL

NoOldData == pconf.zero => \A b \in Blocks \ pout : pmem[b] # "used"

(* a3_pool_free (pool.c:94) gives the callback every block or, if there is  *)
(* none, no block; it gets none before, and none that is out.               *)
GivenUpTogether ==
    \A b \in Blocks : pmem[b] = "given up" =>
        plife = "gone" /\ \A c \in Blocks : pmem[c] = "given up"

FreeListIsSound == FreeListIsTheRest /\ NoOldData /\ GivenUpTogether
=============================================================================
