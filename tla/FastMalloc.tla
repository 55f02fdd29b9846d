------------------------------ MODULE FastMalloc ------------------------------
(***************************************************************************)
(* The allocator of DS_HELPER/fast_malloc.cpp: a list of blocks inside one *)
(* static array, first fit, free neighbours merged.                        *)
(*                                                                         *)
(* As written, a block that fits exactly is handed out and stays FREE; the *)
(* remainder of a split lies HEADER times as far off as its size accounts  *)
(* for, and ends the list, so that blocks behind the split one are lost;   *)
(* and a first block of size 0 is taken for an unused array.  `sound' says *)
(* none of that has touched an allocation yet.  A header written outside   *)
(* the array or over an allocation ends the model: nothing is defined then.*)
(***************************************************************************)
EXTENDS Integers, SequencesExt

CONSTANTS
  HEADER,    \* sizeof(struct mem_block), 12 in the code
  POOL,      \* FAST_MALLOC_SIZE_BYTES, 131072 in the code
  SIZE_MOD,  \* size_t holds 0 .. SIZE_MOD-1 (2^32 in the code)
  Requests,  \* sizes asked for
  Owners,    \* bound: allocations at one time
  NULL

VARIABLES
  blocks,   \* the list from free_list on: records with addr, size and free
  held,     \* owner -> the memory it was given, as addr of the header and size
  corrupted,
  sound

vars == <<blocks, held, corrupted, sound>>

mem_block(addr, size, free) == [addr |-> addr, size |-> size, free |-> free]

(* The static array is zeroed: one block of size 0, TAKEN.                 *)
Init ==
  /\ blocks = <<mem_block(0, 0, FALSE)>>
  /\ held = [o \in Owners |-> NULL]
  /\ corrupted = FALSE /\ sound = TRUE

Held == {held[o] : o \in Owners} \ {NULL}

Reinitialized == blocks[1].size = 0

(* The list fast_malloc walks: fast_malloc_init comes first if needed.     *)
Listed ==
  IF Reinitialized THEN <<mem_block(0, POOL - HEADER, TRUE)>> ELSE blocks

(* The walk stops at the first block that is free and large enough, or at  *)
(* the last one.                                                           *)
Fits(block, size) == block.free /\ block.size >= size

FittingSlot(size) ==
  CHOOSE i \in DOMAIN Listed :
    /\ i = Len(Listed) \/ Fits(Listed[i], size)
    /\ \A j \in 1 .. i - 1 : ~Fits(Listed[j], size)

(* current + size + sizeof(struct mem_block) counts headers, not bytes.    *)
Remainder_NoHeader(current, size) ==  \* mutant
  mem_block(current.addr + size, (current.size - size - HEADER) % SIZE_MOD, TRUE)

Remainder(current, size) ==
  mem_block(current.addr + HEADER * (size + HEADER),
            (current.size - size - HEADER) % SIZE_MOD, TRUE)

(* Writing a header at addr destroys nothing: it is inside the array and   *)
(* off every allocation and its header.                                    *)
HeaderFits(addr) ==
  /\ addr + HEADER <= POOL
  /\ \A area \in Held :
       addr + HEADER <= area.addr \/ area.addr + HEADER + area.size <= addr

Give(o, addr, size) == held' = [held EXCEPT ![o] = [addr |-> addr, size |-> size]]

fast_malloc_exact(o, size) ==
  /\ ~corrupted /\ held[o] = NULL
  /\ LET current == Listed[FittingSlot(size)]
     IN current.size = size /\ Give(o, current.addr, size)
  /\ blocks' = Listed
  /\ sound' = FALSE
  /\ UNCHANGED corrupted

fast_malloc_split(o, size) ==
  /\ ~corrupted /\ held[o] = NULL
  /\ LET i == FittingSlot(size)
         current == Listed[i]
         remainder_block == Remainder(current, size)
     IN /\ current.size > size
        /\ blocks' = SubSeq(Listed, 1, i - 1)
                       \o <<mem_block(current.addr, size, FALSE), remainder_block>>
        /\ Give(o, current.addr, size)
        /\ corrupted' = ~HeaderFits(remainder_block.addr)
        /\ sound' = (sound /\ i = Len(Listed) /\ (Reinitialized => Held = {}))

fast_malloc_none(size) ==
  /\ ~corrupted
  /\ Listed[FittingSlot(size)].size < size
  /\ blocks' = Listed
  /\ sound' = (sound /\ (Reinitialized => Held = {}))
  /\ UNCHANGED <<held, corrupted>>

(* One step of fast_malloc_merge: a free block swallows its free follower. *)
Merge_Anything(merged, block) ==  \* mutant: the follower's state is not tested
  IF Last(merged).free
  THEN Append(Front(merged),
              [Last(merged) EXCEPT !.size = (@ + block.size + HEADER) % SIZE_MOD])
  ELSE Append(merged, block)

Merge(merged, block) ==
  IF Last(merged).free /\ block.free
  THEN Append(Front(merged),
              [Last(merged) EXCEPT !.size = (@ + block.size + HEADER) % SIZE_MOD])
  ELSE Append(merged, block)

fast_malloc_merge(list) ==
  LET merged[n \in DOMAIN list] ==
        IF n = 1 THEN <<list[1]>> ELSE Merge(merged[n - 1], list[n])
  IN merged[Len(list)]

(* The owner's header is marked FREE, whether the list still has it or not.*)
fast_malloc_free(o) ==
  /\ ~corrupted /\ held[o] # NULL
  /\ blocks' = fast_malloc_merge(
                 [i \in DOMAIN blocks |->
                   [blocks[i] EXCEPT !.free = @ \/ blocks[i].addr = held[o].addr]])
  /\ held' = [held EXCEPT ![o] = NULL]
  /\ UNCHANGED <<corrupted, sound>>

Next ==
  \/ \E o \in Owners, size \in Requests :
       fast_malloc_exact(o, size) \/ fast_malloc_split(o, size)
  \/ \E size \in Requests : fast_malloc_none(size)
  \/ \E o \in Owners : fast_malloc_free(o)

Spec == Init /\ [][Next]_vars

-----------------------------------------------------------------------------
EndOf(block) == block.addr + HEADER + block.size

(* Whatever is allocated, freed and merged, the list goes up through the   *)
(* array, no block but the last reaches into the next one, and the last is *)
(* free: a walk that finds no room never ends on a block that is in use.   *)
ListedBlocksApart ==
  \/ blocks = <<mem_block(0, 0, FALSE)>>
  \/ /\ Last(blocks).free
     /\ \A i \in 1 .. Len(blocks) - 1 : EndOf(blocks[i]) <= blocks[i + 1].addr

(* Until an exact fit, a lost follower or a re-initialisation, whoever was *)
(* given memory has it for itself, inside the array, as a listed block     *)
(* marked TAKEN.                                                           *)
LiveAreasApart ==
  sound /\ ~corrupted =>
    \A o \in Owners : held[o] # NULL =>
      /\ EndOf(held[o]) <= POOL
      /\ \E i \in DOMAIN blocks :
           blocks[i] = mem_block(held[o].addr, held[o].size, FALSE)
      /\ \A p \in Owners \ {o} : held[p] # NULL =>
           EndOf(held[o]) <= held[p].addr \/ EndOf(held[p]) <= held[o].addr
=============================================================================
