------------------------------- MODULE PagedKV -------------------------------
(***************************************************************************)
(* The paged KV cache of pmetal-mlx (kv_cache/paged.rs): an allocator of   *)
(* physical blocks, a block table for each sequence, and the blocks that   *)
(* hold the keys and values.  The methods take &mut self, so one call runs *)
(* at a time; those that take or give back blocks do so one block per      *)
(* step, with `call' keeping every other method out.  A call that returns  *)
(* an error at its first checks changes nothing and has no action.         *)
(***************************************************************************)
EXTENDS Integers, Sequences, FiniteSets

CONSTANTS
    MaxBlocks,  \* PagedKVCacheConfig.max_blocks
    BlockSize,  \* PagedKVCacheConfig.block_size, at least 1 after `new'
    MaxId,      \* the largest sequence id: u64::MAX
    MaxTokens,  \* the largest token count: usize::MAX
    MaxUpdate,  \* bound on the tokens of one update
    Layers,
    Values,     \* what an update writes for one token
    Zero,       \* the contents of a fresh block
    Absent      \* no array yet, or nothing written yet

ASSUME PagedAssumption ==
    /\ MaxBlocks \in Nat
    /\ BlockSize \in Nat \ {0}
    /\ MaxId \in Nat
    /\ MaxTokens \in Nat
    /\ MaxUpdate \in Nat
    /\ Zero # Absent
    /\ Absent \notin Values

Blocks    == 0..(MaxBlocks - 1)
Offsets   == 0..(BlockSize - 1)
SeqIds    == 0..(MaxId - 1)

\* No table reaches beyond these.
Positions == 0..(MaxTokens + BlockSize - 1)

VARIABLES
    free,       \* Seq(Nat): BlockAllocator.free_blocks, its top last
    isFree,     \* [Blocks -> BOOLEAN]
    freeCount,  \* free_count
    live,       \* keys of block_tables
    tables,     \* [SeqIds -> [blocks, tokens]]: BlockTable
    nextId,     \* next_seq_id
    store,      \* the entry of each layer, block and offset
    call,       \* the method that is running and the blocks it holds
    written     \* what each sequence last wrote at each layer and position

pagedVars == <<free, isFree, freeCount, live, tables, nextId, store, call, written>>

EmptyTable == [blocks |-> <<>>, tokens |-> 0]

Rest == [op |-> "rest", seq |-> 0, need |-> 0, tokens |-> 0, held |-> <<>>]

Nothing == [l \in Layers |-> [p \in Positions |-> Absent]]

PagedInit ==
    /\ free = [i \in 1..MaxBlocks |-> MaxBlocks - i]
    /\ isFree = [b \in Blocks |-> TRUE]
    /\ freeCount = MaxBlocks
    /\ live = {}
    /\ tables = [s \in SeqIds |-> EmptyTable]
    /\ nextId = 0
    /\ store = [l \in Layers |-> [b \in Blocks |-> [o \in Offsets |-> Absent]]]
    /\ call = Rest
    /\ written = [s \in SeqIds |-> Nothing]

(***************************************************************************)
(* BlockAllocator.                                                         *)
(***************************************************************************)
Has(s, x) == \E i \in 1..Len(s) : s[i] = x

\* div_ceil by the block size.
BlocksFor(n) == (n + BlockSize - 1) \div BlockSize

\* A pop that leaves the entry where it is.
BelowKept(s) == s

\* The stack without its top.
Below(s) == SubSeq(s, 1, Len(s) - 1)

\* One iteration of the loops of allocate_n and allocate: an entry that is
\* out of range or not free is dropped.
Take ==
    /\ call.op \in {"allocate", "extend"}
    /\ Len(call.held) < call.need
    /\ free # <<>>
    /\ free' = Below(free)
    /\ LET b == free[Len(free)]
       IN  IF b \in Blocks /\ isFree[b]
             THEN /\ isFree' = [isFree EXCEPT ![b] = FALSE]
                  /\ freeCount' = IF freeCount = 0 THEN 0 ELSE freeCount - 1
                  /\ call' = [call EXCEPT !.held = Append(@, b)]
             ELSE UNCHANGED <<isFree, freeCount, call>>
    /\ UNCHANGED <<live, tables, nextId, store, written>>

\* One block of free_all.
Free ==
    /\ call.op \in {"free", "reset"}
    /\ call.held # <<>>
    /\ call' = [call EXCEPT !.held = Tail(@)]
    /\ LET b == Head(call.held)
       IN  IF b \in Blocks /\ ~isFree[b]
             THEN /\ isFree' = [isFree EXCEPT ![b] = TRUE]
                  /\ freeCount' = IF freeCount < MaxBlocks THEN freeCount + 1 ELSE MaxBlocks
                  /\ free' = Append(free, b)
             ELSE UNCHANGED <<isFree, freeCount, free>>
    /\ UNCHANGED <<live, tables, nextId, store, written>>

(***************************************************************************)
(* allocate_sequence and extend_sequence: checks, blocks, table.           *)
(***************************************************************************)
Begin(op, s, need, tokens) ==
    call' = [op |-> op, seq |-> s, need |-> need, tokens |-> tokens, held |-> <<>>]

Allocate(n) ==
    /\ call = Rest
    /\ nextId < MaxId
    /\ BlocksFor(n) <= freeCount
    /\ Begin("allocate", nextId, BlocksFor(n), n)
    /\ UNCHANGED <<free, isFree, freeCount, live, tables, nextId, store, written>>

\* The blocks of the new tokens alone, whatever room the last block has.
MoreBlocksAlone(s, n) == BlocksFor(n)

MoreBlocks(s, n) == BlocksFor(tables[s].tokens + n) - BlocksFor(tables[s].tokens)

Extend(s, n) ==
    /\ call = Rest
    /\ s \in live
    /\ tables[s].tokens + n <= MaxTokens
    /\ MoreBlocks(s, n) <= freeCount
    /\ Begin("extend", s, MoreBlocks(s, n), tables[s].tokens + n)
    /\ UNCHANGED <<free, isFree, freeCount, live, tables, nextId, store, written>>

\* ensure_block_allocated: zeros for a block never used, old contents else.
Materialised ==
    [l \in Layers |-> [b \in Blocks |-> [o \in Offsets |->
        IF store[l][b][o] = Absent /\ Has(call.held, b) THEN Zero ELSE store[l][b][o]]]]

\* The new blocks in front of the old ones.
WithBlocksFirst(t) == [blocks |-> call.held \o t.blocks, tokens |-> call.tokens]

WithBlocks(t) == [blocks |-> t.blocks \o call.held, tokens |-> call.tokens]

Commit ==
    /\ call.op \in {"allocate", "extend"}
    /\ Len(call.held) = call.need
    /\ store' = Materialised
    /\ tables' = [tables EXCEPT ![call.seq] = WithBlocks(@)]
    /\ live' = live \cup {call.seq}
    /\ nextId' = IF call.op = "allocate" THEN call.seq + 1 ELSE nextId
    /\ call' = Rest
    /\ UNCHANGED <<free, isFree, freeCount, written>>

(***************************************************************************)
(* free_sequence and reset.                                                *)
(***************************************************************************)
Remove(s) ==
    /\ live' = live \ {s}
    /\ tables' = [tables EXCEPT ![s] = EmptyTable]
    /\ written' = [written EXCEPT ![s] = Nothing]

FreeSequence(s) ==
    /\ call = Rest
    /\ s \in live
    /\ Remove(s)
    /\ call' = [Rest EXCEPT !.op = "free", !.held = tables[s].blocks]
    /\ UNCHANGED <<free, isFree, freeCount, nextId, store>>

FreeEnd ==
    /\ call.op = "free"
    /\ call.held = <<>>
    /\ call' = Rest
    /\ UNCHANGED <<free, isFree, freeCount, live, tables, nextId, store, written>>

Reset ==
    /\ call = Rest
    /\ call' = [Rest EXCEPT !.op = "reset"]
    /\ UNCHANGED <<free, isFree, freeCount, live, tables, nextId, store, written>>

ResetSequence(s) ==
    /\ call.op = "reset"
    /\ call.held = <<>>
    /\ s \in live
    /\ Remove(s)
    /\ call' = [call EXCEPT !.held = tables[s].blocks]
    /\ UNCHANGED <<free, isFree, freeCount, nextId, store>>

ResetEnd ==
    /\ call.op = "reset"
    /\ call.held = <<>>
    /\ live = {}
    /\ nextId' = 0
    /\ call' = Rest
    /\ UNCHANGED <<free, isFree, freeCount, live, tables, store, written>>

(***************************************************************************)
(* update and fetch.                                                       *)
(***************************************************************************)
\* get_block_and_offset has an answer for position p.
Mapped(s, p) == p \div BlockSize < Len(tables[s].blocks)

BlockAt(s, p) == tables[s].blocks[p \div BlockSize + 1]

OffsetAt(p) == p % BlockSize

\* The entry fetch returns for position p.
Entry(s, l, p) == store[l][BlockAt(s, p)][OffsetAt(p)]

\* The tokens of an update are written at positions `start', `start' + 1, ...
\* of one layer, all of them or, when one is outside the table, none.
Update(s, l, start, vals) ==
    LET ps == start..(start + Len(vals) - 1)
    IN  /\ call = Rest
        /\ s \in live
        /\ \A p \in ps : p \in Positions /\ Mapped(s, p)
        /\ store' = [store EXCEPT ![l] = [b \in Blocks |-> [o \in Offsets |->
              IF \E p \in ps : BlockAt(s, p) = b /\ OffsetAt(p) = o
                THEN vals[(CHOOSE p \in ps : BlockAt(s, p) = b /\ OffsetAt(p) = o) - start + 1]
                ELSE store[l][b][o]]]]
        /\ written' = [written EXCEPT ![s] = [written[s] EXCEPT ![l] =
              [p \in Positions |->
                 IF p \in ps THEN vals[p - start + 1] ELSE written[s][l][p]]]]
        /\ UNCHANGED <<free, isFree, freeCount, live, tables, nextId, call>>

UpdateAny ==
    \E s \in live, l \in Layers :
        \E start \in 0..(BlockSize * Len(tables[s].blocks)), n \in 1..MaxUpdate :
            \E vals \in [1..n -> Values] : Update(s, l, start, vals)

PagedNext ==
    \/ \E n \in 0..MaxTokens : Allocate(n)
    \/ \E s \in live, n \in 0..MaxTokens : Extend(s, n)
    \/ Take
    \/ Commit
    \/ \E s \in live : FreeSequence(s)
    \/ Free
    \/ FreeEnd
    \/ Reset
    \/ \E s \in live : ResetSequence(s)
    \/ ResetEnd
    \/ UpdateAny

PagedSpec == PagedInit /\ [][PagedNext]_pagedVars

(***************************************************************************)
(* Properties.                                                             *)
(***************************************************************************)
Calls ==
    [op : {"rest", "allocate", "extend", "free", "reset"}, seq : Nat,
     need : Nat, tokens : Nat, held : Seq(Blocks)]

(* The type invariant of the paged cache.                                  *)
PagedTypeOK ==
    /\ free \in Seq(Blocks)
    /\ isFree \in [Blocks -> BOOLEAN]
    /\ freeCount \in Nat
    /\ live \subseteq SeqIds
    /\ tables \in [SeqIds -> [blocks : Seq(Blocks), tokens : Nat]]
    /\ nextId \in 0..MaxId
    /\ store \in [Layers -> [Blocks -> [Offsets -> Values \cup {Zero, Absent}]]]
    /\ call \in Calls
    /\ written \in [SeqIds -> [Layers -> [Positions -> Values \cup {Absent}]]]

InFree(b)     == Has(free, b)
InTable(s, b) == Has(tables[s].blocks, b)
InCall(b)     == Has(call.held, b)

Distinct(s) == \A i, j \in 1..Len(s) : s[i] = s[j] => i = j

(* No block is lost, on the free list twice, or shared by two sequences or *)
(* two places of one: through partly filled blocks, extension, the release *)
(* of a sequence and reset, each is on the free list, in one table, or in  *)
(* the hands of the running call, and free_count counts the first.         *)
BlocksAccounted ==
    /\ Distinct(free)
    /\ Distinct(call.held)
    /\ freeCount = Len(free)
    /\ \A s \in SeqIds : Distinct(tables[s].blocks)
    /\ \A b \in Blocks :
          /\ isFree[b] <=> InFree(b)
          /\ InFree(b) => ~InCall(b)
          /\ \A s \in SeqIds : InTable(s, b) =>
                /\ ~InFree(b)
                /\ ~InCall(b)
                /\ \A t \in SeqIds : InTable(t, b) => s = t
          /\ InFree(b) \/ InCall(b) \/ \E s \in live : InTable(s, b)

(* A sequence reads back what it wrote, at every layer and position: not   *)
(* what another sequence wrote later, before or after its own table grew,  *)
(* and not the previous contents of a block that was used again.           *)
ReadsOwnWrites ==
    \A s \in live, l \in Layers :
        /\ \A p \in Positions : written[s][l][p] # Absent =>
              Mapped(s, p) /\ Entry(s, l, p) = written[s][l][p]
        /\ \A p \in 0..(tables[s].tokens - 1) :
              Mapped(s, p) /\ Entry(s, l, p) # Absent

\* What the running call has been promised and still has to do.
CallShape ==
    /\ call.op = "rest" => call = Rest
    /\ call.op \in {"allocate", "extend"} =>
          /\ Len(call.held) <= call.need
          /\ call.need - Len(call.held) <= freeCount
          /\ call.tokens <= MaxTokens
    /\ call.op = "allocate" =>
          call.seq = nextId /\ nextId < MaxId /\ call.need = BlocksFor(call.tokens)
    /\ call.op = "extend" =>
          /\ call.seq \in live
          /\ tables[call.seq].tokens <= call.tokens
          /\ call.need = BlocksFor(call.tokens) - BlocksFor(tables[call.seq].tokens)

\* A table has the blocks its tokens need; a sequence removed has none.
TablesFit ==
    /\ \A s \in live : s < nextId
    /\ \A s \in live : Len(tables[s].blocks) = BlocksFor(tables[s].tokens)
    /\ \A s \in SeqIds \ live : tables[s] = EmptyTable /\ written[s] = Nothing

\* A block in a table has its arrays.
Resident ==
    \A s \in SeqIds, b \in Blocks, l \in Layers, o \in Offsets :
        InTable(s, b) => store[l][b][o] # Absent

(* The inductive invariant: an allocation that has passed its count check  *)
(* always gets its blocks, and every table is as long as its tokens ask.   *)
PagedInv ==
    PagedTypeOK /\ BlocksAccounted /\ CallShape /\ TablesFit /\ Resident /\ ReadsOwnWrites
==============================================================================
