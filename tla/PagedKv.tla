------------------------------- MODULE PagedKv -------------------------------
(***************************************************************************)
(* pictor-model/src/paged_kv_cache.rs: a pool of fixed-size pages and, for *)
(* every sequence and layer, a table of the pages it owns.  Pages are      *)
(* taken when a position is first needed and returned, not zeroed, when    *)
(* the sequence is dropped.                                                *)
(*                                                                         *)
(* The methods take `&mut self`, so `op` names the call being executed and *)
(* its loops over pages run one turn at a time.  A key and a value vector  *)
(* are one member of Values; the length checks of write_kv are left out.   *)
(***************************************************************************)
EXTENDS Integers, Sequences, SequencesExt, FiniteSets

CONSTANTS
    Capacity,     \* pages in the pool
    BlockSize,    \* token slots per page
    NumLayers,
    MaxSeqs,      \* bound: sequences created in one behaviour
    MaxPos,       \* bound: token positions used
    Values

ASSUME CapacityAssumption == Capacity \in Nat
ASSUME BlockSizeAssumption == BlockSize \in Nat \ {0}
ASSUME BoundsAssumption == NumLayers \in Nat /\ MaxSeqs \in Nat /\ MaxPos \in Nat

Pages == 1 .. Capacity
PagedSlots == 0 .. BlockSize - 1
PagedLayers == 1 .. NumLayers
PagedPositions == 0 .. MaxPos - 1
Seqs == 1 .. MaxSeqs
Places == PagedLayers \X PagedPositions
Zeros == "zeros"    \* what a page holds from BlockPool::new
ASSUME ValuesAssumption == Zeros \notin Values

VARIABLES
    free,        \* free_list, a stack
    content,     \* the slots of every page
    live,        \* keys of the `sequences` map
    tables,      \* blocks[layer] of every sequence
    nextSeq,     \* next_seq_id
    op,          \* the call being executed
    written      \* history: <<sequence, place>> of the successful writes

pagedVars == <<free, content, live, tables, nextSeq, op, written>>

Idle == [kind |-> "idle"]
Ensures == [kind : {"ensure"}, seq : Seqs, need : 0 .. MaxPos]
Writes == [kind : {"write"}, seq : Seqs, need : 1 .. MaxPos, layer : PagedLayers, value : Values]
Drops == [kind : {"drop"}, seq : Seqs]

PagedTypeOK ==
    /\ free \in Seq(Pages)
    /\ content \in [Pages -> [PagedSlots -> Values \cup {Zeros}]]
    /\ live \subseteq Seqs
    /\ tables \in [Seqs -> [PagedLayers -> Seq(Pages)]]
    /\ nextSeq \in 1 .. MaxSeqs + 1
    /\ op \in {Idle} \cup Ensures \cup Writes \cup Drops
    /\ written \subseteq Seqs \X Places

PagedInit ==
    /\ free = [i \in Pages |-> i]
    /\ content = [p \in Pages |-> [i \in PagedSlots |-> Zeros]]
    /\ live = {}
    /\ tables = [s \in Seqs |-> [l \in PagedLayers |-> <<>>]]
    /\ nextSeq = 1
    /\ op = Idle
    /\ written = {}
-----------------------------------------------------------------------------
\* create_sequence: the id is never used again.
CreateSequence ==
    /\ op = Idle
    /\ nextSeq <= MaxSeqs
    /\ live' = live \cup {nextSeq}
    /\ nextSeq' = nextSeq + 1
    /\ UNCHANGED <<free, content, tables, op, written>>

\* Any call that names an unknown sequence: SequenceNotFound.
NotFound(s) ==
    /\ op = Idle
    /\ s \notin live
    /\ UNCHANGED pagedVars

\* ensure_capacity and write_kv are called.
StartEnsure(s, n) ==
    /\ op = Idle
    /\ s \in live
    /\ op' = [kind |-> "ensure", seq |-> s, need |-> n]
    /\ UNCHANGED <<free, content, live, tables, nextSeq, written>>

StartWrite(s, l, pos, v) ==
    /\ op = Idle
    /\ s \in live
    /\ op' = [kind |-> "write", seq |-> s, need |-> pos + 1, layer |-> l, value |-> v]
    /\ UNCHANGED <<free, content, live, tables, nextSeq, written>>

Growing == op.kind \in {"ensure", "write"}

\* blocks_needed = num_tokens.div_ceil(block_size), against each layer.
BlocksNeeded(n) == (n + BlockSize - 1) \div BlockSize
Short(l) == Len(tables[op.seq][l]) < BlocksNeeded(op.need)

\* (mutant) The page is looked at but stays on the free list.
AllocateKeepsFree(l) ==
    /\ Growing
    /\ Short(l)
    /\ free # <<>>
    /\ tables' = [tables EXCEPT ![op.seq][l] = Append(@, Last(free))]
    /\ UNCHANGED <<free, content, live, nextSeq, op, written>>

\* ensure_capacity, one turn of its loops: the first layer that is short gets
\* the page on top of the free list.
AllocatePage(l) ==
    /\ Growing
    /\ Short(l)
    /\ \A k \in 1 .. l - 1 : ~ Short(k)
    /\ free # <<>>
    /\ tables' = [tables EXCEPT ![op.seq][l] = Append(@, Last(free))]
    /\ free' = Front(free)
    /\ UNCHANGED <<content, live, nextSeq, op, written>>

\* OutOfMemory: the pages taken so far stay with the sequence.
OutOfMemory ==
    /\ Growing
    /\ free = <<>>
    /\ \E l \in PagedLayers : Short(l)
    /\ op' = Idle
    /\ UNCHANGED <<free, content, live, tables, nextSeq, written>>

Enough == \A l \in PagedLayers : ~ Short(l)

EndEnsure ==
    /\ op.kind = "ensure"
    /\ Enough
    /\ op' = Idle
    /\ UNCHANGED <<free, content, live, tables, nextSeq, written>>

\* read_kv and write_kv: the page and the slot of a position.
PageOf(s, l, pos) == tables[s][l][(pos \div BlockSize) + 1]
Mapped(s, l, pos) == (pos \div BlockSize) + 1 <= Len(tables[s][l])
Read(s, l, pos) == content[PageOf(s, l, pos)][pos % BlockSize]

\* (mutant) The slot is taken from the position without the block size.
EndWriteSlotZero ==
    /\ op.kind = "write"
    /\ Enough
    /\ LET pos == op.need - 1
       IN  /\ content' = [content EXCEPT ![PageOf(op.seq, op.layer, pos)][0] = op.value]
           /\ written' = written \cup {<<op.seq, <<op.layer, pos>>>>}
    /\ op' = Idle
    /\ UNCHANGED <<free, live, tables, nextSeq>>

\* write_kv, after its ensure_capacity.
EndWrite ==
    /\ op.kind = "write"
    /\ Enough
    /\ LET pos == op.need - 1
       IN  /\ content' = [content EXCEPT ![PageOf(op.seq, op.layer, pos)][pos % BlockSize] =
                            op.value]
           /\ written' = written \cup {<<op.seq, <<op.layer, pos>>>>}
    /\ op' = Idle
    /\ UNCHANGED <<free, live, tables, nextSeq>>

\* drop_sequence: the table leaves the map ...
StartDrop(s) ==
    /\ op = Idle
    /\ s \in live
    /\ live' = live \ {s}
    /\ written' = {w \in written : w[1] # s}
    /\ op' = [kind |-> "drop", seq |-> s]
    /\ UNCHANGED <<free, content, tables, nextSeq>>

\* (mutant) Only the pages of the first layer go back to the pool.
FreeFirstLayerOnly(l) ==
    /\ op.kind = "drop"
    /\ tables[op.seq][l] # <<>>
    /\ free' = IF l = 1 THEN Append(free, Head(tables[op.seq][l])) ELSE free
    /\ tables' = [tables EXCEPT ![op.seq][l] = Tail(@)]
    /\ UNCHANGED <<content, live, nextSeq, op, written>>

\* ... and its pages go back to the pool, layer by layer, contents and all.
FreePage(l) ==
    /\ op.kind = "drop"
    /\ tables[op.seq][l] # <<>>
    /\ \A k \in 1 .. l - 1 : tables[op.seq][k] = <<>>
    /\ free' = Append(free, Head(tables[op.seq][l]))
    /\ tables' = [tables EXCEPT ![op.seq][l] = Tail(@)]
    /\ UNCHANGED <<content, live, nextSeq, op, written>>

EndDrop ==
    /\ op.kind = "drop"
    /\ \A l \in PagedLayers : tables[op.seq][l] = <<>>
    /\ op' = Idle
    /\ UNCHANGED <<free, content, live, tables, nextSeq, written>>

PagedNext ==
    \/ CreateSequence
    \/ \E s \in Seqs :
          \/ NotFound(s)
          \/ \E n \in 0 .. MaxPos : StartEnsure(s, n)
          \/ \E l \in PagedLayers, pos \in PagedPositions, v \in Values : StartWrite(s, l, pos, v)
          \/ StartDrop(s)
    \/ \E l \in PagedLayers : AllocatePage(l) \/ FreePage(l)
    \/ OutOfMemory
    \/ EndEnsure
    \/ EndWrite
    \/ EndDrop

PagedSpec == PagedInit /\ [][PagedNext]_pagedVars
-----------------------------------------------------------------------------
\* No page is on the free list twice, or free and owned, or owned twice (by
\* two sequences, two layers or two positions): a write reaches one owner.
PagesDisjoint ==
    /\ \A i, j \in DOMAIN free : free[i] = free[j] => i = j
    /\ \A s \in Seqs : \A l \in PagedLayers :
          \A i \in DOMAIN tables[s][l] : \A j \in DOMAIN free : free[j] # tables[s][l][i]
    /\ \A s, t \in Seqs : \A l, m \in PagedLayers :
          \A i \in DOMAIN tables[s][l] : \A j \in DOMAIN tables[t][m] :
              tables[s][l][i] = tables[t][m][j] => s = t /\ l = m /\ i = j

\* No page is lost: every page is free or owned, also after an OutOfMemory
\* left a sequence with part of what it asked for, and sequences that were
\* dropped own nothing.
PagesConserved ==
    /\ \A p \in Pages :
          \/ \E i \in DOMAIN free : free[i] = p
          \/ \E s \in Seqs : \E l \in PagedLayers : \E i \in DOMAIN tables[s][l] :
                tables[s][l][i] = p
    /\ op = Idle => \A s \in Seqs \ live : \A l \in PagedLayers : tables[s][l] = <<>>

\* What was written is still mapped, and is the sequence's own.
WrittenMapped ==
    \A w \in written : w[1] \in live /\ Mapped(w[1], w[2][1], w[2][2])

\* Only a sequence that is live, or is being dropped, owns pages.
OwnersKnown ==
    /\ \A s \in Seqs \ live :
          (op.kind = "drop" /\ op.seq = s) \/ \A l \in PagedLayers : tables[s][l] = <<>>
    /\ op.kind \in {"ensure", "write"} => op.seq \in live
    /\ op.kind = "drop" => op.seq \notin live
    /\ \A s \in live : s < nextSeq

\* The inductive invariant behind the theorems of KvCacheProofs.
PagedInv == PagedTypeOK /\ PagesDisjoint /\ WrittenMapped /\ OwnersKnown

\* The cache is a private memory per sequence: a write changes the entry it
\* names and no other, of whichever sequence, and a drop only its own.
Stored == [w \in written |-> Read(w[1], w[2][1], w[2][2])]
Memory == INSTANCE KvStore WITH Owners <- Seqs, store <- Stored
IsPrivateMemory == Memory!Spec
=============================================================================
