-------------------------------- MODULE KvStore --------------------------------
(***************************************************************************)
(* What a KV cache for several sequences promises: a private memory for    *)
(* every live sequence.  A write changes the entry it names and no other,  *)
(* a dropped sequence takes all of its entries along and nobody else's,    *)
(* and nothing but a write or a drop changes what can be read.             *)
(***************************************************************************)
CONSTANTS
    Owners,    \* the sequences
    Places,    \* what a sequence can write to: layers and token positions
    Values

VARIABLE store    \* <<owner, place>> of every entry written -> its value

StoreInit == store = [k \in {} |-> 0]

Put(o, p, v) ==
    store' = [k \in DOMAIN store \cup {<<o, p>>} |->
                IF k = <<o, p>> THEN v ELSE store[k]]

DropOwner(o) ==
    store' = [k \in {e \in DOMAIN store : e[1] # o} |-> store[k]]

StoreNext ==
    \E o \in Owners :
        \/ \E p \in Places, v \in Values : Put(o, p, v)
        \/ DropOwner(o)

Spec == StoreInit /\ [][StoreNext]_store
=============================================================================
