------------------------------ MODULE LRUCache ------------------------------
(***************************************************************************)
(* LRUCache<T, U, Alloc> over a MemoryPool, the cache of user names that   *)
(* http_conn.cpp keeps in `users`.  my_list holds the addresses of nodes,  *)
(* the most recently used first; map holds for a key the list position of  *)
(* its node, named by the node's address, as list iterators survive splice.*)
(***************************************************************************)
EXTENDS MemoryPool, SequencesExt

CONSTANTS
    Keys, Values,
    NoValue,       \* U{}
    Capacities     \* what the constructors may get, -1 for the default one

(* Capacity 0 would evict from an empty list.                              *)
ASSUME CapacityAssumption == Capacities \subseteq (Nat \ {0}) \cup {-1}

VARIABLES
    capacity,
    my_list,
    map,
    node,        \* the constructed nodes: address -> [key, value]
    allocator_,  \* the MemoryPool
    reply,       \* what the last get returned
    alive        \* the destructor has not run

vars == <<capacity, my_list, map, node, allocator_, reply, alive>>

Init ==
    /\ capacity \in Capacities
    /\ my_list = <<>> /\ map = <<>> /\ node = <<>>
    /\ allocator_ = EmptyPool
    /\ reply = [found |-> FALSE, value |-> NoValue]
    /\ alive = TRUE

Without(f, x) == [y \in DOMAIN f \ {x} |-> f[y]]
With(f, x, v) == [y \in DOMAIN f \cup {x} |-> IF y = x THEN v ELSE f[y]]

(* my_list.splice(my_list.begin(), my_list, it).                           *)
Splice(l, it) == <<it>> \o RemoveFirst(l, it)

(* push of a key the cache has: its node moves to the front and gets the   *)
(* value.                                                                  *)
PushKnown(k, v) ==
    /\ k \in DOMAIN map
    /\ my_list' = Splice(my_list, map[k])
    /\ node' = [node EXCEPT ![map[k]].value = v]
    /\ UNCHANGED <<map, allocator_>>

(* The cache before a new key is added: a full one gives up its last node. *)
Evicted ==
    IF capacity # -1 /\ Len(my_list) >= capacity
    THEN LET temp == Last(my_list)
         IN  [list |-> Front(my_list), map |-> Without(map, node[temp].key),
              node |-> Without(node, temp),
              pool |-> Deallocate(allocator_, temp)]
    ELSE [list |-> my_list, map |-> map, node |-> node, pool |-> allocator_]

(* Mutant of PushNew: the index keeps the key of the node given up.        *)
PushNewKeepsKey(k, v) ==
    /\ k \notin DOMAIN map
    /\ \E a \in Allocate(Evicted.pool) :
          /\ allocator_' = a.pool
          /\ node' = With(Evicted.node, a.slot, [key |-> k, value |-> v])
          /\ my_list' = <<a.slot>> \o Evicted.list
          /\ map' = With(map, k, a.slot)

PushNew(k, v) ==
    /\ k \notin DOMAIN map
    /\ \E a \in Allocate(Evicted.pool) :
          /\ allocator_' = a.pool
          /\ node' = With(Evicted.node, a.slot, [key |-> k, value |-> v])
          /\ my_list' = <<a.slot>> \o Evicted.list
          /\ map' = With(Evicted.map, k, a.slot)

push(k, v) ==
    /\ alive
    /\ PushKnown(k, v) \/ PushNew(k, v)
    /\ UNCHANGED <<capacity, reply, alive>>

(* Mutant of get: the node is not moved to the front.                      *)
GetInPlace(k) ==
    /\ alive
    /\ reply' = IF k \in DOMAIN map
                THEN [found |-> TRUE, value |-> node[map[k]].value]
                ELSE [found |-> FALSE, value |-> NoValue]
    /\ UNCHANGED <<capacity, my_list, map, node, allocator_, alive>>

get(k) ==
    /\ alive
    /\ IF k \in DOMAIN map
       THEN /\ my_list' = Splice(my_list, map[k])
            /\ reply' = [found |-> TRUE, value |-> node[map[k]].value]
       ELSE /\ reply' = [found |-> FALSE, value |-> NoValue]
            /\ UNCHANGED my_list
    /\ UNCHANGED <<capacity, map, node, allocator_, alive>>

(* The destructor: clear empties the map, destroys the nodes from the front*)
(* and hands their slots back; then the pool frees its blocks.             *)
Destructor ==
    /\ alive
    /\ alive' = FALSE
    /\ map' = <<>> /\ node' = <<>> /\ my_list' = <<>>
    /\ allocator_' = FreeBlocks(FoldLeft(Deallocate, allocator_, my_list))
    /\ UNCHANGED <<capacity, reply>>

Gone == ~alive /\ UNCHANGED vars

Next ==
    \/ \E k \in Keys : get(k) \/ \E v \in Values : push(k, v)
    \/ Destructor \/ Gone

Spec == Init /\ [][Next]_vars

-----------------------------------------------------------------------------
Slots == my_list \o allocator_.freeSlots_

(* A slot the pool gives out is inside one of its blocks, behind the link  *)
(* and aligned, and shares no byte with another slot, in use or free:      *)
(* lastSlot_ keeps allocate from the end of the block, and no slot is given*)
(* out twice.  None is lost: every slot carved from a block is in the list *)
(* or free.                                                                *)
SlotsSound ==
    alive =>
        /\ Len(Slots) = Carved(allocator_)
        /\ \A i \in DOMAIN Slots :
            /\ \E base \in ToSet(allocator_.blocks) : InBlock(Slots[i], base)
            /\ \A j \in DOMAIN Slots \ {i} : ~Overlap(Slots[i], Slots[j])

(* The index and the list agree: a key leads to its own node, every node   *)
(* can be found, and an evicted or moved node leaves no stale position.    *)
MapMatchesList ==
    /\ ToSet(my_list) = DOMAIN node
    /\ Len(my_list) = Cardinality(DOMAIN map)
    /\ \A k \in DOMAIN map : map[k] \in DOMAIN node /\ node[map[k]].key = k

(* The cache is a bounded cache: for every sequence of calls it gives the  *)
(* answers, keeps the entries and gives up the entry that BoundedCache     *)
(* gives up.                                                               *)
Abstract == INSTANCE BoundedCache WITH
    entries <- [i \in DOMAIN my_list |-> node[my_list[i]]]

Implements == Abstract!Spec

=============================================================================
