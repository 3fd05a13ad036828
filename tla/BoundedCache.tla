---------------------------- MODULE BoundedCache ----------------------------
(***************************************************************************)
(* What a user of LRUCache may rely on: the entries in the order of their  *)
(* last use, at most `capacity` of them, the least recently used one given *)
(* up first.  No memory and no index here: module LRUCache implements this.*)
(***************************************************************************)
EXTENDS Integers, Sequences, SequencesExt

CONSTANTS Keys, Values, NoValue

VARIABLES
    capacity,   \* -1: no bound
    entries,    \* [key, value] records, the most recently used first
    reply       \* what the last call returned: [found, value]

vars == <<capacity, entries, reply>>

Has(k) == \E i \in DOMAIN entries : entries[i].key = k
Entry(k) == entries[CHOOSE i \in DOMAIN entries : entries[i].key = k]
Others(k) == RemoveFirstMatch(entries, LAMBDA e : e.key = k)
Bounded(s) == IF capacity = -1 \/ Len(s) <= capacity
              THEN s ELSE SubSeq(s, 1, capacity)

Init ==
    /\ capacity \in Nat \cup {-1} /\ entries = <<>>
    /\ reply = [found |-> FALSE, value |-> NoValue]

Put(k, v) ==
    /\ entries' = Bounded(<<[key |-> k, value |-> v]>> \o Others(k))
    /\ UNCHANGED <<capacity, reply>>

Find(k) ==
    /\ IF Has(k)
       THEN /\ entries' = <<Entry(k)>> \o Others(k)
            /\ reply' = [found |-> TRUE, value |-> Entry(k).value]
       ELSE /\ reply' = [found |-> FALSE, value |-> NoValue]
            /\ UNCHANGED entries
    /\ UNCHANGED capacity

Empty == entries' = <<>> /\ UNCHANGED <<capacity, reply>>

Next ==
    \/ \E k \in Keys : Find(k) \/ \E v \in Values : Put(k, v)
    \/ Empty

Spec == Init /\ [][Next]_vars

=============================================================================
