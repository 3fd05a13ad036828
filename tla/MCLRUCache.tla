----------------------------- MODULE MCLRUCache -----------------------------
(* Capacities for model checking LRUCache: none, one, and some.            *)
EXTENDS LRUCache

MCCapacities == {-1, 1, 3}

=============================================================================
