--------------------------- MODULE ConnectionPool ---------------------------
(***************************************************************************)
(* Connection_pool, its semaphore Sem and connectionRAII: the pool of MySQL*)
(* connections shared by the scheduler threads.                            *)
(*                                                                         *)
(* A request takes a connection at the top of a turn of handleClient and   *)
(* gives it back at its end.  In between, write() may suspend the fiber    *)
(* with the connection, and any thread may resume it: the fiber is parked  *)
(* meanwhile.  sem_wait is not hooked, it blocks the thread.  Every        *)
(* critical section of the pool's lock is one step.                        *)
(***************************************************************************)
EXTENDS Integers, Sequences, FiniteSets

CONSTANTS
    Threads,    \* the threads of the scheduler
    Conns,      \* the connections init() opened
    NoConn      \* nullptr

ASSUME ThreadsAssumption == IsFiniteSet(Threads) /\ Threads # {}
ASSUME ConnsAssumption == IsFiniteSet(Conns) /\ NoConn \notin Conns

VARIABLES
    conn_list,  \* the connections in the pool
    reserve,    \* value of the semaphore
    m_free_conn,
    m_cur_conn,
    pc,         \* where each thread is
    con,        \* the connection of the request each thread works on
    parked,     \* connections of suspended requests
    destroyed   \* ~Connection_pool has run

vars == <<conn_list, reserve, m_free_conn, m_cur_conn, pc, con, parked,
          destroyed>>
poolVars == <<conn_list, m_free_conn, m_cur_conn>>

Goto(t, l) == pc' = [pc EXCEPT ![t] = l]

(* init: every connection is pushed, reserve = Sem(m_free_conn).           *)
Init ==
    /\ conn_list \in [1..Cardinality(Conns) -> Conns]
    /\ \A i, j \in DOMAIN conn_list : conn_list[i] = conn_list[j] => i = j
    /\ reserve = Cardinality(Conns)
    /\ m_free_conn = Cardinality(Conns) /\ m_cur_conn = 0
    /\ pc = [t \in Threads |-> "free"]
    /\ con = [t \in Threads |-> NoConn]
    /\ parked = {}
    /\ destroyed = FALSE

-----------------------------------------------------------------------------
(* Mutant of CheckSize: the size is not looked at.                         *)
CheckNothing(t) ==
    /\ pc[t] = "free" /\ ~destroyed
    /\ Goto(t, "wait")
    /\ UNCHANGED <<poolVars, reserve, con, parked, destroyed>>

(* get_connection: the unlocked look at the size; nullptr when it is zero. *)
CheckSize(t) ==
    /\ pc[t] = "free" /\ ~destroyed
    /\ Goto(t, IF Len(conn_list) = 0 THEN "use" ELSE "wait")
    /\ UNCHANGED <<poolVars, reserve, con, parked, destroyed>>

(* Mutants of SemWait: the semaphore does not block; sem_wait fails and the*)
(* failure is ignored.                                                     *)
SemWaitNoBlock(t) ==
    /\ pc[t] = "wait"
    /\ reserve' = reserve - 1
    /\ Goto(t, "pop")
    /\ UNCHANGED <<poolVars, con, parked, destroyed>>

SemWaitFails(t) ==
    /\ pc[t] = "wait"
    /\ reserve' = IF reserve > 0 THEN reserve - 1 ELSE 0
    /\ Goto(t, "pop")
    /\ UNCHANGED <<poolVars, con, parked, destroyed>>

(* get_connection: reserve.wait().                                         *)
SemWait(t) ==
    /\ pc[t] = "wait"
    /\ reserve > 0
    /\ reserve' = reserve - 1
    /\ Goto(t, "pop")
    /\ UNCHANGED <<poolVars, con, parked, destroyed>>

(* Mutant of PopFront: the connection stays in the list.                   *)
PeekFront(t) ==
    /\ pc[t] = "pop"
    /\ con' = [con EXCEPT ![t] = Head(conn_list)]
    /\ m_free_conn' = m_free_conn - 1
    /\ m_cur_conn' = m_cur_conn + 1
    /\ Goto(t, "use")
    /\ UNCHANGED <<conn_list, reserve, parked, destroyed>>

(* get_connection: the critical section.  front() of an empty list would be*)
(* undefined: NeverPopsEmpty is about this step.                           *)
PopFront(t) ==
    /\ pc[t] = "pop"
    /\ conn_list # <<>>
    /\ con' = [con EXCEPT ![t] = Head(conn_list)]
    /\ conn_list' = Tail(conn_list)
    /\ m_free_conn' = m_free_conn - 1
    /\ m_cur_conn' = m_cur_conn + 1
    /\ Goto(t, "use")
    /\ UNCHANGED <<reserve, parked, destroyed>>

(* write() would block: the fiber yields with its connection.              *)
Park(t) ==
    /\ pc[t] = "use" /\ con[t] # NoConn
    /\ parked' = parked \cup {con[t]}
    /\ con' = [con EXCEPT ![t] = NoConn]
    /\ Goto(t, "free")
    /\ UNCHANGED <<poolVars, reserve, destroyed>>

(* A thread resumes a suspended request.                                   *)
Unpark(t, c) ==
    /\ pc[t] = "free" /\ ~destroyed
    /\ c \in parked
    /\ parked' = parked \ {c}
    /\ con' = [con EXCEPT ![t] = c]
    /\ Goto(t, "use")
    /\ UNCHANGED <<poolVars, reserve, destroyed>>

(* ~connectionRAII without a connection: release_connection returns false. *)
ReleaseNull(t) ==
    /\ pc[t] = "use" /\ con[t] = NoConn
    /\ Goto(t, "free")
    /\ UNCHANGED <<poolVars, reserve, con, parked, destroyed>>

(* release_connection: the critical section ...                            *)
PushBack(t) ==
    /\ pc[t] = "use" /\ con[t] # NoConn
    /\ conn_list' = Append(conn_list, con[t])
    /\ m_free_conn' = m_free_conn + 1
    /\ m_cur_conn' = m_cur_conn - 1
    /\ con' = [con EXCEPT ![t] = NoConn]
    /\ Goto(t, "post")
    /\ UNCHANGED <<reserve, parked, destroyed>>

(* ... and reserve.post().                                                 *)
SemPost(t) ==
    /\ pc[t] = "post"
    /\ reserve' = reserve + 1
    /\ Goto(t, "free")
    /\ UNCHANGED <<poolVars, con, parked, destroyed>>

(* ~Connection_pool, when the threads have ended: destroy_pool closes what *)
(* is in the list.                                                         *)
DestroyPool ==
    /\ ~destroyed
    /\ \A t \in Threads : pc[t] = "free"
    /\ destroyed' = TRUE
    /\ conn_list' = <<>>
    /\ IF conn_list = <<>> THEN UNCHANGED <<m_free_conn, m_cur_conn>>
                           ELSE m_free_conn' = 0 /\ m_cur_conn' = 0
    /\ UNCHANGED <<reserve, pc, con, parked>>

Step(t) ==
    \/ CheckSize(t) \/ SemWait(t) \/ PopFront(t)
    \/ Park(t) \/ \E c \in Conns : Unpark(t, c)
    \/ ReleaseNull(t) \/ PushBack(t) \/ SemPost(t)

Ended == destroyed /\ UNCHANGED vars

Next == (\E t \in Threads : Step(t)) \/ DestroyPool \/ Ended

Spec == Init /\ [][Next]_vars

-----------------------------------------------------------------------------
Labels == {"free", "wait", "pop", "use", "post"}

(* Every variable has its type.                                            *)
TypeOK ==
    /\ conn_list \in Seq(Conns)
    /\ reserve \in Nat /\ m_free_conn \in Int /\ m_cur_conn \in Int
    /\ pc \in [Threads -> Labels]
    /\ con \in [Threads -> Conns \cup {NoConn}]
    /\ parked \in SUBSET Conns
    /\ destroyed \in BOOLEAN

(* A thread that got past the semaphore finds a connection in the list,    *)
(* although the semaphore and the list are updated one after the other.    *)
NeverPopsEmpty ==
    \A t \in Threads : pc[t] = "pop" => conn_list # <<>>

(* A connection is in the list, or used by one thread, or held by one      *)
(* suspended request, and never in two of these places.                    *)
OneUser ==
    /\ \A i, j \in DOMAIN conn_list : conn_list[i] = conn_list[j] => i = j
    /\ \A i \in DOMAIN conn_list : conn_list[i] \notin parked
    /\ \A t \in Threads : con[t] # NoConn =>
          /\ con[t] \notin parked
          /\ \A i \in DOMAIN conn_list : conn_list[i] # con[t]
          /\ \A u \in Threads \ {t} : con[u] # con[t]

Blocked(t) == pc[t] = "wait" /\ reserve = 0

(* Never are all threads blocked in sem_wait: the holders of the           *)
(* connections may all be suspended fibers, which need a thread to run and *)
(* give their connection back.  The unlocked look at the size is what      *)
(* prevents it.                                                            *)
NotAllBlocked == \E t \in Threads : ~Blocked(t)

=============================================================================
