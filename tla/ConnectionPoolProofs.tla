------------------------ MODULE ConnectionPoolProofs ------------------------
(***************************************************************************)
(* Proofs about the connection pool, for any number of threads and         *)
(* connections.                                                            *)
(***************************************************************************)
EXTENDS ConnectionPool, FiniteSetTheorems, TLAPS

(* The threads that are at label l, and how many they are.                 *)
AtLabel(l) == {t \in Threads : pc[t] = l}
Count(l) == Cardinality(AtLabel(l))

(* The list holds one connection for every unit of the semaphore, one for  *)
(* every thread that took a unit and has not popped yet, and one for every *)
(* thread that pushed and has not posted yet.                              *)
Accounting ==
    /\ ~destroyed => Len(conn_list) = reserve + Count("pop") + Count("post")
    /\ destroyed => \A t \in Threads : pc[t] = "free"

(* Only a thread in "use" has a connection.                                *)
UseInv == \A t \in Threads : con[t] # NoConn => pc[t] = "use"

Inv == TypeOK /\ Accounting /\ UseInv

(* Counting the threads at a label.                                        *)
LEMMA CountType == \A l : IsFiniteSet(AtLabel(l)) /\ Count(l) \in Nat
<1> SUFFICES ASSUME NEW l PROVE IsFiniteSet(AtLabel(l)) /\ Count(l) \in Nat
  OBVIOUS
<1>1. IsFiniteSet(AtLabel(l))
  BY ThreadsAssumption, FS_Subset DEF AtLabel
<1> QED BY <1>1, FS_CardinalityType DEF Count

(* A thread that moves from one label to another changes two of the counts *)
(* by one and no other.                                                    *)
LEMMA CountMove ==
  ASSUME pc \in [Threads -> Labels], NEW t \in Threads,
         NEW from \in Labels, NEW to \in Labels, from # to,
         pc[t] = from, Goto(t, to)
  PROVE  /\ Count(from)' = Count(from) - 1
         /\ Count(to)' = Count(to) + 1
         /\ \A l \in Labels \ {from, to} : Count(l)' = Count(l)
<1>1. AtLabel(from)' = AtLabel(from) \ {t} /\ t \in AtLabel(from)
  BY DEF AtLabel, Goto
<1>2. AtLabel(to)' = AtLabel(to) \cup {t} /\ t \notin AtLabel(to)
  BY DEF AtLabel, Goto
<1>3. \A l \in Labels \ {from, to} : AtLabel(l)' = AtLabel(l)
  BY DEF AtLabel, Goto
<1>4. Count(from)' = Count(from) - 1
  BY <1>1, CountType, FS_RemoveElement DEF Count
<1>5. Count(to)' = Count(to) + 1
  BY <1>2, CountType, FS_AddElement DEF Count
<1>6. \A l \in Labels \ {from, to} : Count(l)' = Count(l)
  BY <1>3 DEF Count
<1> QED BY <1>4, <1>5, <1>6

(* A label with a thread at it has a positive count, one without has none. *)
LEMMA CountZero == \A l : Count(l) = 0 <=> AtLabel(l) = {}
BY CountType, FS_EmptySet DEF Count

(* The invariant holds initially.                                          *)
LEMMA InvInit == Init => Inv
<1> SUFFICES ASSUME Init PROVE Inv
  OBVIOUS
<1>1. Cardinality(Conns) \in Nat
  BY ConnsAssumption, FS_CardinalityType
<1>2. conn_list \in Seq(Conns) /\ Len(conn_list) = Cardinality(Conns)
  BY <1>1 DEF Init
<1>3. TypeOK
  <2>1. pc \in [Threads -> Labels]
    BY DEF Init, Labels
  <2>2. con \in [Threads -> Conns \cup {NoConn}]
    BY DEF Init
  <2>3. reserve \in Nat /\ m_free_conn \in Int /\ m_cur_conn \in Int
    BY <1>1 DEF Init
  <2>4. parked \in SUBSET Conns
    BY DEF Init
  <2>5. destroyed \in BOOLEAN
    BY DEF Init
  <2> QED BY <1>2, <2>1, <2>2, <2>3, <2>4, <2>5 DEF TypeOK
<1>4. AtLabel("pop") = {} /\ AtLabel("post") = {}
  BY DEF Init, AtLabel
<1>5. Accounting
  BY <1>1, <1>2, <1>4, CountZero DEF Init, Accounting
<1>6. UseInv
  BY DEF Init, UseInv
<1> QED BY <1>3, <1>5, <1>6 DEF Inv

(* Every step preserves the invariant.                                     *)
LEMMA InvNext == Inv /\ [Next]_vars => Inv'
<1> SUFFICES ASSUME Inv, [Next]_vars PROVE Inv'
  OBVIOUS
<1> USE DEF poolVars
<1>a. TypeOK /\ Accounting /\ UseInv
  BY DEF Inv
<1>b. Count("pop") \in Nat /\ Count("post") \in Nat
  BY CountType
<1>c. Len(conn_list) \in Nat /\ reserve \in Nat
  BY <1>a DEF TypeOK
<1>1. ASSUME NEW t \in Threads, CheckSize(t) PROVE Inv'
  <2>1. TypeOK'
    BY <1>a, <1>1 DEF CheckSize, Goto, TypeOK, Labels
  <2>2. PICK l \in {"use", "wait"} : Goto(t, l)
    BY <1>1 DEF CheckSize
  <2>3. Count("pop")' = Count("pop") /\ Count("post")' = Count("post")
    BY <1>a, <1>1, <2>2, CountMove DEF CheckSize, TypeOK, Labels
  <2>4. Accounting'
    BY <1>a, <1>1, <2>3 DEF CheckSize, Accounting
  <2>5. UseInv'
    BY <1>a, <1>1 DEF CheckSize, Goto, UseInv, TypeOK
  <2> QED BY <2>1, <2>4, <2>5 DEF Inv
<1>2. ASSUME NEW t \in Threads, SemWait(t) PROVE Inv'
  <2>1. TypeOK'
    BY <1>a, <1>2 DEF SemWait, Goto, TypeOK, Labels
  <2>2. Count("pop")' = Count("pop") + 1 /\ Count("post")' = Count("post")
    BY <1>a, <1>2, CountMove DEF SemWait, TypeOK, Labels
  <2>3. Accounting'
    <3>1. ~destroyed /\ ~destroyed'
      BY <1>a, <1>2 DEF SemWait, Accounting
    <3>2. Len(conn_list') = Len(conn_list) /\ reserve' = reserve - 1
      BY <1>2 DEF SemWait
    <3>3. Len(conn_list) = reserve + Count("pop") + Count("post")
      BY <1>a, <3>1 DEF Accounting
    <3>4. Len(conn_list') = reserve' + Count("pop")' + Count("post")'
      BY <1>b, <1>c, <2>2, <3>2, <3>3
    <3> QED BY <3>1, <3>4 DEF Accounting
  <2>4. UseInv'
    BY <1>a, <1>2 DEF SemWait, Goto, UseInv, TypeOK
  <2> QED BY <2>1, <2>3, <2>4 DEF Inv
<1>3. ASSUME NEW t \in Threads, PopFront(t) PROVE Inv'
  <2>1. /\ Head(conn_list) \in Conns /\ Tail(conn_list) \in Seq(Conns)
        /\ Len(Tail(conn_list)) = Len(conn_list) - 1
    BY <1>a, <1>3 DEF PopFront, TypeOK
  <2>2. TypeOK'
    BY <1>a, <1>3, <2>1 DEF PopFront, Goto, TypeOK, Labels
  <2>3. Count("pop")' = Count("pop") - 1 /\ Count("post")' = Count("post")
    BY <1>a, <1>3, CountMove DEF PopFront, TypeOK, Labels
  <2>4. Accounting'
    <3>1. ~destroyed /\ ~destroyed'
      BY <1>a, <1>3 DEF PopFront, Accounting
    <3>2. Len(conn_list') = Len(conn_list) - 1 /\ reserve' = reserve
      BY <1>3, <2>1 DEF PopFront
    <3>3. Len(conn_list) = reserve + Count("pop") + Count("post")
      BY <1>a, <3>1 DEF Accounting
    <3>4. Len(conn_list') = reserve' + Count("pop")' + Count("post")'
      BY <1>b, <1>c, <2>3, <3>2, <3>3
    <3> QED BY <3>1, <3>4 DEF Accounting
  <2>5. UseInv'
    BY <1>a, <1>3 DEF PopFront, Goto, UseInv, TypeOK
  <2> QED BY <2>2, <2>4, <2>5 DEF Inv
<1>4. ASSUME NEW t \in Threads, Park(t) PROVE Inv'
  <2>1. TypeOK'
    BY <1>a, <1>4 DEF Park, Goto, TypeOK, Labels
  <2>2. Count("pop")' = Count("pop") /\ Count("post")' = Count("post")
    BY <1>a, <1>4, CountMove DEF Park, TypeOK, Labels
  <2>3. Accounting' /\ UseInv'
    BY <1>a, <1>4, <2>2 DEF Park, Goto, Accounting, UseInv, TypeOK
  <2> QED BY <2>1, <2>3 DEF Inv
<1>5. ASSUME NEW t \in Threads, NEW c \in Conns, Unpark(t, c) PROVE Inv'
  <2>1. TypeOK'
    BY <1>a, <1>5 DEF Unpark, Goto, TypeOK, Labels
  <2>2. Count("pop")' = Count("pop") /\ Count("post")' = Count("post")
    BY <1>a, <1>5, CountMove DEF Unpark, TypeOK, Labels
  <2>3. Accounting' /\ UseInv'
    BY <1>a, <1>5, <2>2 DEF Unpark, Goto, Accounting, UseInv, TypeOK
  <2> QED BY <2>1, <2>3 DEF Inv
<1>6. ASSUME NEW t \in Threads, ReleaseNull(t) PROVE Inv'
  <2>1. TypeOK'
    BY <1>a, <1>6 DEF ReleaseNull, Goto, TypeOK, Labels
  <2>2. Count("pop")' = Count("pop") /\ Count("post")' = Count("post")
    BY <1>a, <1>6, CountMove DEF ReleaseNull, TypeOK, Labels
  <2>3. Accounting' /\ UseInv'
    BY <1>a, <1>6, <2>2 DEF ReleaseNull, Goto, Accounting, UseInv, TypeOK
  <2> QED BY <2>1, <2>3 DEF Inv
<1>7. ASSUME NEW t \in Threads, PushBack(t) PROVE Inv'
  <2>1. /\ Append(conn_list, con[t]) \in Seq(Conns)
        /\ Len(Append(conn_list, con[t])) = Len(conn_list) + 1
    BY <1>a, <1>7 DEF PushBack, TypeOK
  <2>2. TypeOK'
    BY <1>a, <1>7, <2>1 DEF PushBack, Goto, TypeOK, Labels
  <2>3. Count("pop")' = Count("pop") /\ Count("post")' = Count("post") + 1
    BY <1>a, <1>7, CountMove DEF PushBack, TypeOK, Labels
  <2>4. Accounting'
    <3>1. ~destroyed /\ ~destroyed'
      BY <1>a, <1>7 DEF PushBack, Accounting
    <3>2. Len(conn_list') = Len(conn_list) + 1 /\ reserve' = reserve
      BY <1>7, <2>1 DEF PushBack
    <3>3. Len(conn_list) = reserve + Count("pop") + Count("post")
      BY <1>a, <3>1 DEF Accounting
    <3>4. Len(conn_list') = reserve' + Count("pop")' + Count("post")'
      BY <1>b, <1>c, <2>3, <3>2, <3>3
    <3> QED BY <3>1, <3>4 DEF Accounting
  <2>5. UseInv'
    BY <1>a, <1>7 DEF PushBack, Goto, UseInv, TypeOK
  <2> QED BY <2>2, <2>4, <2>5 DEF Inv
<1>8. ASSUME NEW t \in Threads, SemPost(t) PROVE Inv'
  <2>1. TypeOK'
    BY <1>a, <1>8 DEF SemPost, Goto, TypeOK, Labels
  <2>2. Count("pop")' = Count("pop") /\ Count("post")' = Count("post") - 1
    BY <1>a, <1>8, CountMove DEF SemPost, TypeOK, Labels
  <2>3. Accounting'
    <3>1. ~destroyed /\ ~destroyed'
      BY <1>a, <1>8 DEF SemPost, Accounting
    <3>2. Len(conn_list') = Len(conn_list) /\ reserve' = reserve + 1
      BY <1>8 DEF SemPost
    <3>3. Len(conn_list) = reserve + Count("pop") + Count("post")
      BY <1>a, <3>1 DEF Accounting
    <3>4. Len(conn_list') = reserve' + Count("pop")' + Count("post")'
      BY <1>b, <1>c, <2>2, <3>2, <3>3
    <3> QED BY <3>1, <3>4 DEF Accounting
  <2>4. UseInv'
    BY <1>a, <1>8 DEF SemPost, Goto, UseInv, TypeOK
  <2> QED BY <2>1, <2>3, <2>4 DEF Inv
<1>9. ASSUME DestroyPool PROVE Inv'
  BY <1>a, <1>9 DEF DestroyPool, Inv, TypeOK, Accounting, UseInv
<1>10. ASSUME UNCHANGED vars PROVE Inv'
  BY <1>a, <1>10 DEF vars, Inv, TypeOK, Accounting, UseInv, Count, AtLabel
<1> QED
  BY <1>1, <1>2, <1>3, <1>4, <1>5, <1>6, <1>7, <1>8, <1>9, <1>10
     DEF Next, Step, Ended

(* Every connection is in the list once, at first.                         *)
LEMMA OneUserInit == Init => OneUser
BY DEF Init, OneUser

(* No connection is in two places at once: the list, the hands of a thread,*)
(* a suspended request.  Who has what changes in one critical section.     *)
LEMMA OneUserNext == Inv /\ OneUser /\ [Next]_vars => OneUser'
<1> SUFFICES ASSUME Inv, OneUser, [Next]_vars PROVE OneUser'
  OBVIOUS
<1> USE ConnsAssumption DEF poolVars
<1>a. TypeOK /\ UseInv
  BY DEF Inv
<1>1. ASSUME NEW t \in Threads,
             CheckSize(t) \/ SemWait(t) \/ ReleaseNull(t) \/ SemPost(t)
      PROVE  OneUser'
  BY <1>1 DEF CheckSize, SemWait, ReleaseNull, SemPost, OneUser
<1>2. ASSUME NEW t \in Threads, PopFront(t) PROVE OneUser'
  <2>1. /\ Len(conn_list) \in Nat \ {0} /\ DOMAIN conn_list = 1..Len(conn_list)
        /\ Head(conn_list) = conn_list[1] /\ conn_list[1] \in Conns
    BY <1>a, <1>2 DEF PopFront, TypeOK
  <2>2. /\ DOMAIN conn_list' = 1..(Len(conn_list) - 1)
        /\ \A i \in DOMAIN conn_list' : /\ conn_list'[i] = conn_list[i + 1]
                                        /\ i + 1 \in DOMAIN conn_list
    BY <1>a, <1>2, <2>1 DEF PopFront, TypeOK
  <2>3. /\ con' = [con EXCEPT ![t] = conn_list[1]] /\ parked' = parked
        /\ con[t] = NoConn
    BY <1>a, <1>2, <2>1 DEF PopFront, UseInv
  <2>4. \A i, j \in DOMAIN conn_list' : conn_list'[i] = conn_list'[j] => i = j
    BY <2>1, <2>2 DEF OneUser
  <2>5. \A i \in DOMAIN conn_list' : conn_list'[i] \notin parked'
    BY <2>2, <2>3 DEF OneUser
  <2>6. \A i \in DOMAIN conn_list' : conn_list'[i] # conn_list[1]
    BY <2>1, <2>2 DEF OneUser
  <2>7. conn_list[1] \notin parked /\ \A u \in Threads : con[u] # conn_list[1]
    BY <1>a, <2>1 DEF OneUser, TypeOK
  <2>8. ASSUME NEW u \in Threads, con'[u] # NoConn
        PROVE  /\ con'[u] \notin parked'
               /\ \A i \in DOMAIN conn_list' : conn_list'[i] # con'[u]
               /\ \A v \in Threads \ {u} : con'[v] # con'[u]
    BY <1>a, <2>2, <2>3, <2>6, <2>7, <2>8 DEF OneUser, TypeOK
  <2> QED BY <2>4, <2>5, <2>8 DEF OneUser
<1>3. ASSUME NEW t \in Threads, Park(t) PROVE OneUser'
  BY <1>a, <1>3 DEF Park, OneUser, TypeOK
<1>4. ASSUME NEW t \in Threads, NEW c \in Conns, Unpark(t, c) PROVE OneUser'
  <2>1. con[t] = NoConn
    BY <1>a, <1>4 DEF Unpark, UseInv
  <2> QED BY <1>a, <1>4, <2>1 DEF Unpark, OneUser, TypeOK
<1>5. ASSUME NEW t \in Threads, PushBack(t) PROVE OneUser'
  <2>1. /\ DOMAIN conn_list = 1..Len(conn_list) /\ Len(conn_list) \in Nat
        /\ DOMAIN conn_list' = 1..(Len(conn_list) + 1)
        /\ \A i \in DOMAIN conn_list : conn_list'[i] = conn_list[i]
        /\ conn_list'[Len(conn_list) + 1] = con[t]
    BY <1>a, <1>5 DEF PushBack, TypeOK
  <2>2. \A i \in DOMAIN conn_list' : i \in DOMAIN conn_list
                                    \/ i = Len(conn_list) + 1
    BY <2>1
  <2>3. \A i \in DOMAIN conn_list : conn_list[i] # con[t]
    BY <1>5 DEF PushBack, OneUser
  <2>4. con' = [con EXCEPT ![t] = NoConn] /\ parked' = parked
    BY <1>5 DEF PushBack
  <2>5. \A i, j \in DOMAIN conn_list' : conn_list'[i] = conn_list'[j] => i = j
    BY <2>1, <2>2, <2>3 DEF OneUser
  <2>6. \A i \in DOMAIN conn_list' : conn_list'[i] \notin parked'
    BY <1>5, <2>1, <2>2, <2>4 DEF OneUser, PushBack
  <2>7. ASSUME NEW u \in Threads, con'[u] # NoConn
        PROVE  /\ con'[u] \notin parked'
               /\ \A i \in DOMAIN conn_list' : conn_list'[i] # con'[u]
               /\ \A v \in Threads \ {u} : con'[v] # con'[u]
    BY <1>a, <1>5, <2>1, <2>2, <2>4, <2>7 DEF OneUser, TypeOK, PushBack
  <2> QED BY <2>5, <2>6, <2>7 DEF OneUser
<1>6. ASSUME DestroyPool PROVE OneUser'
  BY <1>6 DEF DestroyPool, OneUser
<1>7. ASSUME UNCHANGED vars PROVE OneUser'
  BY <1>7 DEF vars, OneUser
<1> QED BY <1>1, <1>2, <1>3, <1>4, <1>5, <1>6, <1>7 DEF Next, Step, Ended

(* A thread that took a unit of the semaphore is one of those the list has *)
(* a connection for.                                                       *)
LEMMA PopSafe == Inv => NeverPopsEmpty
<1> SUFFICES ASSUME Inv, NEW t \in Threads, pc[t] = "pop"
             PROVE  conn_list # <<>>
  BY DEF NeverPopsEmpty
<1>1. Count("pop") # 0
  BY CountZero DEF AtLabel
<1>2. ~destroyed
  BY DEF Inv, Accounting
<1>3. Len(conn_list) = reserve + Count("pop") + Count("post")
  BY <1>2 DEF Inv, Accounting
<1>4. reserve \in Nat /\ Count("pop") \in Nat /\ Count("post") \in Nat
  BY CountType DEF Inv, TypeOK
<1>5. Len(conn_list) # 0
  BY <1>1, <1>3, <1>4
<1> QED BY <1>5

(* Nobody waits at first.                                                  *)
LEMMA BlockedInit == Init => NotAllBlocked
BY ThreadsAssumption DEF Init, NotAllBlocked, Blocked

(* The last thread that could still wait does not: no unit is missing then,*)
(* so that the list it looks at is empty.                                  *)
LEMMA BlockedNext == Inv /\ NotAllBlocked /\ [Next]_vars => NotAllBlocked'
<1> SUFFICES ASSUME Inv, NotAllBlocked, [Next]_vars PROVE NotAllBlocked'
  OBVIOUS
<1> USE DEF poolVars
<1>1. ASSUME NEW t \in Threads, CheckSize(t) PROVE NotAllBlocked'
  <2> SUFFICES ASSUME \A u \in Threads : pc'[u] = "wait", reserve' = 0
               PROVE  FALSE
    BY DEF NotAllBlocked, Blocked
  <2>1. Len(conn_list) # 0 /\ reserve = 0 /\ ~destroyed
    BY <1>1 DEF CheckSize, Goto, Inv, TypeOK
  <2>2. \A u \in Threads : pc[u] \notin {"pop", "post"}
    BY <1>1 DEF CheckSize, Goto, Inv, TypeOK
  <2>3. Count("pop") = 0 /\ Count("post") = 0
    BY <2>2, CountZero DEF AtLabel
  <2> QED BY <2>1, <2>3 DEF Inv, Accounting
<1>2. ASSUME NEW t \in Threads, NEW l \in Labels \ {"wait"}, Goto(t, l)
      PROVE  NotAllBlocked'
  BY <1>2 DEF Goto, NotAllBlocked, Blocked, Inv, TypeOK
<1>3. ASSUME NEW t \in Threads, Step(t), ~CheckSize(t) PROVE NotAllBlocked'
  BY <1>2, <1>3 DEF Step, SemWait, PopFront, Park, Unpark, ReleaseNull,
                    PushBack, SemPost, Labels
<1>4. ASSUME DestroyPool \/ UNCHANGED vars PROVE NotAllBlocked'
  BY <1>4 DEF DestroyPool, vars, NotAllBlocked, Blocked
<1> QED BY <1>1, <1>3, <1>4 DEF Next, Ended

-----------------------------------------------------------------------------
(* Every variable keeps its type.                                          *)
THEOREM TypeCorrect == Spec => []TypeOK
<1>1. Spec => []Inv
  BY InvInit, InvNext, PTL DEF Spec
<1>2. Inv => TypeOK
  BY DEF Inv
<1> QED BY <1>1, <1>2, PTL

(* get_connection never calls front() on an empty list, for any number of  *)
(* threads and connections.                                                *)
THEOREM NoEmptyPop == Spec => []NeverPopsEmpty
<1>1. Spec => []Inv
  BY InvInit, InvNext, PTL DEF Spec
<1> QED BY <1>1, PopSafe, PTL

(* At no time are all threads blocked in sem_wait.                         *)
THEOREM NoPoolDeadlock == Spec => []NotAllBlocked
<1>1. Spec => []Inv
  BY InvInit, InvNext, PTL DEF Spec
<1> QED BY <1>1, BlockedInit, BlockedNext, PTL DEF Spec

(* A connection is never in use by two requests, nor in use and free, for  *)
(* any number of threads and connections.                                  *)
THEOREM ExclusiveUse == Spec => []OneUser
<1>1. Spec => []Inv
  BY InvInit, InvNext, PTL DEF Spec
<1> QED BY <1>1, OneUserInit, OneUserNext, PTL DEF Spec

=============================================================================
