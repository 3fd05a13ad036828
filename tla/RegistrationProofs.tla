-------------------------- MODULE RegistrationProofs --------------------------
(***************************************************************************)
(* Proofs about registration, login and the connection pool together, for  *)
(* any number of threads, connections, names, requests and restarts.       *)
(***************************************************************************)
EXTENDS Registration, ConnectionPoolProofs

Rows == [name : Names \cup {""}, passwd : Passwords \cup {""}]
Pages == {"", "registerError", "log", "welcome", "logError"}

ReqType == [name : Names \cup {""}, passwd : Passwords \cup {""},
            page : Pages, known : BOOLEAN]

(* The variables that are added to the pool's have their types.            *)
RegType ==
    /\ user \in Seq(Rows)
    /\ m_lock \in Threads \cup {NoThread}
    /\ at \in [Threads -> {"new", "lock", "query", "push", "done"}]
    /\ req \in [Threads -> ReqType]

(* m_lock is held between the INSERT and the push, by one thread.          *)
LockInv == \A t \in Threads : at[t] \in {"query", "push"} <=> m_lock = t

(* do_request runs only on a thread that works on a request.               *)
WorkInv == \A t \in Threads : at[t] # "new" => pc[t] = "use"

(* An INSERT that did not fail is in the table.                            *)
InsertedInv ==
    \A t \in Threads : at[t] = "push" /\ req[t].page = ""
                         => req[t].name \in NamesOf(user)

(* The cache knows every name that was acknowledged.                       *)
AckedCached == acked \subseteq DOMAIN users

RegInv ==
    /\ RegType /\ LockInv /\ WorkInv /\ InsertedInv /\ AckedCached
    /\ CacheCoversTable /\ AcknowledgedDurable /\ NoReRegistration

-----------------------------------------------------------------------------
(* What initmysql_result loads has the names of the table.                 *)
LEMMA LoadedNames == \A rows : DOMAIN Loaded(rows) = NamesOf(rows)
BY DEF Loaded

(* An INSERT adds one name.                                                *)
LEMMA AppendNames ==
  ASSUME NEW rows \in Seq(Rows), NEW r \in Rows
  PROVE  NamesOf(Append(rows, r)) = NamesOf(rows) \cup {r.name}
<1> DEFINE s == Append(rows, r)
<1>1. /\ DOMAIN rows = 1..Len(rows) /\ Len(rows) \in Nat
      /\ DOMAIN s = 1..(Len(rows) + 1)
      /\ \A i \in 1..Len(rows) : s[i] = rows[i]
      /\ s[Len(rows) + 1] = r
  OBVIOUS
<1> HIDE DEF s
<1>2. 1..(Len(rows) + 1) = 1..Len(rows) \cup {Len(rows) + 1}
  BY <1>1
<1>3. NamesOf(s) = {s[i].name : i \in 1..Len(rows)} \cup {r.name}
  BY <1>1, <1>2 DEF NamesOf
<1>4. NamesOf(rows) = {s[i].name : i \in 1..Len(rows)}
  BY <1>1 DEF NamesOf
<1> QED BY <1>3, <1>4 DEF s

(* The page of a request changes, and nothing else of it.                  *)
LEMMA PageSets ==
  ASSUME RegType, NEW t \in Threads, NEW p \in Pages, Page(t, p)
  PROVE  /\ req' \in [Threads -> ReqType]
         /\ req'[t].page = p /\ req'[t].name = req[t].name
         /\ req'[t].known = req[t].known
         /\ \A u \in Threads \ {t} : req'[u] = req[u]
<1> DEFINE r == [req[t] EXCEPT !.page = p]
<1>1. req[t] \in ReqType
  BY DEF RegType
<1>2. /\ r \in ReqType /\ r.page = p /\ r.name = req[t].name
      /\ r.known = req[t].known
  BY <1>1 DEF ReqType
<1>3. req' = [req EXCEPT ![t] = r]
  BY DEF Page
<1> HIDE DEF r
<1> QED BY <1>2, <1>3 DEF RegType

(* The pool's part of a step is a step of the pool, or its start in a new  *)
(* process.                                                                *)
LEMMA PoolStep == [RegNext]_allVars => [Next]_vars \/ PoolStarts
<1> SUFFICES ASSUME RegNext \/ UNCHANGED allVars
             PROVE  [Next]_vars \/ PoolStarts
  OBVIOUS
<1>1. ASSUME NEW t \in Threads, RegStep(t) PROVE [Next]_vars
  <2>1. Step(t) \/ UNCHANGED vars
    BY <1>1 DEF RegStep, Acquire, EndTurn, Resume, Register, Login,
                OtherRequest, Working, Lock, Insert, InsertFails, PushUser,
                Step
  <2> QED BY <2>1 DEF Next
<1> QED BY <1>1 DEF RegNext, Restart, Next, allVars

(* A new process starts the pool the way the first one did.                *)
LEMMA PoolStartsInit == PoolStarts => Init'
BY DEF PoolStarts, Init

PoolInv == Inv /\ OneUser /\ NotAllBlocked

(* The pool's invariants hold through restarts.                            *)
LEMMA PoolAlways == RegSpec => []PoolInv
<1>1. Init => PoolInv
  BY InvInit, OneUserInit, BlockedInit DEF PoolInv
<1>2. PoolInv /\ [Next]_vars => PoolInv'
  BY InvNext, OneUserNext, BlockedNext DEF PoolInv
<1>3. Init' => PoolInv'
  BY <1>1, PTL
<1>4. PoolInv /\ [RegNext]_allVars => PoolInv'
  BY <1>2, <1>3, PoolStep, PoolStartsInit
<1>5. RegInit => PoolInv
  BY <1>1 DEF RegInit
<1> QED BY <1>4, <1>5, PTL DEF RegSpec

-----------------------------------------------------------------------------
(* The invariant holds initially.                                          *)
LEMMA RegInvInit == RegInit => RegInv
<1> SUFFICES ASSUME RegInit PROVE RegInv
  OBVIOUS
<1>1. NamesOf(user) = {}
  BY DEF RegInit, NamesOf
<1>2. RegType
  <2>1. NoReq \in ReqType
    BY DEF NoReq, ReqType, Pages
  <2> QED BY <2>1 DEF RegInit, RegType
<1> QED
  BY <1>1, <1>2, NoThreadAssumption
     DEF RegInit, RegInv, LockInv, WorkInv, InsertedInv, AckedCached,
         CacheCoversTable, AcknowledgedDurable, NoReRegistration, NoReq

(* Every step preserves the invariant.                                     *)
LEMMA RegInvNext == TypeOK /\ RegInv /\ [RegNext]_allVars => RegInv'
<1> SUFFICES ASSUME TypeOK, RegInv, [RegNext]_allVars PROVE RegInv'
  OBVIOUS
<1> USE NoThreadAssumption DEF regVars
<1>a. /\ RegType /\ LockInv /\ WorkInv /\ InsertedInv /\ AckedCached
      /\ CacheCoversTable /\ AcknowledgedDurable /\ NoReRegistration
  BY DEF RegInv
<1>b. NoReq \in ReqType
  BY DEF NoReq, ReqType, Pages
<1>p. pc \in [Threads -> Labels]
  BY DEF TypeOK
(* A step of thread t that has not the lock and does not take it, and that *)
(* leaves the table, the cache and the acknowledged names alone.           *)
<1>c. ASSUME NEW t \in Threads, NEW l \in {"new", "lock", "done"},
             at[t] \in {"new", "lock", "done"}, Goes(t, l),
             UNCHANGED <<user, users, m_lock, acked>>,
             \A u \in Threads \ {t} : req'[u] = req[u] /\ pc'[u] = pc[u],
             req' \in [Threads -> ReqType],
             l # "new" => pc'[t] = "use",
             req'[t].known => req'[t].page = "registerError"
      PROVE  RegInv'
  <2>1. at' \in [Threads -> {"new", "lock", "query", "push", "done"}]
        /\ at'[t] = l /\ \A u \in Threads \ {t} : at'[u] = at[u]
    BY <1>a, <1>c DEF RegType, Goes
  <2>2. RegType'
    BY <1>a, <1>c, <2>1 DEF RegType
  <2>3. m_lock # t
    BY <1>a, <1>c DEF LockInv
  <2>4. LockInv'
    BY <1>a, <1>c, <2>1, <2>3 DEF LockInv
  <2>5. WorkInv'
    BY <1>a, <1>c, <2>1 DEF WorkInv
  <2>6. InsertedInv'
    BY <1>a, <1>c, <2>1 DEF InsertedInv
  <2>7. AckedCached' /\ AcknowledgedDurable'
    BY <1>a, <1>c DEF AckedCached, AcknowledgedDurable
  <2>8. CacheCoversTable'
    BY <1>a, <1>c, <2>1, <2>3 DEF CacheCoversTable
  <2>9. NoReRegistration'
    BY <1>a, <1>c DEF NoReRegistration
  <2> QED BY <2>2, <2>4, <2>5, <2>6, <2>7, <2>8, <2>9 DEF RegInv
<1>d. ASSUME NEW t \in Threads, UNCHANGED regVars, pc[t] # "use" \/ at[t] = "new",
             \A u \in Threads \ {t} : pc'[u] = pc[u]
      PROVE  RegInv'
  BY <1>a, <1>d DEF RegInv, RegType, LockInv, WorkInv, InsertedInv, AckedCached,
                    CacheCoversTable, AcknowledgedDurable, NoReRegistration
<1>1. ASSUME NEW t \in Threads, Acquire(t) \/ (SemPost(t) /\ UNCHANGED regVars)
      PROVE  RegInv'
  <2>1. pc[t] # "use" /\ \A u \in Threads \ {t} : pc'[u] = pc[u]
    BY <1>p, <1>1 DEF Acquire, CheckSize, SemWait, PopFront, SemPost, Goto
  <2> QED BY <1>1, <1>d, <2>1 DEF Acquire
<1>2. ASSUME NEW t \in Threads, EndTurn(t) PROVE RegInv'
  <2>1. \A u \in Threads \ {t} : pc'[u] = pc[u]
    BY <1>p, <1>2 DEF EndTurn, Park, ReleaseNull, PushBack, Goto
  <2>2. /\ req' \in [Threads -> ReqType] /\ req'[t] = NoReq
        /\ \A u \in Threads \ {t} : req'[u] = req[u]
    BY <1>a, <1>b, <1>2 DEF EndTurn, RegType
  <2>3. ~NoReq.known
    BY DEF NoReq
  <2> QED BY <1>c, <1>2, <2>1, <2>2, <2>3 DEF EndTurn
<1>3. ASSUME NEW t \in Threads, Resume(t) PROVE RegInv'
  <2>1. pc[t] = "free" /\ Goto(t, "use")
    BY <1>3 DEF Resume, Unpark
  <2>2. at[t] = "new" /\ \A u \in Threads \ {t} : pc'[u] = pc[u]
    BY <1>a, <1>p, <2>1 DEF WorkInv, Goto
  <2>3. pc'[t] = "use"
    BY <1>p, <2>1 DEF Goto
  <2> QED BY <1>a, <1>c, <1>3, <2>2, <2>3 DEF Resume, RegType, NoReRegistration
<1>4. ASSUME NEW t \in Threads, NEW n \in Names, NEW w \in Passwords,
             Register(t, n, w)
      PROVE  RegInv'
  <2> DEFINE r == [name |-> n, passwd |-> w, page |-> "", known |-> n \in acked]
             q == [r EXCEPT !.page = "registerError"]
  <2>1. /\ r \in ReqType /\ q \in ReqType
        /\ r.known = (n \in acked) /\ q.page = "registerError"
    <3>1. (n \in acked) \in BOOLEAN
      OBVIOUS
    <3>2. r \in ReqType
      BY <3>1 DEF ReqType, Pages
    <3>3. q \in ReqType /\ q.page = "registerError"
      BY <3>2 DEF ReqType, Pages
    <3>4. r.known = (n \in acked)
      OBVIOUS
    <3> QED BY <3>2, <3>3, <3>4
  <2>2. /\ pc[t] = "use" /\ at[t] = "new"
        /\ UNCHANGED <<vars, user, users, m_lock, acked>>
    BY <1>4 DEF Register
  <2>3. pc' = pc
    BY <2>2 DEF vars
  <2>4. CASE n \in DOMAIN users
    <3>1. req' = [req EXCEPT ![t] = q] /\ Goes(t, "done")
      BY <1>4, <2>4 DEF Register
    <3>2. req' \in [Threads -> ReqType] /\ req'[t] = q
          /\ \A u \in Threads \ {t} : req'[u] = req[u]
      BY <1>a, <2>1, <3>1 DEF RegType
    <3> HIDE DEF r, q
    <3> QED BY <1>c, <2>1, <2>2, <2>3, <3>1, <3>2
  <2>5. CASE n \notin DOMAIN users
    <3>1. req' = [req EXCEPT ![t] = r] /\ Goes(t, "lock")
      BY <1>4, <2>5 DEF Register
    <3>2. req' \in [Threads -> ReqType] /\ req'[t] = r
          /\ \A u \in Threads \ {t} : req'[u] = req[u]
      BY <1>a, <2>1, <3>1 DEF RegType
    <3>3. ~r.known
      BY <1>a, <2>1, <2>5 DEF AckedCached
    <3> HIDE DEF r, q
    <3> QED BY <1>c, <2>2, <2>3, <3>1, <3>2, <3>3
  <2> QED BY <2>4, <2>5
<1>5. ASSUME NEW t \in Threads, NEW n \in Names, NEW w \in Passwords,
             Login(t, n, w)
      PROVE  RegInv'
  <2>1. PICK r \in ReqType : req' = [req EXCEPT ![t] = r] /\ ~r.known
    <3>1. PICK g \in {"welcome", "logError"} :
             req' = [req EXCEPT ![t] = [name |-> n, passwd |-> w,
                                        known |-> FALSE, page |-> g]]
      BY <1>5 DEF Login
    <3> DEFINE a == [name |-> n, passwd |-> w, known |-> FALSE, page |-> g]
    <3>2. a \in ReqType
      BY DEF ReqType, Pages
    <3>3. ~a.known
      OBVIOUS
    <3> HIDE DEF a
    <3>4. req' = [req EXCEPT ![t] = a]
      BY <3>1 DEF a
    <3> QED BY <3>2, <3>3, <3>4
  <2>2. req' \in [Threads -> ReqType] /\ req'[t] = r
        /\ \A u \in Threads \ {t} : req'[u] = req[u]
    BY <1>a, <2>1 DEF RegType
  <2> QED BY <1>c, <1>5, <2>1, <2>2 DEF Login, vars
<1>6. ASSUME NEW t \in Threads, OtherRequest(t) PROVE RegInv'
  BY <1>a, <1>c, <1>6 DEF OtherRequest, vars, RegType, NoReRegistration
<1>7. ASSUME NEW t \in Threads, Lock(t) PROVE RegInv'
  <2>1. /\ at[t] = "lock" /\ m_lock = NoThread /\ m_lock' = t
        /\ at' \in [Threads -> {"new", "lock", "query", "push", "done"}]
        /\ at'[t] = "query" /\ \A u \in Threads \ {t} : at'[u] = at[u]
        /\ UNCHANGED <<pc, user, users, req, acked>>
    BY <1>a, <1>7 DEF Lock, Goes, RegType, vars
  <2>2. RegType'
    BY <1>a, <2>1 DEF RegType
  <2>3. LockInv' /\ WorkInv' /\ InsertedInv'
    BY <1>a, <2>1 DEF LockInv, WorkInv, InsertedInv
  <2>4. CacheCoversTable'
    BY <1>a, <2>1 DEF CacheCoversTable
  <2>5. AckedCached' /\ AcknowledgedDurable' /\ NoReRegistration'
    BY <1>a, <2>1 DEF AckedCached, AcknowledgedDurable, NoReRegistration
  <2> QED BY <2>2, <2>3, <2>4, <2>5 DEF RegInv
<1>8. ASSUME NEW t \in Threads, Insert(t) PROVE RegInv'
  <2> DEFINE r == [name |-> req[t].name, passwd |-> req[t].passwd]
  <2>1. r \in Rows /\ r.name = req[t].name
    BY <1>a DEF RegType, ReqType, Rows
  <2>2. /\ at[t] = "query"
        /\ at' \in [Threads -> {"new", "lock", "query", "push", "done"}]
        /\ at'[t] = "push" /\ \A u \in Threads \ {t} : at'[u] = at[u]
        /\ UNCHANGED <<pc, users, m_lock, req, acked>>
        /\ user' = Append(user, r)
    BY <1>a, <1>8 DEF Insert, Goes, RegType, vars
  <2>3. m_lock = t
    BY <1>a, <2>2 DEF LockInv
  <2> HIDE DEF r
  <2>4. user' \in Seq(Rows) /\ NamesOf(user') = NamesOf(user) \cup {req[t].name}
    BY <1>a, <2>1, <2>2, AppendNames DEF RegType
  <2>5. RegType'
    BY <1>a, <2>2, <2>4 DEF RegType
  <2>6. LockInv' /\ WorkInv'
    BY <1>a, <2>2, <2>3 DEF LockInv, WorkInv
  <2>7. InsertedInv'
    BY <1>a, <2>2, <2>4 DEF InsertedInv
  <2>8. CacheCoversTable'
    BY <1>a, <2>2, <2>3, <2>4 DEF CacheCoversTable
  <2>9. AckedCached' /\ AcknowledgedDurable' /\ NoReRegistration'
    BY <1>a, <2>2, <2>4 DEF AckedCached, AcknowledgedDurable, NoReRegistration
  <2> QED BY <2>5, <2>6, <2>7, <2>8, <2>9 DEF RegInv
<1>9. ASSUME NEW t \in Threads, InsertFails(t) PROVE RegInv'
  <2>1. /\ at[t] = "query"
        /\ at' \in [Threads -> {"new", "lock", "query", "push", "done"}]
        /\ at'[t] = "push" /\ \A u \in Threads \ {t} : at'[u] = at[u]
        /\ UNCHANGED <<pc, user, users, m_lock, acked>>
        /\ Page(t, "registerError")
    BY <1>a, <1>9 DEF InsertFails, Goes, RegType, vars
  <2>2. /\ req' \in [Threads -> ReqType] /\ req'[t].page = "registerError"
        /\ req'[t].name = req[t].name
        /\ \A u \in Threads \ {t} : req'[u] = req[u]
    BY <1>a, <2>1, PageSets DEF Pages
  <2>3. m_lock = t
    BY <1>a, <2>1 DEF LockInv
  <2>4. RegType'
    BY <1>a, <2>1, <2>2 DEF RegType
  <2>5. LockInv' /\ WorkInv' /\ InsertedInv'
    <3>1. LockInv'
      BY <1>a, <2>1, <2>3 DEF LockInv
    <3>2. WorkInv'
      BY <1>a, <2>1 DEF WorkInv
    <3>3. InsertedInv'
      BY <1>a, <2>1, <2>2 DEF InsertedInv
    <3> QED BY <3>1, <3>2, <3>3
  <2>6. CacheCoversTable'
    BY <1>a, <2>1, <2>2, <2>3 DEF CacheCoversTable
  <2>7. AckedCached' /\ AcknowledgedDurable' /\ NoReRegistration'
    BY <1>a, <2>1, <2>2 DEF AckedCached, AcknowledgedDurable, NoReRegistration
  <2> QED BY <2>4, <2>5, <2>6, <2>7 DEF RegInv
<1>10. ASSUME NEW t \in Threads, PushUser(t) PROVE RegInv'
  <2>1. /\ at[t] = "push" /\ m_lock' = NoThread
        /\ at' \in [Threads -> {"new", "lock", "query", "push", "done"}]
        /\ at'[t] = "done" /\ \A u \in Threads \ {t} : at'[u] = at[u]
        /\ UNCHANGED <<pc, user>>
        /\ DOMAIN users' = DOMAIN users \cup {req[t].name}
        /\ acked' = IF req[t].page = "" THEN acked \cup {req[t].name} ELSE acked
    BY <1>a, <1>10 DEF PushUser, Goes, RegType, vars
  <2>2. /\ req' \in [Threads -> ReqType]
        /\ req'[t].page = IF req[t].page = "" THEN "log" ELSE req[t].page
        /\ req'[t].known = req[t].known
        /\ \A u \in Threads \ {t} : req'[u] = req[u]
    <3>1. PICK p \in Pages :
               Page(t, p) /\ p = IF req[t].page = "" THEN "log" ELSE req[t].page
      BY <1>a, <1>10 DEF PushUser, RegType, ReqType, Pages
    <3> QED BY <1>a, <3>1, PageSets
  <2>3. m_lock = t
    BY <1>a, <2>1 DEF LockInv
  <2>4. RegType'
    BY <1>a, <2>1, <2>2 DEF RegType
  <2>5. LockInv' /\ WorkInv' /\ InsertedInv'
    BY <1>a, <2>1, <2>2, <2>3 DEF LockInv, WorkInv, InsertedInv
  <2>6. CacheCoversTable'
    BY <1>a, <2>1, <2>3 DEF CacheCoversTable
  <2>7. AckedCached' /\ AcknowledgedDurable'
    BY <1>a, <2>1 DEF AckedCached, AcknowledgedDurable, InsertedInv
  <2>8. NoReRegistration'
    BY <1>a, <2>2 DEF NoReRegistration
  <2> QED BY <2>4, <2>5, <2>6, <2>7, <2>8 DEF RegInv
<1>11. ASSUME Restart PROVE RegInv'
  <2>1. /\ DOMAIN users' = NamesOf(user) /\ m_lock' = NoThread
        /\ at' = [t \in Threads |-> "new"] /\ req' = [t \in Threads |-> NoReq]
        /\ UNCHANGED <<user, acked>>
    BY <1>11, LoadedNames DEF Restart
  <2>2. RegType'
    BY <1>a, <1>b, <2>1 DEF RegType
  <2>3. LockInv' /\ WorkInv' /\ InsertedInv' /\ CacheCoversTable'
    BY <2>1 DEF LockInv, WorkInv, InsertedInv, CacheCoversTable
  <2>4. AckedCached' /\ AcknowledgedDurable' /\ NoReRegistration'
    BY <1>a, <2>1
       DEF AckedCached, AcknowledgedDurable, NoReRegistration, NoReq
  <2> QED BY <2>2, <2>3, <2>4 DEF RegInv
<1>12. ASSUME UNCHANGED regVars, UNCHANGED pc PROVE RegInv'
  BY <1>a, <1>12
     DEF RegInv, RegType, LockInv, WorkInv, InsertedInv, AckedCached,
         CacheCoversTable, AcknowledgedDurable, NoReRegistration
<1>13. ASSUME \/ (DestroyPool \/ Ended) /\ UNCHANGED regVars
              \/ UNCHANGED allVars
       PROVE  RegInv'
  BY <1>12, <1>13 DEF DestroyPool, Ended, allVars, vars
<1> QED
  BY <1>1, <1>2, <1>3, <1>4, <1>5, <1>6, <1>7, <1>8, <1>9, <1>10, <1>11, <1>13
     DEF RegNext, RegStep, Working

-----------------------------------------------------------------------------
(* The invariant holds in every reachable state.                           *)
LEMMA RegAlways == RegSpec => []RegInv
<1>1. PoolInv => TypeOK
  BY DEF PoolInv, Inv
<1> QED BY <1>1, PoolAlways, RegInvInit, RegInvNext, PTL DEF RegSpec

(* The cache has every name of the table, up to the one registration that  *)
(* is between its INSERT and its push: after failed queries, failures of   *)
(* the process and restarts too.                                           *)
THEOREM CacheComplete == RegSpec => []CacheCoversTable
<1>1. RegInv => CacheCoversTable
  BY DEF RegInv
<1> QED BY <1>1, RegAlways, PTL

(* A registration that was answered with log.html is never lost.           *)
THEOREM AcknowledgedKept == RegSpec => []AcknowledgedDurable
<1>1. RegInv => AcknowledgedDurable
  BY DEF RegInv
<1> QED BY <1>1, RegAlways, PTL

(* A name that was acknowledged is not registered a second time by a       *)
(* request that begins afterwards.                                         *)
THEOREM RefusedAfterAck == RegSpec => []NoReRegistration
<1>1. RegInv => NoReRegistration
  BY DEF RegInv
<1> QED BY <1>1, RegAlways, PTL

(* The pool keeps its promises under the requests of do_request, and when  *)
(* the process fails and starts again with connections in use.             *)
THEOREM PoolSafe ==
  RegSpec => [](TypeOK /\ NeverPopsEmpty /\ OneUser /\ NotAllBlocked)
<1>1. PoolInv => TypeOK /\ NeverPopsEmpty /\ OneUser /\ NotAllBlocked
  BY PopSafe DEF PoolInv, Inv
<1> QED BY <1>1, PoolAlways, PTL

=============================================================================
