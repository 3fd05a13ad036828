---------------------------- MODULE Registration ----------------------------
(***************************************************************************)
(* Registration and login in http_conn::do_request, with the cache `users`,*)
(* the lock m_lock and the table `user`, composed with the pool that gives *)
(* each request its connection.  A thread works on a request while it is   *)
(* in "use"; afterwards the fiber may be suspended in write() (Park).      *)
(*                                                                         *)
(* users has no capacity, so that it is a function from names to passwords *)
(* (module BoundedCache).  The table has no unique key: its rows are a     *)
(* sequence.  mysql_query of a null connection ends the process.           *)
(***************************************************************************)
EXTENDS ConnectionPool

CONSTANTS
    Names, Passwords,
    NoThread,
    MaxCalls,      \* bound: registrations and logins
    MaxCrashes     \* bound: failures of the process

ASSUME NoThreadAssumption == NoThread \notin Threads

VARIABLES
    user,      \* the rows of the table
    users,     \* the cache
    m_lock,    \* its holder
    at,        \* where in do_request each thread is
    req,       \* the request each thread works on
    acked,     \* names whose registration was answered with log.html
    calls, crashes

regVars == <<user, users, m_lock, at, req, acked, calls, crashes>>
allVars == <<vars, regVars>>

NoReq == [name |-> "", passwd |-> "", page |-> "", known |-> FALSE]
NamesOf(rows) == {rows[i].name : i \in DOMAIN rows}

(* initmysql_result: every row is pushed, a later one replaces an earlier. *)
Loaded(rows) ==
    [n \in NamesOf(rows) |->
        LET last == CHOOSE i \in DOMAIN rows :
                       /\ rows[i].name = n
                       /\ \A j \in DOMAIN rows : rows[j].name = n => j <= i
        IN  rows[last].passwd]

RegInit ==
    /\ Init
    /\ user = <<>> /\ users = Loaded(user)
    /\ m_lock = NoThread
    /\ at = [t \in Threads |-> "new"] /\ req = [t \in Threads |-> NoReq]
    /\ acked = {} /\ calls = 0 /\ crashes = 0

Goes(t, l) == at' = [at EXCEPT ![t] = l]
Page(t, p) == req' = [req EXCEPT ![t].page = p]

-----------------------------------------------------------------------------
(* Mutant of Register: the INSERT alone decides.                           *)
RegisterUnchecked(t, n, w) ==
    LET r == [name |-> n, passwd |-> w, page |-> "", known |-> n \in acked] IN
    /\ pc[t] = "use" /\ at[t] = "new" /\ calls < MaxCalls
    /\ calls' = calls + 1
    /\ req' = [req EXCEPT ![t] = r] /\ Goes(t, "lock")
    /\ UNCHANGED <<vars, user, users, m_lock, acked, crashes>>

(* do_request of a registration: the first look, without the lock.         *)
Register(t, n, w) ==
    LET r == [name |-> n, passwd |-> w, page |-> "", known |-> n \in acked] IN
    /\ pc[t] = "use" /\ at[t] = "new" /\ calls < MaxCalls
    /\ calls' = calls + 1
    /\ IF n \in DOMAIN users
       THEN /\ req' = [req EXCEPT ![t] = [r EXCEPT !.page = "registerError"]]
            /\ Goes(t, "done")
       ELSE req' = [req EXCEPT ![t] = r] /\ Goes(t, "lock")
    /\ UNCHANGED <<vars, user, users, m_lock, acked, crashes>>

Lock(t) ==
    /\ at[t] = "lock" /\ m_lock = NoThread
    /\ m_lock' = t /\ Goes(t, "query")
    /\ UNCHANGED <<vars, user, users, req, acked, calls, crashes>>

(* mysql_query of the INSERT, which may fail.                              *)
Insert(t) ==
    /\ at[t] = "query" /\ con[t] # NoConn
    /\ user' = Append(user, [name |-> req[t].name, passwd |-> req[t].passwd])
    /\ Goes(t, "push")
    /\ UNCHANGED <<vars, users, m_lock, req, acked, calls, crashes>>

InsertFails(t) ==
    /\ at[t] = "query" /\ con[t] # NoConn
    /\ Page(t, "registerError")
    /\ Goes(t, "push")
    /\ UNCHANGED <<vars, user, users, m_lock, acked, calls, crashes>>

(* Mutants of PushUser: the cache is not told; the result of the query is  *)
(* not looked at.                                                          *)
PushUserForgets(t) ==
    /\ at[t] = "push"
    /\ m_lock' = NoThread
    /\ acked' = IF req[t].page = "" THEN acked \cup {req[t].name} ELSE acked
    /\ Page(t, IF req[t].page = "" THEN "log" ELSE req[t].page)
    /\ Goes(t, "done")
    /\ UNCHANGED <<vars, user, users, calls, crashes>>

PushUserIgnoresResult(t) ==
    /\ at[t] = "push"
    /\ users' = [n \in DOMAIN users \cup {req[t].name} |->
                   IF n = req[t].name THEN req[t].passwd ELSE users[n]]
    /\ m_lock' = NoThread
    /\ acked' = acked \cup {req[t].name}
    /\ Page(t, "log")
    /\ Goes(t, "done")
    /\ UNCHANGED <<vars, user, calls, crashes>>

(* The name is cached whatever the query returned; the lock is released;   *)
(* the page tells the result.                                              *)
PushUser(t) ==
    /\ at[t] = "push"
    /\ users' = [n \in DOMAIN users \cup {req[t].name} |->
                   IF n = req[t].name THEN req[t].passwd ELSE users[n]]
    /\ m_lock' = NoThread
    /\ acked' = IF req[t].page = "" THEN acked \cup {req[t].name} ELSE acked
    /\ Page(t, IF req[t].page = "" THEN "log" ELSE req[t].page)
    /\ Goes(t, "done")
    /\ UNCHANGED <<vars, user, calls, crashes>>

(* do_request of a login: the cache decides.                               *)
Login(t, n, w) ==
    /\ pc[t] = "use" /\ at[t] = "new" /\ calls < MaxCalls
    /\ calls' = calls + 1
    /\ req' = [req EXCEPT ![t] = [name |-> n, passwd |-> w, known |-> FALSE,
                 page |-> IF n \in DOMAIN users /\ users[n] = w
                          THEN "welcome" ELSE "logError"]]
    /\ Goes(t, "done")
    /\ UNCHANGED <<vars, user, users, m_lock, acked, crashes>>

(* Any other request: a page, no names.                                    *)
OtherRequest(t) ==
    /\ pc[t] = "use" /\ at[t] = "new"
    /\ Goes(t, "done")
    /\ UNCHANGED <<vars, user, users, m_lock, req, acked, calls, crashes>>

-----------------------------------------------------------------------------
(* The pool's steps.  The connection goes back, or the fiber is suspended, *)
(* when do_request has returned; a resumed request is past it.             *)
Acquire(t) == (CheckSize(t) \/ SemWait(t) \/ PopFront(t)) /\ UNCHANGED regVars

EndTurn(t) ==
    /\ at[t] = "done"
    /\ Park(t) \/ ReleaseNull(t) \/ PushBack(t)
    /\ Goes(t, "new") /\ req' = [req EXCEPT ![t] = NoReq]
    /\ UNCHANGED <<user, users, m_lock, acked, calls, crashes>>

Resume(t) ==
    /\ \E c \in Conns : Unpark(t, c)
    /\ Goes(t, "done")
    /\ UNCHANGED <<user, users, m_lock, req, acked, calls, crashes>>

(* mysql_query(nullptr): the process has ended.                            *)
Down == \E t \in Threads : at[t] = "query" /\ con[t] = NoConn

(* Connection_pool::init in a new process.                                 *)
PoolStarts ==
    /\ conn_list' \in [1..Cardinality(Conns) -> Conns]
    /\ \A i, j \in DOMAIN conn_list' : conn_list'[i] = conn_list'[j] => i = j
    /\ reserve' = Cardinality(Conns)
    /\ m_free_conn' = Cardinality(Conns) /\ m_cur_conn' = 0
    /\ pc' = [t \in Threads |-> "free"]
    /\ con' = [t \in Threads |-> NoConn]
    /\ parked' = {} /\ destroyed' = FALSE

(* The process starts again after it has ended, or was killed: the pool is *)
(* set up and initmysql_result loads the cache from the table.             *)
Restart ==
    /\ Down \/ crashes < MaxCrashes
    /\ crashes' = IF Down THEN crashes ELSE crashes + 1
    /\ PoolStarts
    /\ users' = Loaded(user) /\ m_lock' = NoThread
    /\ at' = [t \in Threads |-> "new"] /\ req' = [t \in Threads |-> NoReq]
    /\ UNCHANGED <<user, acked, calls>>

Working(t) == Lock(t) \/ Insert(t) \/ InsertFails(t) \/ PushUser(t)

RegStep(t) ==
    \/ Acquire(t) \/ EndTurn(t) \/ Resume(t)
    \/ SemPost(t) /\ UNCHANGED regVars
    \/ \E n \in Names, w \in Passwords : Register(t, n, w) \/ Login(t, n, w)
    \/ OtherRequest(t) \/ Working(t)

RegNext ==
    \/ ~Down /\ \E t \in Threads : RegStep(t)
    \/ Restart
    \/ ~Down /\ (DestroyPool \/ Ended) /\ UNCHANGED regVars

RegSpec == RegInit /\ [][RegNext]_allVars

-----------------------------------------------------------------------------
(* The cache knows every name of the table, so that the look without the   *)
(* lock is enough to refuse a name once its registration has returned: only*)
(* the thread with m_lock may be between the INSERT and the push.          *)
CacheCoversTable ==
    \A n \in NamesOf(user) :
        \/ n \in DOMAIN users
        \/ m_lock \in Threads /\ at[m_lock] = "push" /\ req[m_lock].name = n

(* A name whose registration was answered with log.html is in the table,   *)
(* after any failure of a query or of the process.                         *)
AcknowledgedDurable == acked \subseteq NamesOf(user)

(* A registration that begins after another of the same name was answered  *)
(* with log.html is refused, also after a restart.                         *)
NoReRegistration ==
    \A t \in Threads : req[t].known => req[t].page = "registerError"

(* "First look whether the name is taken, add it only if it is not" (the   *)
(* comment of do_request): no two rows have the same name.                 *)
UniqueNames ==
    \A i, j \in DOMAIN user : user[i].name = user[j].name => i = j

=============================================================================
