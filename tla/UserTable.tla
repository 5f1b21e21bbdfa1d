------------------------------ MODULE UserTable ------------------------------
(***************************************************************************)
(* The accounts: the global map users of http_conn.cpp, a cache of the     *)
(* table user of the database, and the part of do_request() that logs in   *)
(* ("/2...") and registers ("/3...").  It runs in the workers; m_lock      *)
(* covers the INSERT and the insertion into the map, and no lookup.        *)
(***************************************************************************)
EXTENDS Integers, Sequences, FiniteSets

CONSTANTS
  Workers,
  Names, Passwords,
  NoPassword, NoAccount,  \* values of neither set
  MaxRequests,  \* bound: requests that log in or register
  MaxFailures,  \* bound: INSERTs that fail for another reason
  MaxRestarts   \* bound: the server is stopped and started again

ASSUME UserTableAssumption ==
  /\ NoPassword \notin Passwords
  /\ MaxRequests \in Nat /\ MaxFailures \in Nat /\ MaxRestarts \in Nat

Accounts == [name : Names, passwd : Passwords]

VARIABLES
  users,     \* the map: users[n] is NoPassword if n is not in it
  user,      \* the table: its rows, in the order of the INSERTs
  unique,    \* whether the table refuses a second row of a name; no file says
  pc,        \* pc[w]: "idle", "login", "compare", "find", "lock", "query" or
             \* "insert"
  account,   \* account[w]: the name and password of the request
  res,       \* res[w]: did mysql_query() fail
  loaded,    \* history: the rows there were when the server started
  told,      \* history: the accounts whose registration was answered by log.html
  welcomed,  \* history: the accounts that a login welcomed since the start
  alone,     \* history: no two requests have been under way at once
  requests, failures, restarts  \* budgets spent

counted == <<alone, requests, restarts>>
budgets == <<counted, failures>>
vars == <<users, user, unique, pc, account, res, loaded, told, welcomed, budgets>>

Rows == {user[i] : i \in DOMAIN user}
RowsOf(n) == {i \in DOMAIN user : user[i].name = n}
Known(n) == users[n] # NoPassword

-----------------------------------------------------------------------------
(* A worker in do_request() *)

Goto(w, from, to) == pc[w] = from /\ pc' = [pc EXCEPT ![w] = to]

Request(w) ==
  /\ requests < MaxRequests
  /\ requests' = requests + 1
  /\ Goto(w, "idle", "login") \/ Goto(w, "idle", "find")
  /\ \E a \in Accounts : account' = [account EXCEPT ![w] = a]
  /\ alone' = (alone /\ \A v \in Workers : pc[v] = "idle")
  /\ UNCHANGED <<users, user, res, loaded, told, welcomed, failures, restarts>>

\* users.find(name) holds no lock: while another worker rebalances the tree of
\* the map it may miss a name that is there.
find(w, n) ==
  IF \E v \in Workers \ {w} : pc[v] = "insert" THEN {Known(n), FALSE} ELSE {Known(n)}

\* Mutant: users[name] without find(), which inserts a name that is not there.
LoginInserts(w) ==
  /\ Goto(w, "login", "compare")
  /\ LET n == account[w].name IN
     users' = [users EXCEPT ![n] = IF Known(n) THEN @ ELSE ""]
  /\ UNCHANGED <<user, account, res, loaded, told, welcomed, budgets>>
\* A name that is not found is answered by logError.html.
Login(w) ==
  /\ pc[w] = "login"
  /\ \E found \in find(w, account[w].name) :
       Goto(w, "login", IF found THEN "compare" ELSE "idle")
  /\ UNCHANGED <<users, user, account, res, loaded, told, welcomed, budgets>>

\* users[name] is a second lookup, which may miss the name as well.  That operator[]
\* then inserts an empty password, beside the other worker's insertion, is left out.
Compare(w) ==
  /\ Goto(w, "compare", "idle")
  /\ \E found \in find(w, account[w].name) :
       IF found /\ users[account[w].name] = account[w].passwd
         THEN welcomed' = welcomed \cup {account[w]} ELSE UNCHANGED welcomed
  /\ UNCHANGED <<users, user, account, res, loaded, told, budgets>>

\* Mutant: nobody looks.
FindNot(w) ==
  /\ Goto(w, "find", "lock")
  /\ UNCHANGED <<users, user, account, res, loaded, told, welcomed, budgets>>
\* A name that is found is answered by registerError.html.
Find(w) ==
  /\ pc[w] = "find"
  /\ \E found \in find(w, account[w].name) :
       Goto(w, "find", IF found THEN "idle" ELSE "lock")
  /\ UNCHANGED <<users, user, account, res, loaded, told, welcomed, budgets>>

\* Mutant: m_lock.lock() is missing, as its comment would like it.
freeAlways == TRUE
free == \A v \in Workers : pc[v] \notin {"query", "insert"}

Lock(w) ==
  /\ free
  /\ Goto(w, "lock", "query")
  /\ UNCHANGED <<users, user, account, res, loaded, told, welcomed, budgets>>

\* External: what the table takes.
Accepted(a) == unique => RowsOf(a.name) = {}

QuerySucceeds(w) ==
  /\ Goto(w, "query", "insert")
  /\ Accepted(account[w])
  /\ user' = Append(user, account[w])
  /\ res' = [res EXCEPT ![w] = FALSE]
  /\ UNCHANGED <<users, account, loaded, told, welcomed, budgets>>

QueryFails(w) ==
  /\ Goto(w, "query", "insert")
  /\ \/ ~Accepted(account[w]) /\ UNCHANGED failures
     \/ failures < MaxFailures /\ failures' = failures + 1
  /\ res' = [res EXCEPT ![w] = TRUE]
  /\ UNCHANGED <<users, user, account, loaded, told, welcomed, counted>>

\* Mutant: users[name] = password.
cachedAnew(a) == users' = [users EXCEPT ![a.name] = a.passwd]
\* map::insert leaves a name that is there alone.
cached(a) ==
  users' = [users EXCEPT ![a.name] = IF Known(a.name) THEN @ ELSE a.passwd]

\* Mutant: the result of the query is not looked at.
answerAlways(w) == told' = told \cup {account[w]}
answer(w) == told' = told \cup {a \in {account[w]} : ~res[w]}

Insert(w) ==
  /\ Goto(w, "insert", "idle")
  /\ cached(account[w])
  /\ answer(w)
  /\ UNCHANGED <<user, account, res, loaded, welcomed, budgets>>

-----------------------------------------------------------------------------
(* The server starts again: initmysql_result() reads the table. *)

\* users[temp1] = temp2 for each row: of the rows of a name that stays which the
\* SELECT gives last, and it names no order.
loadedOf(n) ==
  IF RowsOf(n) = {} THEN {NoPassword} ELSE {user[i].passwd : i \in RowsOf(n)}

Restart ==
  /\ restarts < MaxRestarts
  /\ restarts' = restarts + 1
  /\ users' \in [Names -> Passwords \cup {NoPassword}]
  /\ \A n \in Names : users'[n] \in loadedOf(n)
  /\ loaded' = Len(user)
  /\ pc' = [w \in Workers |-> "idle"]
  /\ account' = [w \in Workers |-> NoAccount]
  /\ res' = [w \in Workers |-> FALSE]
  /\ welcomed' = {}
  /\ UNCHANGED <<user, told, alone, requests, failures>>

-----------------------------------------------------------------------------
Worker(w) ==
  \/ Login(w) \/ Compare(w)
  \/ Find(w) \/ Lock(w) \/ QuerySucceeds(w) \/ QueryFails(w) \/ Insert(w)

Init ==
  /\ users = [n \in Names |-> NoPassword] /\ user = <<>> /\ unique \in BOOLEAN
  /\ pc = [w \in Workers |-> "idle"]
  /\ account = [w \in Workers |-> NoAccount]
  /\ res = [w \in Workers |-> FALSE]
  /\ loaded = 0 /\ told = {} /\ welcomed = {}
  /\ alone = TRUE /\ requests = 0 /\ failures = 0 /\ restarts = 0

Next ==
  /\ Restart \/ \E w \in Workers : Request(w) \/ Worker(w)
  /\ UNCHANGED unique

Spec == Init /\ [][Next]_vars

-----------------------------------------------------------------------------
(* Properties *)

\* The map goes from names to passwords, and the variables keep to their types.
TypeOK ==
  /\ users \in [Names -> Passwords \cup {NoPassword}] /\ user \in Seq(Accounts)
  /\ pc \in [Workers -> {"idle", "login", "compare", "find", "lock", "query", "insert"}]
  /\ account \in [Workers -> Accounts \cup {NoAccount}]
  /\ res \in [Workers -> BOOLEAN] /\ alone \in BOOLEAN /\ unique \in BOOLEAN
  /\ loaded \in 0..Len(user)
  /\ told \subseteq Accounts /\ welcomed \subseteq Accounts
  /\ requests \in 0..MaxRequests
  /\ failures \in 0..MaxFailures /\ restarts \in 0..MaxRestarts

\* An account whose registration was answered by log.html is in the table,
\* whatever fails, whoever registers at the same time, and after any restart.
ToldIsStored == told \subseteq Rows

\* Names in the map that no row of the table has are as many as INSERTs that
\* failed for want of a database, or fewer: a refused INSERT, a race of two
\* registrations, a login or a restart adds none.
UnstoredNames == Cardinality({n \in Names : Known(n) /\ RowsOf(n) = {}}) <= failures

\* Until an INSERT fails for want of a database, the cache follows the table: a
\* name has the password of one of its rows loaded at the start, and without such
\* a row that of its first row since.  That the INSERTs and the insertions come in
\* the same order is what m_lock is for; the row being inserted is excepted.
Settled == {i \in DOMAIN user :
  \A w \in Workers : pc[w] = "insert" /\ ~res[w] => i # Len(user)}
CacheFollowsTable ==
  failures = 0 =>
    \A n \in Names :
      LET S == RowsOf(n) \cap Settled
          Old == S \cap 1..loaded
      IN IF S = {} THEN ~Known(n)
         ELSE IF Old # {} THEN \E i \in Old : users[n] = user[i].passwd
         ELSE \A i \in S : (\A j \in S : i <= j) => users[n] = user[i].passwd

\* While the server runs, a user who was welcomed is in the map with the same
\* password: no other registration of the name, before or after, takes it away.
WelcomeLasts == \A a \in welcomed : users[a.name] = a.passwd

\* As long as requests have come one at a time each name has one row, with or
\* without a unique key, also after failed INSERTs and restarts.
AloneNamesUnique ==
  alone => \A n \in Names : Cardinality(RowsOf(n)) <= 1
=============================================================================
