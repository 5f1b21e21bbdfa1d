-------------------------- MODULE UserTableProofs --------------------------
(***************************************************************************)
(* Proofs about UserTable, for any number of workers, names, requests,     *)
(* failed INSERTs and restarts, and with or without a unique key.          *)
(***************************************************************************)
EXTENDS UserTable, SequenceTheorems, FiniteSetTheorems, WellFoundedInduction, TLAPS

-----------------------------------------------------------------------------
(* The inductive invariant.  A worker past its request has an account; what  *)
(* it is about to report as stored is stored.                               *)

Busy == \A w \in Workers : pc[w] # "idle" => account[w] \in Accounts
InsertedIsStored ==
  \A w \in Workers : pc[w] = "insert" /\ ~res[w] => account[w] \in Rows
Inv == TypeOK /\ Busy /\ InsertedIsStored /\ ToldIsStored /\ WelcomeLasts

\* Rows are only added.
LEMMA RowsGrow == TypeOK /\ [Next]_vars => Rows \subseteq Rows'
<1> SUFFICES ASSUME TypeOK, [Next]_vars PROVE Rows \subseteq Rows'  OBVIOUS
<1>1. CASE user' = user  BY <1>1 DEF Rows
<1>2. ASSUME NEW w \in Workers, QuerySucceeds(w) PROVE Rows \subseteq Rows'
  <2>1. user \in Seq(Accounts) /\ user' = Append(user, account[w])
    BY <1>2 DEF TypeOK, QuerySucceeds
  <2>2. DOMAIN user = 1..Len(user) /\ Len(user) \in Nat  BY <2>1
  <2>3. DOMAIN user' = 1..Len(user)+1  BY <2>1
  <2>4. \A i \in DOMAIN user : i \in DOMAIN user' /\ user'[i] = user[i]
    BY <2>1, <2>2, <2>3
  <2> QED  BY <2>4 DEF Rows
<1> QED
  BY <1>1, <1>2 DEF Next, Worker, Restart, Request, Login, Compare, Find, Lock, QueryFails,
                    Insert, vars

\* The row of a successful INSERT is in the table.
LEMMA NewRow ==
  ASSUME TypeOK, NEW w \in Workers, QuerySucceeds(w)
  PROVE  account[w] \in Rows'
<1>1. user \in Seq(Accounts) /\ user' = Append(user, account[w])
  BY DEF TypeOK, QuerySucceeds
<1>2. Len(user) \in Nat /\ DOMAIN user' = 1..Len(user)+1  BY <1>1
<1>3. Len(user) + 1 \in DOMAIN user' /\ user'[Len(user) + 1] = account[w]
  BY <1>1, <1>2
<1> QED  BY <1>3 DEF Rows

LEMMA InitInv == Init => Inv
<1> SUFFICES ASSUME Init PROVE Inv  OBVIOUS
<1>1. res \in [Workers -> BOOLEAN]  BY DEF Init
<1>2. user \in Seq(Accounts) /\ Len(user) = 0  BY DEF Init
<1>3. loaded \in 0..Len(user) /\ requests \in 0..MaxRequests
      /\ failures \in 0..MaxFailures /\ restarts \in 0..MaxRestarts
  BY <1>2, UserTableAssumption DEF Init
<1>4. TypeOK  BY <1>1, <1>2, <1>3 DEF Init, TypeOK
<1>5. Busy /\ InsertedIsStored  BY DEF Init, Busy, InsertedIsStored
<1>6. ToldIsStored /\ WelcomeLasts  BY DEF Init, ToldIsStored, WelcomeLasts
<1> QED  BY <1>4, <1>5, <1>6 DEF Inv

-----------------------------------------------------------------------------
(* One lemma per conjunct. *)

LEMMA TypeStep == TypeOK /\ Busy /\ [Next]_vars => TypeOK'
<1> SUFFICES ASSUME TypeOK, Busy, [Next]_vars PROVE TypeOK'  OBVIOUS
<1> DEFINE Points == {"idle", "login", "compare", "find", "lock", "query", "insert"}
<1>1. users' \in [Names -> Passwords \cup {NoPassword}]
  <2>1. users \in [Names -> Passwords \cup {NoPassword}]  BY DEF TypeOK
  <2>2. ASSUME NEW w \in Workers, Insert(w)
        PROVE  users' \in [Names -> Passwords \cup {NoPassword}]
    <3>1. account[w] \in Accounts  BY <2>2 DEF Busy, Insert, Goto
    <3> QED  BY <2>1, <2>2, <3>1 DEF Insert, cached, Accounts, Known
  <2>3. ASSUME Restart PROVE users' \in [Names -> Passwords \cup {NoPassword}]
    BY <2>3 DEF Restart
  <2> QED
    BY <2>1, <2>2, <2>3 DEF Next, Worker, Request, Login, Compare, Find, Lock,
       QuerySucceeds, QueryFails, vars
<1>2. user' \in Seq(Accounts) /\ loaded' \in 0..Len(user')
  <2>1. user \in Seq(Accounts) /\ Len(user) \in Nat /\ loaded \in 0..Len(user)
    BY DEF TypeOK
  <2>2. ASSUME NEW w \in Workers, QuerySucceeds(w)
        PROVE  user' \in Seq(Accounts) /\ loaded' \in 0..Len(user')
    <3>1. account[w] \in Accounts  BY <2>2 DEF Busy, QuerySucceeds, Goto
    <3>2. user' = Append(user, account[w]) /\ loaded' = loaded
      BY <2>2 DEF QuerySucceeds
    <3>3. user' \in Seq(Accounts) /\ Len(user') = Len(user) + 1  BY <2>1, <3>1, <3>2
    <3> QED  BY <2>1, <3>2, <3>3
  <2>3. ASSUME Restart PROVE user' \in Seq(Accounts) /\ loaded' \in 0..Len(user')
    BY <2>1, <2>3 DEF Restart
  <2> QED
    BY <2>1, <2>2, <2>3 DEF Next, Worker, Request, Login, Compare, Find, Lock, Insert,
       QueryFails, vars
<1>3. pc' \in [Workers -> Points] /\ account' \in [Workers -> Accounts \cup {NoAccount}]
  BY DEF TypeOK, Next, Worker, Request, Login, Compare, Find, Lock, Insert, QuerySucceeds,
     QueryFails, Restart, Goto, vars
<1>4. res' \in [Workers -> BOOLEAN]
  BY DEF TypeOK, Next, Worker, Request, Login, Compare, Find, Lock, Insert, QuerySucceeds,
     QueryFails, Restart, vars
<1>5. told' \subseteq Accounts /\ welcomed' \subseteq Accounts
  <2>1. \A w \in Workers : pc[w] \in {"compare", "insert"} => account[w] \in Accounts
    BY DEF Busy
  <2> QED
    BY <2>1 DEF TypeOK, Next, Worker, Request, Login, Compare, Find, Lock, Insert, answer,
       QuerySucceeds, QueryFails, Restart, Goto, vars
<1>6. /\ requests' \in 0..MaxRequests
      /\ failures' \in 0..MaxFailures /\ restarts' \in 0..MaxRestarts
  BY UserTableAssumption
  DEF TypeOK, Next, Worker, Request, Login, Compare, Find, Lock, Insert, QuerySucceeds,
      QueryFails, Restart, counted, budgets, vars
<1>7. alone' \in BOOLEAN
  <2>1. alone \in BOOLEAN  BY DEF TypeOK
  <2>2. alone' = alone \/ alone' \in BOOLEAN
    BY DEF Next, Worker, Request, Login, Compare, Find, Lock, Insert, QuerySucceeds,
       QueryFails, Restart, counted, budgets, vars
  <2> QED  BY <2>1, <2>2
<1>8. unique' \in BOOLEAN
  <2>1. unique \in BOOLEAN  BY DEF TypeOK
  <2> QED  BY <2>1 DEF Next, vars
<1> QED  BY <1>1, <1>2, <1>3, <1>4, <1>5, <1>6, <1>7, <1>8 DEF TypeOK

LEMMA BusyStep == TypeOK /\ Busy /\ [Next]_vars => Busy'
BY DEF TypeOK, Busy, Next, Worker, Request, Login, Compare, Find, Lock, Insert,
   QuerySucceeds, QueryFails, Restart, Goto, vars

LEMMA InsertedStep ==
  TypeOK /\ InsertedIsStored /\ [Next]_vars => InsertedIsStored'
<1> SUFFICES ASSUME TypeOK, InsertedIsStored, [Next]_vars,
                    NEW v \in Workers, pc'[v] = "insert", ~res'[v]
             PROVE  account'[v] \in Rows'
  BY DEF InsertedIsStored
<1>0. Rows \subseteq Rows'  BY RowsGrow
<1>1. CASE pc[v] = "insert" /\ ~res[v] /\ account'[v] = account[v]
  BY <1>0, <1>1 DEF InsertedIsStored
<1>2. CASE QuerySucceeds(v)
  <2>1. account' = account  BY <1>2 DEF QuerySucceeds
  <2> QED  BY <1>2, <2>1, NewRow
<1>3. ASSUME ~QuerySucceeds(v)
      PROVE  pc[v] = "insert" /\ ~res[v] /\ account'[v] = account[v]
  BY <1>3 DEF TypeOK, Next, Worker, Request, Login, Compare, Find, Lock, Insert,
     QuerySucceeds, QueryFails, Restart, Goto, vars
<1> QED  BY <1>1, <1>2, <1>3

LEMMA ToldStep ==
  TypeOK /\ InsertedIsStored /\ ToldIsStored /\ [Next]_vars => ToldIsStored'
<1> SUFFICES ASSUME TypeOK, InsertedIsStored, ToldIsStored, [Next]_vars
             PROVE  ToldIsStored'
  OBVIOUS
<1>1. Rows \subseteq Rows'  BY RowsGrow
<1>2. CASE told' = told  BY <1>1, <1>2 DEF ToldIsStored
<1>3. ASSUME NEW w \in Workers, Insert(w) PROVE ToldIsStored'
  <2>1. pc[w] = "insert" /\ told' = told \cup {a \in {account[w]} : ~res[w]}
    BY <1>3 DEF Insert, answer, Goto
  <2> QED  BY <1>1, <2>1 DEF ToldIsStored, InsertedIsStored
<1> QED
  BY <1>2, <1>3 DEF Next, Worker, Request, Login, Compare, Find, Lock, QuerySucceeds,
     QueryFails, Restart, vars

LEMMA WelcomeStep == TypeOK /\ Busy /\ WelcomeLasts /\ [Next]_vars => WelcomeLasts'
<1> SUFFICES ASSUME TypeOK, Busy, WelcomeLasts, [Next]_vars PROVE WelcomeLasts'
  OBVIOUS
<1>0. /\ users \in [Names -> Passwords \cup {NoPassword}]
      /\ \A a \in welcomed : a.name \in Names /\ a.passwd \in Passwords
  BY DEF TypeOK, Accounts
<1>1. ASSUME NEW w \in Workers, Compare(w) PROVE WelcomeLasts'
  <2>1. /\ users' = users
        /\ \A a \in welcomed' : a \in welcomed \/ users[a.name] = a.passwd
    BY <1>1 DEF Compare
  <2> QED  BY <2>1 DEF WelcomeLasts
<1>2. ASSUME NEW w \in Workers, Insert(w) PROVE WelcomeLasts'
  <2>1. \A n \in Names : Known(n) => users'[n] = users[n]
    BY <1>0, <1>2 DEF Insert, cached, Known
  <2>2. welcomed' = welcomed  BY <1>2 DEF Insert
  <2>3. \A a \in welcomed : Known(a.name)
    BY <1>0, UserTableAssumption DEF Known, WelcomeLasts
  <2> QED  BY <1>0, <2>1, <2>2, <2>3 DEF WelcomeLasts
<1>3. CASE Restart  BY <1>3 DEF Restart, WelcomeLasts
<1>4. CASE users' = users /\ welcomed' = welcomed  BY <1>4 DEF WelcomeLasts
<1> QED
  BY <1>1, <1>2, <1>3, <1>4 DEF Next, Worker, Request, Login, Find, Lock,
     QuerySucceeds, QueryFails, vars

-----------------------------------------------------------------------------
(* One request at a time *)

\* The request under way, if any, is for a name that is not there once find() missed it,
\* and what is in the table is in the map or about to be.
OneBusy == \A v, w \in Workers : pc[v] # "idle" /\ pc[w] # "idle" => v = w
StoredKnown ==
  \A i \in DOMAIN user :
    Known(user[i].name) \/ \E w \in Workers : pc[w] = "insert" /\ account[w].name = user[i].name
FoundNot == \A w \in Workers : pc[w] \in {"lock", "query"} => ~Known(account[w].name)
RowEach == \A i, j \in DOMAIN user : user[i].name = user[j].name => i = j
AloneInv == alone => OneBusy /\ StoredKnown /\ FoundNot /\ RowEach

LEMMA RowTypes ==
  ASSUME TypeOK
  PROVE  /\ user \in Seq(Accounts) /\ Len(user) \in Nat /\ DOMAIN user = 1..Len(user)
         /\ \A i \in DOMAIN user : user[i].name \in Names /\ user[i].passwd \in Passwords
<1>1. user \in Seq(Accounts)  BY DEF TypeOK
<1>2. \A i \in DOMAIN user : user[i] \in Accounts  BY <1>1
<1> QED  BY <1>1, <1>2 DEF Accounts

LEMMA InitAlone == Init => AloneInv
BY DEF Init, AloneInv, OneBusy, StoredKnown, FoundNot, RowEach

\* A step of the request under way.
LEMMA AloneWorkerStep ==
  ASSUME TypeOK, Busy, AloneInv, alone, NEW w \in Workers, Worker(w)
  PROVE  OneBusy' /\ StoredKnown' /\ FoundNot' /\ RowEach'
<1> USE DEF AloneInv
<1>1. /\ pc[w] # "idle" /\ \A v \in Workers : v # w => pc[v] = "idle" /\ pc'[v] = "idle"
      /\ UNCHANGED account /\ account[w] \in Accounts
  BY DEF Worker, Login, Compare, Find, Lock, QuerySucceeds, QueryFails, Insert, Goto,
     OneBusy, TypeOK, Busy
<1>2. OneBusy'  BY <1>1 DEF OneBusy
<1>3. CASE Login(w) \/ Compare(w) \/ Find(w) \/ Lock(w)
  <2>1. UNCHANGED <<users, user>> /\ pc[w] # "insert" /\ pc'[w] # "insert"
    BY <1>3 DEF Login, Compare, Find, Lock, Goto, TypeOK
  <2>2. StoredKnown' /\ RowEach'  BY <1>1, <2>1 DEF StoredKnown, RowEach, Known
  <2>3. pc'[w] = "lock" => ~Known(account[w].name)
    <3>1. \A n : find(w, n) = {Known(n)}  BY <1>1 DEF find
    <3> QED  BY <1>3, <3>1 DEF Login, Compare, Find, Lock, Goto, TypeOK
  <2>4. pc'[w] = "query" => ~Known(account[w].name)
    BY <1>3 DEF Login, Compare, Find, Lock, Goto, TypeOK, FoundNot
  <2>5. FoundNot'  BY <1>1, <2>1, <2>3, <2>4 DEF FoundNot, Known
  <2> QED  BY <1>2, <2>2, <2>5
<1>4. CASE QuerySucceeds(w) \/ QueryFails(w)
  <2>1. UNCHANGED users /\ pc[w] = "query" /\ pc'[w] = "insert"
    BY <1>4 DEF QuerySucceeds, QueryFails, Goto, TypeOK
  <2>2. FoundNot'  BY <1>1, <2>1 DEF FoundNot
  <2>3. \A i \in DOMAIN user : Known(user[i].name) /\ user[i].name # account[w].name
    <3>1. ~Known(account[w].name)  BY <2>1 DEF FoundNot
    <3> QED  BY <1>1, <2>1, <3>1 DEF StoredKnown
  <2>4. CASE UNCHANGED user
    BY <1>2, <2>1, <2>2, <2>3, <2>4 DEF StoredKnown, RowEach, Known
  <2>5. CASE user' = Append(user, account[w])
    <3>1. \A i \in DOMAIN user' : \/ i \in DOMAIN user /\ user'[i] = user[i]
                                  \/ i = Len(user) + 1 /\ user'[i] = account[w]
      BY <1>1, <2>5, RowTypes
    <3>2. StoredKnown'  BY <1>1, <2>1, <2>3, <3>1 DEF StoredKnown, Known
    <3>3. RowEach'  BY <2>3, <3>1 DEF RowEach
    <3> QED  BY <1>2, <2>2, <3>2, <3>3
  <2> QED  BY <1>4, <2>4, <2>5 DEF QuerySucceeds, QueryFails
<1>5. CASE Insert(w)
  <2>1. UNCHANGED user /\ pc[w] = "insert" /\ pc'[w] = "idle" /\ cached(account[w])
    BY <1>5 DEF Insert, Goto, TypeOK
  <2>2. \A n \in Names : Known(n)' <=> Known(n) \/ n = account[w].name
    BY <1>1, <2>1, UserTableAssumption DEF cached, Known, TypeOK, Accounts
  <2>3. \A i \in DOMAIN user : user[i].name \in Names  BY RowTypes
  <2>4. StoredKnown'
    <3>1. \A i \in DOMAIN user : Known(user[i].name) \/ user[i].name = account[w].name
      BY <1>1 DEF StoredKnown
    <3>2. \A i \in DOMAIN user : Known(user[i].name)'  BY <2>1, <2>2, <2>3, <3>1 DEF Known
    <3> QED  BY <2>1, <3>2 DEF StoredKnown, Known
  <2>5. FoundNot' /\ RowEach'  BY <1>1, <2>1 DEF FoundNot, RowEach
  <2> QED  BY <1>2, <2>4, <2>5
<1> QED  BY <1>3, <1>4, <1>5 DEF Worker

\* initmysql_result() has every name of the table in the map.
LEMMA RestartKnown ==
  ASSUME TypeOK, Restart
  PROVE  \A i \in DOMAIN user : Known(user[i].name)'
<1> SUFFICES ASSUME NEW i \in DOMAIN user PROVE Known(user[i].name)'  OBVIOUS
<1>1. user[i].name \in Names /\ i \in RowsOf(user[i].name)  BY RowTypes DEF RowsOf
<1>2. /\ users'[user[i].name] \in {user[j].passwd : j \in RowsOf(user[i].name)}
      /\ UNCHANGED user
  BY <1>1 DEF Restart, loadedOf
<1>3. users'[user[i].name] \in Passwords  BY <1>2, RowTypes DEF RowsOf
<1> QED  BY <1>2, <1>3, UserTableAssumption DEF Known

LEMMA AloneStep == TypeOK /\ Busy /\ AloneInv /\ [Next]_vars => AloneInv'
<1> SUFFICES ASSUME TypeOK, Busy, AloneInv, [Next]_vars, alone'
             PROVE  OneBusy' /\ StoredKnown' /\ FoundNot' /\ RowEach'
  BY DEF AloneInv
<1>1. alone
  BY DEF Next, Worker, Request, Login, Compare, Find, Lock, QuerySucceeds, QueryFails, Insert, Restart,
    budgets, counted, vars, TypeOK
<1>2. OneBusy /\ StoredKnown /\ FoundNot /\ RowEach  BY <1>1 DEF AloneInv
<1>3. CASE \E w \in Workers : Worker(w)  BY <1>1, <1>3, AloneWorkerStep
<1>4. ASSUME NEW w \in Workers, Request(w)
      PROVE  OneBusy' /\ StoredKnown' /\ FoundNot' /\ RowEach'
  <2>1. /\ \A v \in Workers : pc[v] = "idle" /\ (v # w => pc'[v] = "idle")
        /\ pc'[w] \in {"login", "find"} /\ UNCHANGED <<users, user>>
    BY <1>4 DEF Request, Goto, TypeOK
  <2>2. OneBusy' /\ FoundNot'  BY <2>1 DEF OneBusy, FoundNot
  <2>3. StoredKnown' /\ RowEach'  BY <1>2, <2>1 DEF StoredKnown, RowEach, Known
  <2> QED  BY <2>2, <2>3
<1>5. CASE Restart
  <2>1. UNCHANGED user /\ \A w \in Workers : pc'[w] = "idle"  BY <1>5 DEF Restart
  <2>2. StoredKnown'  BY <1>5, <2>1, RestartKnown DEF StoredKnown, Known
  <2> QED  BY <1>2, <2>1, <2>2 DEF OneBusy, FoundNot, RowEach
<1>6. CASE UNCHANGED vars
  BY <1>2, <1>6 DEF vars, OneBusy, StoredKnown, FoundNot, RowEach, Known
<1> QED  BY <1>3, <1>4, <1>5, <1>6 DEF Next

\* Rows of one name are one row.
LEMMA OneRow == TypeOK /\ AloneInv => AloneNamesUnique
<1> SUFFICES ASSUME TypeOK, AloneInv, alone, NEW n \in Names
             PROVE  Cardinality(RowsOf(n)) <= 1
  BY DEF AloneNamesUnique
<1>1. \A i, j \in RowsOf(n) : i = j  BY DEF RowsOf, AloneInv, RowEach
<1>2. CASE RowsOf(n) = {}  BY <1>2, FS_EmptySet
<1>3. CASE RowsOf(n) # {}
  <2> PICK i \in RowsOf(n) : TRUE  BY <1>3
  <2>1. RowsOf(n) = {i}  BY <1>1
  <2> QED  BY <2>1, FS_Singleton
<1> QED  BY <1>2, <1>3

-----------------------------------------------------------------------------
(* The map follows the table *)

\* m_lock admits one thread to the INSERT and the insertion into the map.
OneInserts ==
  \A v, w \in Workers : pc[v] \in {"query", "insert"} /\ pc[w] \in {"query", "insert"} => v = w
\* A row that is not in the map yet is the last one, and that of its inserter.
NewIsLast ==
  \A w \in Workers : pc[w] = "insert" /\ ~res[w] => Len(user) > loaded /\ user[Len(user)] = account[w]
\* An INSERT that was refused without a failure met a row of its name.
RefusedStored ==
  \A w \in Workers : pc[w] = "insert" /\ res[w] => RowsOf(account[w].name) # {}
CacheInv ==
  OneInserts /\ NewIsLast /\ (failures = 0 => RefusedStored) /\ CacheFollowsTable

SettledOf(n) == RowsOf(n) \cap Settled
Unsettled == \E w \in Workers : pc[w] = "insert" /\ ~res[w]

\* What CacheFollowsTable says of one name with the settled rows S.
Follows(n, S) ==
  LET Old == S \cap 1..loaded
  IN IF S = {} THEN ~Known(n)
     ELSE IF Old # {} THEN \E i \in Old : users[n] = user[i].passwd
     ELSE \A i \in S : (\A j \in S : i <= j) => users[n] = user[i].passwd

LEMMA FollowsEach == CacheFollowsTable <=> (failures = 0 => \A n \in Names : Follows(n, SettledOf(n)))
BY DEF CacheFollowsTable, Follows, SettledOf

\* A nonempty set of positions has a first one.
LEMMA MinExists ==
  ASSUME NEW S, S \subseteq Nat, S # {}
  PROVE  \E i \in S : \A j \in S : i <= j
<1> DEFINE R == OpToRel(<, Nat)
<1>1. \A m, d \in Nat : <<m, d>> \notin R => d <= m  BY DEF OpToRel
<1>2. \E d \in S : \A m \in S : <<m, d>> \notin R
  <2> HIDE DEF R
  <2>1. IsWellFoundedOn(R, Nat)  BY NatLessThanWellFounded DEF R
  <2> QED  BY <2>1, WFMin
<1> HIDE DEF R
<1> QED  BY <1>1, <1>2

\* A name with settled rows has the password of one of them in the map.
LEMMA FollowsKnown ==
  ASSUME TypeOK, NEW n \in Names, NEW S, S \subseteq DOMAIN user, S # {}, Follows(n, S)
  PROVE  Known(n)
<1> DEFINE Old == S \cap 1..loaded
<1>1. DOMAIN user = 1..Len(user) /\ Len(user) \in Nat
      /\ \A i \in DOMAIN user : user[i].passwd \in Passwords
  BY RowTypes
<1>2. Old \subseteq 1..Len(user) /\ S \subseteq Nat  BY <1>1
<1>3. \E i \in S : users[n] = user[i].passwd
  <2>1. CASE Old # {}
    BY <2>1 DEF Follows
  <2>2. CASE Old = {}
    <3>1. \E i \in S : \A j \in S : i <= j  BY <1>2, MinExists
    <3> QED  BY <2>2, <3>1 DEF Follows
  <2> QED  BY <2>1, <2>2
<1> QED  BY <1>1, <1>3, UserTableAssumption DEF Known

LEMMA SettledIs ==
  ASSUME TypeOK
  PROVE  Settled = IF Unsettled THEN DOMAIN user \ {Len(user)} ELSE DOMAIN user
BY DEF Settled, Unsettled

LEMMA InitCache == Init => CacheInv
<1> SUFFICES ASSUME Init PROVE CacheInv  OBVIOUS
<1>1. \A n \in Names : SettledOf(n) = {} /\ ~Known(n)
  BY DEF Init, SettledOf, RowsOf, Known
<1> QED
  BY <1>1, FollowsEach DEF Init, CacheInv, OneInserts, NewIsLast, RefusedStored, Follows

LEMMA OneInsertsStep == TypeOK /\ OneInserts /\ [Next]_vars => OneInserts'
BY DEF TypeOK, OneInserts, Next, Worker, Request, Login, Compare, Find, Lock, free, Insert,
   QuerySucceeds, QueryFails, Restart, Goto, vars

LEMMA UserKept ==
  ASSUME TypeOK, [Next]_vars
  PROVE  /\ \A i \in DOMAIN user : i \in DOMAIN user' /\ user'[i] = user[i]
         /\ user' = user \/ \E w \in Workers : QuerySucceeds(w)
<1>1. user' = user \/ \E w \in Workers : QuerySucceeds(w)
  BY DEF Next, Worker, Restart, Request, Login, Compare, Find, Lock, QueryFails, Insert, vars
<1>2. ASSUME NEW w \in Workers, QuerySucceeds(w)
      PROVE  \A i \in DOMAIN user : i \in DOMAIN user' /\ user'[i] = user[i]
  <2>1. user' = Append(user, account[w])  BY <1>2 DEF QuerySucceeds
  <2> QED  BY <2>1, RowTypes
<1> QED  BY <1>1, <1>2

LEMMA NewIsLastStep ==
  TypeOK /\ Busy /\ OneInserts /\ NewIsLast /\ [Next]_vars => NewIsLast'
<1> SUFFICES ASSUME TypeOK, Busy, OneInserts, NewIsLast, [Next]_vars,
                    NEW w \in Workers, pc'[w] = "insert", ~res'[w]
             PROVE  Len(user') > loaded' /\ user'[Len(user')] = account'[w]
  BY DEF NewIsLast
<1>1. CASE QuerySucceeds(w)
  <2>1. /\ user' = Append(user, account[w]) /\ UNCHANGED <<account, loaded>>
        /\ account[w] \in Accounts /\ loaded \in 0..Len(user)
    BY <1>1 DEF QuerySucceeds, Goto, Busy, TypeOK
  <2>2. Len(user') = Len(user) + 1 /\ user'[Len(user) + 1] = account[w]
    BY <2>1, RowTypes
  <2> QED  BY <2>1, <2>2, RowTypes
<1>2. CASE ~QuerySucceeds(w)
  <2>1. pc[w] = "insert" /\ ~res[w] /\ UNCHANGED loaded /\ account'[w] = account[w]
    BY <1>2 DEF TypeOK, Next, Worker, Request, Login, Compare, Find, Lock, Insert, QuerySucceeds,
      QueryFails, Restart, Goto, vars
  <2>2. \A v \in Workers : ~QuerySucceeds(v)
    BY <1>2, <2>1 DEF QuerySucceeds, Goto, OneInserts
  <2>3. user' = user  BY <2>2, UserKept
  <2> QED  BY <2>1, <2>3 DEF NewIsLast
<1> QED  BY <1>1, <1>2

LEMMA RefusedStep ==
  TypeOK /\ RefusedStored /\ failures = 0 /\ failures' = 0 /\ [Next]_vars => RefusedStored'
<1> SUFFICES ASSUME TypeOK, RefusedStored, failures = 0, failures' = 0, [Next]_vars,
                    NEW w \in Workers, pc'[w] = "insert", res'[w]
             PROVE  RowsOf(account[w].name)' # {}
  BY DEF RefusedStored
<1>1. account'[w] = account[w]
  BY DEF TypeOK, Next, Worker, Request, Login, Compare, Find, Lock, Insert, QuerySucceeds,
    QueryFails, Restart, Goto, vars
<1>2. RowsOf(account[w].name) # {}
  <2>1. CASE QueryFails(w)
    BY <2>1 DEF QueryFails, Accepted
  <2>2. CASE ~QueryFails(w)
    <3>1. pc[w] = "insert" /\ res[w]
      BY <2>2 DEF TypeOK, Next, Worker, Request, Login, Compare, Find, Lock, Insert, QuerySucceeds,
        QueryFails, Restart, Goto, vars
    <3> QED  BY <3>1 DEF RefusedStored
  <2> QED  BY <2>1, <2>2
<1> QED  BY <1>1, <1>2, UserKept DEF RowsOf

\* The steps that leave map and table alone settle nothing.
LEMMA FollowsStays ==
  ASSUME TypeOK, CacheFollowsTable, failures = 0, UNCHANGED <<users, user, loaded>>,
         \A w \in Workers : (pc'[w] = "insert" /\ ~res'[w]) <=> (pc[w] = "insert" /\ ~res[w])
  PROVE  CacheFollowsTable'
<1>1. Settled' = Settled  BY DEF Settled
<1>2. \A n : RowsOf(n)' = RowsOf(n) /\ Known(n)' = Known(n)  BY DEF RowsOf, Known
<1> QED  BY <1>1, <1>2 DEF CacheFollowsTable

\* An INSERT that succeeds adds a row, which is not settled yet.
LEMMA FollowsSuccess ==
  ASSUME TypeOK, OneInserts, CacheFollowsTable, failures = 0,
         NEW w \in Workers, QuerySucceeds(w)
  PROVE  CacheFollowsTable'
<1>1. /\ pc[w] = "query" /\ pc'[w] = "insert" /\ ~res'[w] /\ user' = Append(user, account[w])
      /\ UNCHANGED <<users, loaded>>
  BY DEF QuerySucceeds, Goto, TypeOK
<1>2. /\ DOMAIN user = 1..Len(user) /\ Len(user) \in Nat /\ DOMAIN user' = 1..Len(user)+1
      /\ Len(user') = Len(user) + 1 /\ \A i \in DOMAIN user : user'[i] = user[i]
  BY <1>1, RowTypes
<1>3. ~Unsettled  BY <1>1 DEF Unsettled, OneInserts
<1>4. Unsettled'  BY <1>1 DEF Unsettled
<1>5. Settled = DOMAIN user  BY <1>3, SettledIs
<1>6. Settled' = DOMAIN user
  <2>1. Settled' = DOMAIN user' \ {Len(user')}  BY <1>4 DEF Settled, Unsettled
  <2> QED  BY <1>2, <2>1
<1>7. ASSUME NEW n PROVE SettledOf(n)' = SettledOf(n)
  BY <1>2, <1>5, <1>6 DEF SettledOf, RowsOf
<1>8. \A n : SettledOf(n) \subseteq DOMAIN user  BY DEF SettledOf, RowsOf
<1>9. ASSUME NEW n \in Names, Follows(n, SettledOf(n)) PROVE Follows(n, SettledOf(n))'
  <2> SUFFICES ASSUME NEW S, S = SettledOf(n), S \subseteq DOMAIN user, Follows(n, S)
               PROVE  Follows(n, S)'
    BY <1>7, <1>8, <1>9
  <2> QED  BY <1>1, <1>2 DEF Follows, Known
<1> QED  BY <1>9, FollowsEach DEF CacheFollowsTable, Follows, SettledOf

\* The insertion into the map settles the row, unless the name is there.
LEMMA FollowsInsert ==
  ASSUME TypeOK, Busy, OneInserts, NewIsLast, RefusedStored, CacheFollowsTable, failures = 0,
         NEW w \in Workers, Insert(w)
  PROVE  CacheFollowsTable'
<1> SUFFICES ASSUME NEW m, m = account[w].name PROVE CacheFollowsTable'  OBVIOUS
<1>1. /\ pc[w] = "insert" /\ pc' = [pc EXCEPT ![w] = "idle"]
      /\ UNCHANGED <<user, loaded, account, res>> /\ cached(account[w])
      /\ account[w] \in Accounts
  BY DEF Insert, Goto, Busy
<1>2. m \in Names /\ account[w].passwd \in Passwords  BY <1>1 DEF Accounts
<1>3. /\ users'[m] = IF Known(m) THEN users[m] ELSE account[w].passwd
      /\ \A n \in Names : n # m => users'[n] = users[n]
  BY <1>1, <1>2 DEF cached, TypeOK
<1>4. DOMAIN user = 1..Len(user) /\ Len(user) \in Nat /\ loaded \in Nat
  <2>1. DOMAIN user = 1..Len(user) /\ Len(user) \in Nat  BY RowTypes
  <2>2. loaded \in 0..Len(user)  BY DEF TypeOK
  <2> QED  BY <2>1, <2>2
<1>5. Settled' = DOMAIN user
  <2>1. \A v \in Workers : pc'[v] # "insert"  BY <1>1 DEF OneInserts, TypeOK
  <2> QED  BY <1>1, <2>1 DEF Settled
<1>6. \A n : SettledOf(n)' = RowsOf(n) /\ SettledOf(n) \subseteq DOMAIN user
  BY <1>1, <1>5 DEF SettledOf, RowsOf
<1>7. \A n \in Names : Follows(n, SettledOf(n))  BY FollowsEach
<1>8. SettledOf(m) # {} => Known(m)  BY <1>2, <1>6, <1>7, FollowsKnown
<1> SUFFICES ASSUME NEW n \in Names PROVE Follows(n, SettledOf(n))'
  BY DEF CacheFollowsTable, Follows, SettledOf
<1>9. SUFFICES ASSUME NEW S, S = SettledOf(n), NEW T, T = RowsOf(n), T = SettledOf(n)',
                      Follows(n, S), S \subseteq DOMAIN user
               PROVE  Follows(n, T)'
  BY <1>6, <1>7 DEF Follows
<1>10. CASE S = T /\ users'[n] = users[n]
  BY <1>1, <1>9, <1>10 DEF Follows, Known
<1>11. CASE res[w]
  <2>1. ~Unsettled  BY <1>1, <1>11 DEF Unsettled, OneInserts
  <2>2. Settled = DOMAIN user  BY <2>1, SettledIs
  <2>3. \A k : SettledOf(k) = RowsOf(k)  BY <2>2 DEF SettledOf, RowsOf
  <2>4. Known(m)  BY <1>1, <1>8, <1>11, <2>3 DEF RefusedStored
  <2> QED  BY <1>3, <1>9, <1>10, <2>3, <2>4
<1>12. CASE ~res[w]
  <2> SUFFICES ASSUME NEW last, last = Len(user) PROVE Follows(n, T)'  OBVIOUS
  <2>1. last > loaded /\ user[last] = account[w] /\ last \in DOMAIN user /\ last \in Nat
    BY <1>1, <1>4, <1>12 DEF NewIsLast
  <2>2. Unsettled  BY <1>1, <1>12 DEF Unsettled
  <2>3. Settled = DOMAIN user \ {last}  BY <2>2, SettledIs
  <2>4. CASE n # m
    <3>1. S = T  BY <1>9, <2>1, <2>3, <2>4 DEF SettledOf, RowsOf
    <3> QED  BY <1>3, <1>10, <2>4, <3>1
  <2>5. CASE n = m
    <3>1. T = S \cup {last} /\ last \notin S
      BY <1>9, <2>1, <2>3, <2>5 DEF SettledOf, RowsOf
    <3>2. T \cap 1..loaded = S \cap 1..loaded  BY <1>4, <2>1, <3>1
    <3>3. CASE S = {}
      <4>1. users'[n] = user[last].passwd
        BY <1>3, <1>9, <2>1, <2>5, <3>3 DEF Follows
      <4> QED  BY <1>1, <3>1, <3>2, <3>3, <4>1 DEF Follows
    <3>4. CASE S # {}
      <4>1. users'[n] = users[n]  BY <1>3, <1>8, <1>9, <2>5, <3>4
      <4>2. CASE S \cap 1..loaded # {}
        BY <1>1, <1>9, <3>1, <3>2, <3>4, <4>1, <4>2 DEF Follows
      <4>3. CASE S \cap 1..loaded = {}
        <5>1. ASSUME NEW i \in T, \A j \in T : i <= j PROVE users'[n] = user[i].passwd
          <6>1. PICK k \in S : TRUE  BY <3>4
          <6>2. k < last /\ i <= k  BY <1>4, <1>9, <3>1, <5>1, <6>1
          <6>3. i \in S  BY <1>4, <2>1, <3>1, <6>2, <1>9, <6>1
          <6> QED  BY <1>9, <3>1, <3>4, <4>1, <4>3, <5>1, <6>3 DEF Follows
        <5> QED  BY <1>1, <3>1, <3>2, <4>3, <5>1 DEF Follows
      <4> QED  BY <4>2, <4>3
    <3> QED  BY <3>3, <3>4
  <2> QED  BY <2>4, <2>5
<1> QED  BY <1>11, <1>12

\* initmysql_result() keeps a row of each name.
LEMMA FollowsRestart ==
  ASSUME TypeOK, Restart
  PROVE  CacheFollowsTable'
<1>1. /\ loaded' = Len(user) /\ UNCHANGED user /\ \A w \in Workers : pc'[w] = "idle"
      /\ \A n \in Names : users'[n] \in loadedOf(n)
  BY DEF Restart
<1>2. DOMAIN user = 1..Len(user) /\ Len(user) \in Nat  BY RowTypes
<1>3. Settled' = DOMAIN user  BY <1>1 DEF Settled
<1> SUFFICES ASSUME NEW n \in Names PROVE Follows(n, SettledOf(n))'
  BY DEF CacheFollowsTable, Follows, SettledOf
<1>4. SUFFICES ASSUME NEW T, T = RowsOf(n), T = SettledOf(n)' PROVE Follows(n, T)'
  <2>1. SettledOf(n)' = RowsOf(n)  BY <1>1, <1>3 DEF SettledOf, RowsOf
  <2> QED  BY <2>1 DEF Follows
<1>5. T \cap 1..loaded' = T
  BY <1>1, <1>2, <1>4 DEF RowsOf
<1>6. CASE T = {}  BY <1>1, <1>4, <1>6 DEF Follows, Known, loadedOf
<1>7. CASE T # {}
  <2>1. \E i \in T : users'[n] = user[i].passwd  BY <1>1, <1>4, <1>7 DEF loadedOf
  <2> QED  BY <1>1, <1>5, <1>7, <2>1 DEF Follows
<1> QED  BY <1>6, <1>7

LEMMA CacheStep == TypeOK /\ Busy /\ CacheInv /\ [Next]_vars => CacheInv'
<1> SUFFICES ASSUME TypeOK, Busy, CacheInv, [Next]_vars PROVE CacheInv'  OBVIOUS
<1> USE DEF CacheInv
<1>1. OneInserts' /\ NewIsLast'  BY OneInsertsStep, NewIsLastStep
<1>2. failures' = 0 => failures = 0
  <2>1. failures \in Nat  BY UserTableAssumption DEF TypeOK
  <2> QED
    BY <2>1 DEF Next, Worker, Request, Login, Compare, Find, Lock, Insert, QuerySucceeds, QueryFails,
      Restart, budgets, vars
<1>3. failures' = 0 => RefusedStored'  BY <1>2, RefusedStep
<1>4. ASSUME failures' = 0 PROVE CacheFollowsTable'
  <2>0. failures = 0 /\ RefusedStored  BY <1>2, <1>4
  <2>1. ASSUME NEW w \in Workers, QuerySucceeds(w) PROVE CacheFollowsTable'
    BY <2>0, <2>1, FollowsSuccess
  <2>2. ASSUME NEW w \in Workers, Insert(w) PROVE CacheFollowsTable'
    BY <2>0, <2>2, FollowsInsert
  <2>3. CASE Restart  BY <2>3, FollowsRestart
  <2>4. ASSUME NEW w \in Workers,
               Request(w) \/ Login(w) \/ Compare(w) \/ Find(w) \/ Lock(w) \/ QueryFails(w)
        PROVE  CacheFollowsTable'
    <3>1. /\ UNCHANGED <<users, user, loaded>>
          /\ \A v \in Workers :
               (pc'[v] = "insert" /\ ~res'[v]) <=> (pc[v] = "insert" /\ ~res[v])
      BY <2>4 DEF Request, Login, Compare, Find, Lock, QueryFails, Goto, TypeOK
    <3> QED  BY <2>0, <3>1, FollowsStays
  <2>5. CASE UNCHANGED vars  BY <2>0, <2>5, FollowsStays DEF vars
  <2> QED  BY <2>1, <2>2, <2>3, <2>4, <2>5 DEF Next, Worker
<1>5. failures' # 0 => CacheFollowsTable'  BY DEF CacheFollowsTable
<1> QED  BY <1>1, <1>3, <1>4, <1>5

-----------------------------------------------------------------------------
(* Names without a row *)

\* They are in the map, or on their way into it after an INSERT that failed.
Missing == {n \in Names : /\ RowsOf(n) = {}
                          /\ \/ Known(n)
                             \/ \E w \in Workers : pc[w] = "insert" /\ res[w] /\ account[w].name = n}
FewMissing == IsFiniteSet(Missing) /\ Cardinality(Missing) <= failures

LEMMA FewerMissing ==
  ASSUME NEW S, NEW T, NEW k \in Nat, S \subseteq T, IsFiniteSet(T), Cardinality(T) <= k
  PROVE  IsFiniteSet(S) /\ Cardinality(S) <= k
<1>1. IsFiniteSet(S) /\ Cardinality(S) <= Cardinality(T)  BY FS_Subset
<1>2. Cardinality(S) \in Nat /\ Cardinality(T) \in Nat  BY <1>1, FS_CardinalityType
<1> QED  BY <1>1, <1>2

LEMMA OneMoreMissing ==
  ASSUME NEW S, NEW T, NEW k \in Nat, NEW m, S \subseteq T \cup {m}, IsFiniteSet(T),
         Cardinality(T) <= k
  PROVE  IsFiniteSet(S) /\ Cardinality(S) <= k + 1
<1>1. /\ IsFiniteSet(T \cup {m})
      /\ Cardinality(T \cup {m}) = IF m \in T THEN Cardinality(T) ELSE Cardinality(T) + 1
  BY FS_AddElement
<1>2. Cardinality(T) \in Nat  BY FS_CardinalityType
<1>3. Cardinality(T \cup {m}) <= k + 1  BY <1>1, <1>2
<1>4. k + 1 \in Nat  OBVIOUS
<1> QED  BY <1>1, <1>3, <1>4, FewerMissing

\* No row goes away.
LEMMA RowsOfGrow ==
  ASSUME TypeOK, [Next]_vars, NEW n, RowsOf(n) # {}
  PROVE  RowsOf(n)' # {}
BY UserKept DEF RowsOf

\* Only an INSERT that fails for want of a database adds a name.
LEMMA MissingStep ==
  ASSUME TypeOK, Busy, InsertedIsStored, [Next]_vars
  PROVE  \/ Missing' \subseteq Missing /\ failures' >= failures
         \/ failures' = failures + 1 /\ \E m : Missing' \subseteq Missing \cup {m}
<1>0. failures \in Nat  BY UserTableAssumption DEF TypeOK
<1>1. CASE /\ UNCHANGED <<users, user, failures>>
           /\ \A w \in Workers : pc'[w] = "insert" /\ res'[w] =>
                pc[w] = "insert" /\ res[w] /\ account'[w] = account[w]
  BY <1>0, <1>1 DEF Missing, Known, RowsOf
<1>2. ASSUME NEW w \in Workers, QuerySucceeds(w)
      PROVE  Missing' \subseteq Missing /\ failures' >= failures
  <2>1. /\ UNCHANGED <<users, account, failures>>
        /\ \A v \in Workers : pc'[v] = "insert" /\ res'[v] => pc[v] = "insert" /\ res[v]
    BY <1>2 DEF QuerySucceeds, Goto, TypeOK, budgets
  <2>2. \A n : RowsOf(n)' = {} => RowsOf(n) = {}  BY RowsOfGrow
  <2>3. Missing' \subseteq Missing  BY <2>1, <2>2 DEF Missing, Known
  <2> QED  BY <1>0, <2>1, <2>3
<1>3. ASSUME NEW w \in Workers, QueryFails(w)
      PROVE  \/ Missing' \subseteq Missing /\ failures' >= failures
             \/ failures' = failures + 1 /\ \E m : Missing' \subseteq Missing \cup {m}
  <2>1. /\ UNCHANGED <<users, user, account>>
        /\ \A v \in Workers : pc'[v] = "insert" /\ res'[v] =>
             v = w \/ (pc[v] = "insert" /\ res[v])
    BY <1>3 DEF QueryFails, Goto, TypeOK
  <2>2. \A n \in Missing' : n \in Missing \/ n = account[w].name
    BY <2>1 DEF Missing, Known, RowsOf
  <2>3. CASE failures' = failures + 1
    <3>1. Missing' \subseteq Missing \cup {account[w].name}  BY <2>2
    <3> QED  BY <2>3, <3>1
  <2>4. CASE ~Accepted(account[w]) /\ UNCHANGED failures
    <3> SUFFICES ASSUME NEW m, m = account[w].name PROVE Missing' \subseteq Missing
      BY <1>0, <2>4
    <3>1. RowsOf(m) # {}  BY <2>4 DEF Accepted
    <3>2. RowsOf(m)' # {}  BY <3>1, RowsOfGrow
    <3>3. m \notin Missing'  BY <3>2 DEF Missing
    <3> QED  BY <2>2, <3>3
  <2> QED  BY <1>3, <2>3, <2>4 DEF QueryFails
<1>4. ASSUME NEW w \in Workers, Insert(w)
      PROVE  Missing' \subseteq Missing /\ failures' >= failures
  <2>1. /\ UNCHANGED <<user, account, res, failures>> /\ pc[w] = "insert"
        /\ account[w] \in Accounts /\ cached(account[w])
        /\ \A v \in Workers : pc'[v] = "insert" => pc[v] = "insert"
    BY <1>4 DEF Insert, Goto, TypeOK, Busy, budgets
  <2>2. \A n \in Names : Known(n)' => Known(n) \/ n = account[w].name
    BY <2>1 DEF cached, Known, TypeOK, Accounts
  <2>3. ~res[w] => RowsOf(account[w].name) # {}
    BY <2>1 DEF InsertedIsStored, Rows, RowsOf
  <2>4. Missing' \subseteq Missing  BY <2>1, <2>2, <2>3 DEF Missing, RowsOf
  <2> QED  BY <1>0, <2>1, <2>4
<1>5. ASSUME Restart
      PROVE  Missing' \subseteq Missing /\ failures' >= failures
  <2>1. /\ UNCHANGED <<user, failures>> /\ \A w \in Workers : pc'[w] = "idle"
        /\ \A n \in Names : users'[n] \in loadedOf(n)
    BY <1>5 DEF Restart
  <2>2. \A n \in Names : Known(n)' => RowsOf(n) # {}  BY <2>1 DEF loadedOf, Known
  <2>3. Missing' = {}  BY <2>1, <2>2 DEF Missing, RowsOf
  <2> QED  BY <1>0, <2>1, <2>3
<1>6. ASSUME NEW w \in Workers,
             Request(w) \/ Login(w) \/ Compare(w) \/ Find(w) \/ Lock(w)
      PROVE  /\ UNCHANGED <<users, user, failures>>
             /\ \A v \in Workers : pc'[v] = "insert" /\ res'[v] =>
                  pc[v] = "insert" /\ res[v] /\ account'[v] = account[v]
  BY <1>6 DEF Request, Login, Compare, Find, Lock, Goto, TypeOK, budgets
<1>7. CASE UNCHANGED vars  BY <1>1, <1>7 DEF vars, budgets
<1> QED  BY <1>1, <1>2, <1>3, <1>4, <1>5, <1>6, <1>7 DEF Next, Worker

LEMMA FewStep ==
  TypeOK /\ Busy /\ InsertedIsStored /\ FewMissing /\ [Next]_vars => FewMissing'
<1> SUFFICES ASSUME TypeOK, Busy, InsertedIsStored, FewMissing, [Next]_vars PROVE FewMissing'
  OBVIOUS
<1>1. failures \in Nat /\ failures' \in Nat  BY TypeStep, UserTableAssumption DEF TypeOK
<1>2. CASE Missing' \subseteq Missing /\ failures' >= failures
  <2>1. IsFiniteSet(Missing') /\ Cardinality(Missing') <= failures
    BY <1>1, <1>2, FewerMissing DEF FewMissing
  <2>2. Cardinality(Missing') \in Nat  BY <2>1, FS_CardinalityType
  <2> QED  BY <1>1, <1>2, <2>1, <2>2 DEF FewMissing
<1>3. CASE failures' = failures + 1 /\ \E m : Missing' \subseteq Missing \cup {m}
  <2>1. PICK m : Missing' \subseteq Missing \cup {m}  BY <1>3
  <2>2. IsFiniteSet(Missing') /\ Cardinality(Missing') <= failures + 1
    BY <1>1, <2>1, OneMoreMissing DEF FewMissing
  <2> QED  BY <1>3, <2>2 DEF FewMissing
<1> QED  BY <1>2, <1>3, MissingStep

LEMMA InitFew == Init => FewMissing
<1> SUFFICES ASSUME Init PROVE FewMissing  OBVIOUS
<1>1. Missing = {}  BY DEF Init, Missing, Known
<1> QED  BY <1>1, FS_EmptySet, UserTableAssumption DEF Init, FewMissing

LEMMA FewUnstoredNow == TypeOK /\ FewMissing => UnstoredNames
<1> SUFFICES ASSUME TypeOK, FewMissing PROVE UnstoredNames  OBVIOUS
<1>1. failures \in Nat  BY UserTableAssumption DEF TypeOK
<1>2. {n \in Names : Known(n) /\ RowsOf(n) = {}} \subseteq Missing  BY DEF Missing
<1> QED  BY <1>1, <1>2, FewerMissing DEF FewMissing, UnstoredNames

-----------------------------------------------------------------------------
\* The inductive invariant holds in every behaviour of the workers and restarts.
THEOREM Invariant == Spec => []Inv
<1>1. Inv /\ [Next]_vars => Inv'
  BY TypeStep, BusyStep, InsertedStep, ToldStep, WelcomeStep DEF Inv
<1> QED  BY InitInv, <1>1, PTL DEF Spec

\* The map goes from names to passwords, also after initmysql_result().
THEOREM TypeCorrect == Spec => []TypeOK
<1>1. Inv => TypeOK  BY DEF Inv
<1> QED  BY <1>1, Invariant, PTL

\* A registration answered by log.html is in the table.
THEOREM ToldStored == Spec => []ToldIsStored
<1>1. Inv => ToldIsStored  BY DEF Inv
<1> QED  BY <1>1, Invariant, PTL

\* No registration changes the password of a user who was welcomed.
THEOREM WelcomeKept == Spec => []WelcomeLasts
<1>1. Inv => WelcomeLasts  BY DEF Inv
<1> QED  BY <1>1, Invariant, PTL

\* While requests come one at a time no name gets a second row, with or without a unique
\* key, whatever INSERTs fail and however often the server starts again.
THEOREM NamesUnique == Spec => []AloneNamesUnique
<1>1. Inv /\ AloneInv /\ [Next]_vars => AloneInv'  BY AloneStep DEF Inv
<1>2. Inv /\ AloneInv => AloneNamesUnique  BY OneRow DEF Inv
<1> QED  BY InitAlone, <1>1, <1>2, Invariant, PTL DEF Spec

\* Until an INSERT fails for want of a database the map follows the table, through races
\* of registrations and restarts: m_lock keeps INSERTs and insertions in one order.
THEOREM CacheFollows == Spec => []CacheFollowsTable
<1>1. Inv /\ CacheInv /\ [Next]_vars => CacheInv'  BY CacheStep DEF Inv
<1>2. CacheInv => CacheFollowsTable  BY DEF CacheInv
<1> QED  BY InitCache, <1>1, <1>2, Invariant, PTL DEF Spec

\* The map has at most one name without a row for each INSERT that failed for want of a
\* database; races, refused INSERTs, logins and restarts add none.
THEOREM FewUnstored == Spec => []UnstoredNames
<1>1. Inv /\ FewMissing /\ [Next]_vars => FewMissing'  BY FewStep DEF Inv
<1>2. Inv /\ FewMissing => UnstoredNames  BY FewUnstoredNow DEF Inv
<1> QED  BY InitFew, <1>1, <1>2, Invariant, PTL DEF Spec
=============================================================================
