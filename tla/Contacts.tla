------------------------------ MODULE Contacts ------------------------------
(***************************************************************************)
(* Cities, the stores in them and their weekly hours (CitiesService,       *)
(* StoresService).  The hours of a store are replaced as a whole, in a     *)
(* transaction that first updates, and so locks, the store's row; but a    *)
(* patch of the hours alone updates no column of it, and locks nothing.    *)
(***************************************************************************)
CONSTANTS
  Cities,      \* cities.id: a bound; an id is used again after a delete
  Stores,      \* stores.id: the same
  Requests,    \* requests the API serves at the same time
  CityNames,   \* normalized names: trimmed and in lower case
  Weeks,       \* validated weekly hours: seven different weekdays
  None         \* absent

\* Whoever instantiates the module assumes this of the constants.
NoneIsNoId == None \notin Cities \cup Stores /\ None \notin CityNames /\ None \notin Weeks

VARIABLES
  city,     \* cities: the normalized name; None if there is no row
  store,    \* stores: the city
  hours,    \* store_hours: the weeks whose rows the store has
  job,      \* the local state of each request, its open transaction included
  collided  \* history: createMany met rows of a replacement that locks the row
            \* as well

vars == <<city, store, hours, job, collided>>

Idle == [at |-> "idle"]
Job  == [at : {"count", "dropCity", "newStore", "begin", "tx", "deleteHours", "insertHours",
               "commit"},
         city : Cities \cup {None}, store : Stores \cup {None}, week : Weeks \cup {None},
         row : BOOLEAN,            \* the patch has a column of the store's row
         deleted : SUBSET Weeks,   \* the rows that deleteMany sees, and then those it deleted
         raced : BOOLEAN]          \* history: those rows went to one of two without a row lock

\* Every variable has its type.
TypeOK ==
  /\ city \in [Cities -> CityNames \cup {None}]
  /\ store \in [Stores -> Cities \cup {None}]
  /\ hours \in [Stores -> SUBSET Weeks]
  /\ job \in [Requests -> {Idle} \cup Job]
  /\ collided \in BOOLEAN

Init ==
  /\ city = [c \in Cities |-> None]
  /\ store = [s \in Stores |-> None]
  /\ hours = [s \in Stores |-> {}]
  /\ job = [p \in Requests |-> Idle]
  /\ collided = FALSE

Put(p, j)      == job' = [job EXCEPT ![p] = j]
StoresIn(c)    == {s \in Stores : store[s] = c}
NameIsFree(n)  == \A c \in Cities : city[c] # n
TheJob(at, c, s, w, row) ==
  [at |-> at, city |-> c, store |-> s, week |-> w, row |-> row, deleted |-> {}, raced |-> FALSE]

InTransaction == {"tx", "deleteHours", "insertHours", "commit"}

\* The updates of a store that are under way, in these stages.
Updates(s, stages) == {p \in Requests : job[p].at \in stages /\ job[p].store = s}

LockedBy_Nobody(s) == {}

\* The requests that hold the row lock of a store: an update of one of its columns takes it,
\* the end of the transaction gives it back.
LockedBy(s) == {p \in Updates(s, InTransaction) : job[p].row}

\* The requests that hold rows of its hours: those they deleted, and then inserted.
HoursHeldBy(s) == {p \in Updates(s, {"insertHours", "commit"}) : job[p].deleted # {}}

-----------------------------------------------------------------------------
(* Cities: create, update, delete.  A taken name is a 409.                   *)

CreateCity(c, name) ==
  /\ city[c] = None /\ NameIsFree(name)
  /\ city' = [city EXCEPT ![c] = name]
  /\ UNCHANGED <<store, hours, job, collided>>

RenameCity(c, name) ==
  /\ city[c] # None /\ NameIsFree(name)
  /\ city' = [city EXCEPT ![c] = name]
  /\ UNCHANGED <<store, hours, job, collided>>

BeginDeleteCity(p, c) ==
  /\ job[p] = Idle /\ city[c] # None
  /\ Put(p, TheJob("count", c, None, None, FALSE))
  /\ UNCHANGED <<city, store, hours, collided>>

\* A city with stores is a 409.
CountStores(p) ==
  /\ job[p].at = "count"
  /\ Put(p, IF StoresIn(job[p].city) # {} THEN Idle ELSE [job[p] EXCEPT !.at = "dropCity"])
  /\ UNCHANGED <<city, store, hours, collided>>

\* ON DELETE RESTRICT: the stores, committed or about to be, that keep a city.
CityRestricts(c) ==
  StoresIn(c) \cup {s \in Stores : \E p \in LockedBy(s) : job[p].city = c}

DeleteCity(p) ==
  /\ job[p].at = "dropCity"
  /\ CityRestricts(job[p].city) = {}
  /\ city' = [city EXCEPT ![job[p].city] = None]
  /\ Put(p, Idle)
  /\ UNCHANGED <<store, hours, collided>>

-----------------------------------------------------------------------------
(* Stores.                                                                   *)

\* create: assertCity.
BeginCreateStore(p, c, w) ==
  /\ job[p] = Idle /\ city[c] # None
  /\ Put(p, TheJob("newStore", c, None, w, FALSE))
  /\ UNCHANGED <<city, store, hours, collided>>

\* create: the store and its hours, a nested write that is one transaction.
CreateStore(p, s) ==
  /\ job[p].at = "newStore"
  /\ store[s] = None /\ city[job[p].city] # None
  /\ store' = [store EXCEPT ![s] = job[p].city]
  /\ hours' = [hours EXCEPT ![s] = {job[p].week}]
  /\ Put(p, Idle)
  /\ UNCHANGED <<city, collided>>

\* update: findUnique, and assertCity if the body names a city.  No week: no hours sent.
BeginUpdateStore(p, s, c, w, row) ==
  /\ job[p] = Idle /\ store[s] # None
  /\ c # None => row /\ city[c] # None
  /\ Put(p, TheJob("begin", c, s, w, row))
  /\ UNCHANGED <<city, store, hours, collided>>

\* update: the first statement.  It waits for the row lock if it has a column to write, and
\* otherwise only reads the row.
TouchStore(p) ==
  LET j == job[p] IN
  /\ j.at = "begin"
  /\ j.row => LockedBy(j.store) = {}
  /\ j.city # None => city[j.city] # None
  /\ Put(p, [j EXCEPT !.at = IF j.week = None THEN "commit" ELSE "tx"])
  /\ UNCHANGED <<city, store, hours, collided>>

\* update: deleteMany takes its snapshot of the hours.
SeeHours(p) ==
  /\ job[p].at = "tx"
  /\ Put(p, [job[p] EXCEPT !.at = "deleteHours", !.deleted = hours[job[p].store]])
  /\ UNCHANGED <<city, store, hours, collided>>

\* update: deleteMany waits for whoever deleted a row that it sees, and skips what is gone.
DeleteHours(p) ==
  /\ job[p].at = "deleteHours"
  /\ HoursHeldBy(job[p].store) = {}
  /\ Put(p, [job[p] EXCEPT !.at = "insertHours"])
  /\ UNCHANGED <<city, store, hours, collided>>

\* update: createMany; it waits for rows of the same weekday that are not committed yet, and
\* a committed one ends the transaction.
InsertHours(p) ==
  LET j == job[p] IN
  /\ j.at = "insertHours"
  /\ HoursHeldBy(j.store) \subseteq {p}
  /\ IF hours[j.store] \subseteq j.deleted
     THEN Put(p, [j EXCEPT !.at = "commit"]) /\ UNCHANGED collided
     ELSE Put(p, Idle) /\ collided' = IF j.raced THEN collided ELSE TRUE
  /\ UNCHANGED <<city, store, hours>>

\* The rows that i's deleteMany saw are gone when j commits others.
Outrun(i, j) == [i EXCEPT !.deleted = {}, !.raced = @ \/ ~i.row \/ ~j.row]

\* update: what the transaction did becomes visible.
Commit(p) ==
  LET j == job[p] IN
  /\ j.at = "commit"
  /\ store' = IF j.city = None THEN store ELSE [store EXCEPT ![j.store] = j.city]
  /\ hours' = IF j.week = None THEN hours
              ELSE [hours EXCEPT ![j.store] = (@ \ j.deleted) \cup {j.week}]
  /\ job' = [q \in Requests |->
               IF q = p THEN Idle
               ELSE IF j.week # None /\ q \in Updates(j.store, {"deleteHours"})
               THEN Outrun(job[q], j) ELSE job[q]]
  /\ UNCHANGED <<city, collided>>

\* delete: it waits for the locks on the row and on the hours that go with it (ON DELETE
\* CASCADE); the updates of the store that did not come so far fail.
DeleteStore(s) ==
  /\ store[s] # None /\ LockedBy(s) = {} /\ HoursHeldBy(s) = {}
  /\ store' = [store EXCEPT ![s] = None]
  /\ hours' = [hours EXCEPT ![s] = {}]
  /\ job' = [p \in Requests |->
               IF p \in Updates(s, {"begin"} \cup InTransaction) THEN Idle ELSE job[p]]
  /\ UNCHANGED <<city, collided>>

\* A request fails or dies; an open transaction is rolled back.
Fail(p) ==
  /\ job[p] # Idle
  /\ Put(p, Idle)
  /\ UNCHANGED <<city, store, hours, collided>>

Next ==
  \/ \E c \in Cities, n \in CityNames : CreateCity(c, n) \/ RenameCity(c, n)
  \/ \E p \in Requests, c \in Cities : BeginDeleteCity(p, c)
  \/ \E p \in Requests, c \in Cities, w \in Weeks : BeginCreateStore(p, c, w)
  \/ \E p \in Requests, s \in Stores : CreateStore(p, s)
  \/ \E p \in Requests, s \in Stores, c \in Cities \cup {None}, w \in Weeks \cup {None},
        row \in BOOLEAN : BeginUpdateStore(p, s, c, w, row)
  \/ \E p \in Requests : CountStores(p) \/ DeleteCity(p) \/ TouchStore(p) \/ Fail(p)
  \/ \E p \in Requests : SeeHours(p) \/ DeleteHours(p) \/ InsertHours(p) \/ Commit(p)
  \/ \E s \in Stores : DeleteStore(s)

Spec == Init /\ [][Next]_vars

\* A store has the city it refers to and exactly one request's week of hours, whatever
\* replaces them at the same time, patches of the hours alone included.  Two replacements
\* that both write a column of the row never trip over each other's hours: if a later one is
\* refused for them, one of the two had only hours.
StoresWhole ==
  /\ \A s \in Stores : store[s] # None => city[store[s]] # None /\ \E w \in Weeks : hours[s] = {w}
  /\ ~collided
=============================================================================
