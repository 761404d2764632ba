---------------------------- MODULE AllowedOrigins ----------------------------
(***************************************************************************)
(* AllowedOriginsService (allowed-origins/allowed-origins.service.ts): the *)
(* AllowedOrigin table and the copy of it that every running instance of   *)
(* the backend keeps in memory for the CORS callback of main.ts.           *)
(*                                                                         *)
(* The clock is kept as ages, in ticks, that stop growing once they no     *)
(* longer matter, so that behaviours are not bounded in time.              *)
(***************************************************************************)
EXTENDS Integers

CONSTANTS
    Instances,    \* running instances of the backend
    Origins,      \* origins other than localhost
    Checks,       \* isAllowed calls that may be in flight at a time
    Ttl,          \* CACHE_TTL_MS
    MaxLoad       \* bound on the time a findMany takes to return

ASSUME TimesAssumption == Ttl \in Nat /\ MaxLoad \in Nat

VARIABLES
    table,        \* the AllowedOrigin table
    cache,        \* per instance: its copy of the table, or NotLoaded
    age,          \* per instance: Date.now() - cachedAt
    check,        \* per call: the findMany it is waiting for
    writing,      \* per instance: origins whose add or remove has not returned
    changed       \* per origin: ticks since it was added or removed

vars == <<table, cache, age, check, writing, changed>>

-------------------------------------------------------------------------------

NotLoaded == [state |-> "null"]

Caches == [rows : SUBSET Origins] \cup {NotLoaded}

\* The age from which on a change must be known everywhere.
Horizon == Ttl + MaxLoad + 1

NoCheck == [pc |-> "idle"]

\* age counts the ticks since Postgres read the rows.
InFlight == [pc : {"query", "return"}, instance : Instances,
             rows : SUBSET Origins, age : 0 .. MaxLoad]

\* Every variable keeps its type; no answer of Postgres is older than MaxLoad.
TypeOK ==
    /\ table \in SUBSET Origins
    /\ cache \in [Instances -> Caches]
    /\ age \in [Instances -> 0 .. (Ttl + 1)]
    /\ check \in [Checks -> InFlight \cup {NoCheck}]
    /\ writing \in [Instances -> SUBSET Origins]
    /\ changed \in [Origins -> 0 .. Horizon]

Init ==
    /\ table \in SUBSET Origins
    /\ cache = [i \in Instances |-> NotLoaded]
    /\ age = [i \in Instances |-> 0]
    /\ check = [c \in Checks |-> NoCheck]
    /\ writing = [i \in Instances |-> {}]
    /\ changed = [o \in Origins |-> Horizon]

-------------------------------------------------------------------------------
(* add and remove: a write, and when it has returned the invalidation *)

\* The unique constraint and the missing row refuse the rest (409, 404), and
\* then nothing is invalidated.  One write per origin is in flight at a time.
Write(i, o) ==
    /\ o \notin writing[i]
    /\ writing' = [writing EXCEPT ![i] = @ \cup {o}]
    /\ changed' = [changed EXCEPT ![o] = 0]
    /\ UNCHANGED <<cache, age, check>>

Add(i, o) ==
    /\ o \notin table
    /\ table' = table \cup {o}
    /\ Write(i, o)

Remove(i, o) ==
    /\ o \in table
    /\ table' = table \ {o}
    /\ Write(i, o)

Invalidate(i, o) ==
    /\ o \in writing[i]
    /\ writing' = [writing EXCEPT ![i] = @ \ {o}]
    /\ cache' = [cache EXCEPT ![i] = NotLoaded]
    /\ UNCHANGED <<table, age, check, changed>>

-------------------------------------------------------------------------------
(* isAllowed *)

\* Mutant: the cache before it had a time to live.
NeedsLoadWhenNull(i) == cache[i] = NotLoaded

NeedsLoad(i) == cache[i] = NotLoaded \/ age[i] > Ttl

\* A call that finds the cache loaded and young answers at once and changes
\* nothing; the others query the table.
StartLoad(c, i) ==
    /\ check[c] = NoCheck
    /\ NeedsLoad(i)
    /\ check' = [check EXCEPT ![c] = [pc |-> "query", instance |-> i, rows |-> {}, age |-> 0]]
    /\ UNCHANGED <<table, cache, age, writing, changed>>

\* Postgres reads the rows.
ReadRows(c) ==
    /\ check[c].pc = "query"
    /\ check' = [check EXCEPT ![c].pc = "return", ![c].rows = table]
    /\ UNCHANGED <<table, cache, age, writing, changed>>

\* They arrive: the cache is replaced whatever happened meanwhile, and answers.
FinishLoad(c) ==
    /\ check[c].pc = "return"
    /\ cache' = [cache EXCEPT ![check[c].instance] = [rows |-> check[c].rows]]
    /\ age' = [age EXCEPT ![check[c].instance] = 0]
    /\ check' = [check EXCEPT ![c] = NoCheck]
    /\ UNCHANGED <<table, writing, changed>>

\* The query fails, the callback answers with the error.
LoadFails(c) ==
    /\ check[c] # NoCheck
    /\ check' = [check EXCEPT ![c] = NoCheck]
    /\ UNCHANGED <<table, cache, age, writing, changed>>

-------------------------------------------------------------------------------

\* Cloud Run replaces an instance: memory and calls in flight are gone.
Restart(i) ==
    /\ cache' = [cache EXCEPT ![i] = NotLoaded]
    /\ writing' = [writing EXCEPT ![i] = {}]
    /\ check' = [c \in Checks |->
                   IF check[c] # NoCheck /\ check[c].instance = i THEN NoCheck ELSE check[c]]
    /\ UNCHANGED <<table, age, changed>>

UpTo(n, max) == IF n < max THEN n + 1 ELSE max

Waiting(c) == check[c].pc = "return"

Tick ==
    /\ \A c \in Checks : Waiting(c) => check[c].age < MaxLoad
    /\ age' = [i \in Instances |-> UpTo(age[i], Ttl + 1)]
    /\ changed' = [o \in Origins |-> UpTo(changed[o], Horizon)]
    /\ check' = [c \in Checks |->
                   IF Waiting(c) THEN [check[c] EXCEPT !.age = @ + 1] ELSE check[c]]
    /\ UNCHANGED <<table, cache, writing>>

Next ==
    \/ \E i \in Instances, o \in Origins : Add(i, o) \/ Remove(i, o) \/ Invalidate(i, o)
    \/ \E c \in Checks, i \in Instances : StartLoad(c, i)
    \/ \E c \in Checks : ReadRows(c) \/ FinishLoad(c) \/ LoadFails(c)
    \/ \E i \in Instances : Restart(i)
    \/ Tick

Spec == Init /\ [][Next]_vars

-------------------------------------------------------------------------------

\* The cache of instance i answers a call without a query.
Answers(i) == ~ NeedsLoad(i)

Knows(rows, o) == o \in rows <=> o \in table

\* A change is known on every instance at the latest one time to live after the
\* slowest query: no answer contradicts a change older than Ttl + MaxLoad, in
\* whatever order loads, invalidations and restarts happen (CACHE_TTL_MS).
BoundedStaleness ==
    \A i \in Instances, o \in Origins :
        Answers(i) /\ changed[o] > Ttl + MaxLoad => Knows(cache[i].rows, o)

\* Why: rows in flight, and a cache, are wrong only about younger changes.
RowsInv ==
    \A c \in Checks, o \in Origins :
        Waiting(c) /\ changed[o] > check[c].age => Knows(check[c].rows, o)

CacheInv ==
    \A i \in Instances, o \in Origins :
        cache[i] # NotLoaded /\ age[i] <= Ttl /\ changed[o] > age[i] + MaxLoad
            => Knows(cache[i].rows, o)

IndInv == TypeOK /\ RowsInv /\ CacheInv

===============================================================================
