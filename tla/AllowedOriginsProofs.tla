-------------------------- MODULE AllowedOriginsProofs --------------------------
(***************************************************************************)
(* AllowedOrigins never answers from a copy of the table that is older     *)
(* than its time to live and one query, for every number of instances,     *)
(* origins and calls in flight, and every Ttl and MaxLoad.                 *)
(***************************************************************************)
EXTENDS AllowedOrigins, TLAPS

USE TimesAssumption

\* A cache that holds rows is not NotLoaded.
LEMMA Loaded ==
  ASSUME NEW rows \in SUBSET Origins
  PROVE  [rows |-> rows] # NotLoaded /\ [rows |-> rows].rows = rows /\ [rows |-> rows] \in Caches
  BY DEF NotLoaded, Caches

\* What the passing of time makes of the record of a call.
LEMMA CheckUpdate ==
  ASSUME NEW c \in InFlight
  PROVE  /\ c # NoCheck
         /\ c.age < MaxLoad => LET new == [c EXCEPT !.age = @ + 1]
                               IN /\ new \in InFlight /\ new.rows = c.rows
                                  /\ new.age = c.age + 1 /\ new.pc = c.pc
<1>1. c # NoCheck
  BY DEF InFlight, NoCheck
<1>2. ASSUME c.age < MaxLoad
      PROVE  LET new == [c EXCEPT !.age = @ + 1]
             IN /\ new \in InFlight /\ new.rows = c.rows
                /\ new.age = c.age + 1 /\ new.pc = c.pc
  <2>1. c.age + 1 \in 0 .. MaxLoad
    BY <1>2 DEF InFlight
  <2>2. QED
    BY <2>1 DEF InFlight
<1>3. QED
  BY <1>1, <1>2

\* A call that waits for Postgres, or for its rows, is in flight.
LEMMA Flying ==
  ASSUME TypeOK, NEW c \in Checks, check[c].pc \in {"query", "return"} \/ check[c] # NoCheck
  PROVE  check[c] \in InFlight
  BY DEF TypeOK, NoCheck

\* Initially nothing is cached and no change is recent.
LEMMA InitInv == Init => IndInv
  BY DEF Init, IndInv, TypeOK, RowsInv, CacheInv, Waiting, NoCheck, Caches, Horizon

\* add and remove make the copies wrong only about the origin they change.
LEMMA WriteInv ==
  ASSUME IndInv, NEW i \in Instances, NEW o \in Origins, Add(i, o) \/ Remove(i, o)
  PROVE  IndInv'
<1> USE DEF IndInv
<1>1. /\ UNCHANGED <<cache, age, check>> /\ changed' = [changed EXCEPT ![o] = 0]
      /\ writing' = [writing EXCEPT ![i] = @ \cup {o}]
      /\ table' \in SUBSET Origins
      /\ \A p \in Origins \ {o} : p \in table' <=> p \in table
  BY DEF Add, Remove, Write, TypeOK
<1>2. TypeOK'
  BY <1>1 DEF TypeOK, Horizon
<1>3. \A p \in Origins : /\ changed'[p] = IF p = o THEN 0 ELSE changed[p]
                         /\ changed'[p] > 0 => p # o /\ changed[p] = changed'[p]
  BY <1>1 DEF TypeOK
<1>4. RowsInv'
  <2> SUFFICES ASSUME NEW c \in Checks, NEW p \in Origins,
                      Waiting(c)', changed'[p] > check'[c].age
               PROVE  Knows(check[c].rows, p)'
    BY DEF RowsInv
  <2>1. check[c] \in InFlight /\ Waiting(c)
    BY <1>1, Flying DEF Waiting
  <2>2. check[c].age \in 0 .. MaxLoad
    BY <2>1 DEF InFlight
  <2>3. p # o /\ changed[p] > check[c].age
    BY <1>1, <1>2, <1>3, <2>2 DEF TypeOK, Horizon
  <2>4. QED
    BY <1>1, <2>1, <2>3 DEF RowsInv, Knows
<1>5. CacheInv'
  <2> SUFFICES ASSUME NEW k \in Instances, NEW p \in Origins, cache[k]' # NotLoaded,
                      age'[k] <= Ttl, changed'[p] > age'[k] + MaxLoad
               PROVE  Knows(cache[k].rows, p)'
    BY DEF CacheInv
  <2>1. p # o /\ changed[p] > age[k] + MaxLoad
    BY <1>1, <1>2, <1>3 DEF TypeOK, Horizon
  <2>2. QED
    BY <1>1, <2>1 DEF CacheInv, Knows
<1>6. QED
  BY <1>2, <1>4, <1>5

\* Dropping a cache or a call only removes copies.
LEMMA DropInv ==
  ASSUME IndInv,
         \/ \E i \in Instances, o \in Origins : Invalidate(i, o)
         \/ \E i \in Instances : Restart(i)
         \/ \E c \in Checks : LoadFails(c)
         \/ \E c \in Checks, i \in Instances : StartLoad(c, i)
  PROVE  IndInv'
<1> USE DEF IndInv
<1>1. UNCHANGED <<table, age, changed>>
  BY DEF Invalidate, Restart, LoadFails, StartLoad
<1>2. \A i \in Instances : cache'[i] \in {cache[i], NotLoaded}
  BY DEF Invalidate, Restart, LoadFails, StartLoad, TypeOK
<1>3. \A c \in Checks : check'[c] = check[c] \/ check'[c].pc # "return"
  BY DEF Invalidate, Restart, LoadFails, StartLoad, TypeOK, NoCheck
<1>4. TypeOK'
  <2>1. CASE \E i \in Instances, o \in Origins : Invalidate(i, o)
    BY <2>1 DEF Invalidate, TypeOK, Caches
  <2>2. CASE \E i \in Instances : Restart(i)
    BY <2>2 DEF Restart, TypeOK, Caches
  <2>3. CASE \E c \in Checks : LoadFails(c)
    BY <2>3 DEF LoadFails, TypeOK
  <2>4. CASE \E c \in Checks, i \in Instances : StartLoad(c, i)
    BY <2>4 DEF StartLoad, TypeOK, InFlight
  <2>5. QED
    BY <2>1, <2>2, <2>3, <2>4
<1>5. RowsInv'
  BY <1>1, <1>3 DEF RowsInv, Waiting, Knows
<1>6. CacheInv'
  BY <1>1, <1>2 DEF CacheInv, Knows
<1>7. QED
  BY <1>4, <1>5, <1>6

\* Rows read now are the table.
LEMMA ReadInv ==
  ASSUME IndInv, NEW c \in Checks, ReadRows(c)
  PROVE  IndInv'
<1> USE DEF IndInv
<1>1. /\ UNCHANGED <<table, cache, age, writing, changed>> /\ check[c].pc = "query"
      /\ check' = [check EXCEPT ![c] = [check[c] EXCEPT !.pc = "return", !.rows = table]]
  BY DEF ReadRows
<1>2. check[c] \in InFlight
  BY <1>1, Flying
<1>3. check'[c] \in InFlight /\ check'[c].rows = table
  <2>1. table \in SUBSET Origins /\ c \in DOMAIN check
    BY DEF TypeOK
  <2> DEFINE old == check[c]
             new == check'[c]
  <2>2. old \in InFlight /\ new = [old EXCEPT !.pc = "return", !.rows = table]
    BY <1>1, <1>2, <2>1
  <2> HIDE DEF old, new
  <2>3. new \in InFlight /\ new.rows = table
    BY <2>1, <2>2 DEF InFlight
  <2>4. QED
    BY <2>3 DEF new
<1>4. \A d \in Checks \ {c} : check'[d] = check[d]
  BY <1>1 DEF TypeOK
<1>5. TypeOK'
  BY <1>1, <1>3, <1>4 DEF TypeOK
<1>6. RowsInv'
  BY <1>1, <1>3, <1>4 DEF RowsInv, Waiting, Knows
<1>7. CacheInv'
  BY <1>1 DEF CacheInv, Knows
<1>8. QED
  BY <1>5, <1>6, <1>7

\* Rows that arrive were read at most MaxLoad ticks ago.
LEMMA FinishInv ==
  ASSUME IndInv, NEW c \in Checks, FinishLoad(c)
  PROVE  IndInv'
<1> DEFINE i == check[c].instance
<1> USE DEF IndInv
<1>1. check[c] \in InFlight /\ Waiting(c)
  BY Flying DEF FinishLoad, Waiting
<1>2. i \in Instances /\ check[c].rows \in SUBSET Origins /\ check[c].age \in 0 .. MaxLoad
  BY <1>1 DEF InFlight
<1>3. /\ UNCHANGED <<table, writing, changed>>
      /\ cache' = [cache EXCEPT ![i] = [rows |-> check[c].rows]]
      /\ age' = [age EXCEPT ![i] = 0]
      /\ check' = [check EXCEPT ![c] = NoCheck]
  BY DEF FinishLoad
<1>4. TypeOK'
  BY <1>2, <1>3, Loaded DEF TypeOK
<1>5. RowsInv'
  BY <1>3 DEF RowsInv, Waiting, Knows, NoCheck, TypeOK
<1>6. ASSUME NEW k \in Instances, NEW o \in Origins, cache'[k] # NotLoaded,
             age'[k] <= Ttl, changed'[o] > age'[k] + MaxLoad
      PROVE  Knows(cache[k].rows, o)'
  <2>1. CASE k = i
    <3>1. cache'[k].rows = check[c].rows /\ age'[k] = 0
      BY <1>2, <1>3, <2>1, Loaded DEF TypeOK
    <3>2. changed[o] > check[c].age
      BY <1>2, <1>3, <1>6, <3>1 DEF TypeOK, Horizon
    <3>3. QED
      BY <1>1, <1>3, <3>1, <3>2 DEF RowsInv, Knows
  <2>2. CASE k # i
    BY <1>3, <1>6, <2>2 DEF CacheInv, Knows, TypeOK
  <2>3. QED
    BY <2>1, <2>2
<1>7. CacheInv'
  BY <1>6 DEF CacheInv
<1>8. QED
  BY <1>4, <1>5, <1>7

\* A copy ages as fast as the changes it does not know.
LEMMA TickInv ==
  ASSUME IndInv, Tick
  PROVE  IndInv'
<1> USE DEF IndInv
<1>1. UNCHANGED <<table, cache, writing>>
  BY DEF Tick
<1>2. \A k \in Instances : /\ age'[k] \in 0 .. (Ttl + 1)
                           /\ age'[k] <= Ttl => age'[k] = age[k] + 1
  BY DEF Tick, UpTo, TypeOK
<1>3. \A o \in Origins : changed'[o] \in 0 .. Horizon /\ changed'[o] <= changed[o] + 1
  BY DEF Tick, UpTo, TypeOK, Horizon
<1>4. ASSUME NEW c \in Checks
      PROVE  /\ check'[c] \in InFlight \cup {NoCheck}
             /\ Waiting(c)' => /\ Waiting(c) /\ check[c].age \in 0 .. MaxLoad
                               /\ check'[c].rows = check[c].rows
                               /\ check'[c].age = check[c].age + 1
  <2>1. CASE Waiting(c)
    <3>1. check[c] \in InFlight /\ check[c].age < MaxLoad
      BY <2>1, Flying DEF Waiting, Tick
    <3>2. check'[c] = [check[c] EXCEPT !.age = @ + 1]
      BY <2>1 DEF Tick
    <3>3. check[c].age \in 0 .. MaxLoad
      BY <3>1 DEF InFlight
    <3>4. QED
      BY <2>1, <3>1, <3>2, <3>3, CheckUpdate
  <2>2. CASE ~ Waiting(c)
    <3>1. check'[c] = check[c]
      BY <2>2 DEF Tick
    <3>2. QED
      BY <2>2, <3>1 DEF TypeOK, Waiting
  <2>3. QED
    BY <2>1, <2>2
<1>5. TypeOK'
  <2>1. age' \in [Instances -> 0 .. (Ttl + 1)]
    BY <1>2 DEF Tick
  <2>2. changed' \in [Origins -> 0 .. Horizon]
    BY <1>3 DEF Tick
  <2>3. check' \in [Checks -> InFlight \cup {NoCheck}]
    BY <1>4 DEF Tick
  <2>4. QED
    BY <1>1, <2>1, <2>2, <2>3 DEF TypeOK
<1>6. RowsInv'
  <2> SUFFICES ASSUME NEW c \in Checks, NEW o \in Origins,
                      Waiting(c)', changed'[o] > check'[c].age
               PROVE  Knows(check[c].rows, o)'
    BY DEF RowsInv
  <2>1. changed[o] > check[c].age
    BY <1>3, <1>4 DEF TypeOK, Horizon
  <2>2. QED
    BY <1>1, <1>4, <2>1 DEF RowsInv, Knows
<1>7. CacheInv'
  <2> SUFFICES ASSUME NEW k \in Instances, NEW o \in Origins, cache'[k] # NotLoaded,
                      age'[k] <= Ttl, changed'[o] > age'[k] + MaxLoad
               PROVE  Knows(cache[k].rows, o)'
    BY DEF CacheInv
  <2>1. changed[o] > age[k] + MaxLoad /\ age[k] <= Ttl
    BY <1>2, <1>3 DEF TypeOK, Horizon
  <2>2. QED
    BY <1>1, <2>1 DEF CacheInv, Knows
<1>8. QED
  BY <1>5, <1>6, <1>7

\* Every step keeps the invariant.
LEMMA NextInv == IndInv /\ [Next]_vars => IndInv'
<1> SUFFICES ASSUME IndInv, [Next]_vars PROVE IndInv'
  OBVIOUS
<1>1. CASE UNCHANGED vars
  BY <1>1 DEF vars, IndInv, TypeOK, RowsInv, CacheInv, Waiting, Knows
<1>2. CASE Next
  BY <1>2, WriteInv, DropInv, ReadInv, FinishInv, TickInv DEF Next
<1>3. QED
  BY <1>1, <1>2

\* The copies of the table, in memory and in flight, are wrong at most about
\* changes younger than themselves.
THEOREM CopiesInvariance == Spec => []IndInv
  BY InitInv, NextInv, PTL DEF Spec

\* No instance answers a CORS check from knowledge older than Ttl + MaxLoad.
THEOREM StalenessBounded == Spec => []BoundedStaleness
<1>1. IndInv => BoundedStaleness
  BY DEF IndInv, TypeOK, CacheInv, BoundedStaleness, Answers, NeedsLoad, Horizon
<1>2. QED
  BY <1>1, CopiesInvariance, PTL

===============================================================================
