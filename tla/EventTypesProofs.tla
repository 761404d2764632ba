--------------------------- MODULE EventTypesProofs ---------------------------
(***************************************************************************)
(* Proofs about EventTypes, for any catalog, any lists given to reorder    *)
(* and any number of requests.  ShapeInv and TransactionInv say what a     *)
(* request and an open transaction rely on; CatalogInv and WholeOrders are *)
(* for the order of the catalog alone.                                     *)
(***************************************************************************)
EXTENDS EventTypes, FiniteSetTheorems, TLAPS

IndInv == ShapeInv /\ TransactionInv /\ BookedTypesStay

-------------------------------------------------------------------------------
(* The check of reorder *)

\* A list for which as many stored rows are found as it has entries names no row
\* twice, and only rows that are there (EventTypesService.reorder).
LEMMA AllFound ==
  ASSUME NEW ids \in Seq(Types),
         Cardinality({t \in Listed(ids) : Stored(t)}) = Len(ids)
  PROVE  NoRepeat(ids) /\ \A t \in Listed(ids) : Stored(t)
<1> DEFINE owned == {t \in Listed(ids) : Stored(t)}
<1>1. Len(ids) \in Nat /\ DOMAIN ids = 1 .. Len(ids) /\ ids \in [1 .. Len(ids) -> Types]
  OBVIOUS
<1>2. IsFiniteSet(1 .. Len(ids)) /\ Cardinality(1 .. Len(ids)) = Len(ids)
  <2> DEFINE n == Len(ids)
  <2>1. n \in Nat /\ n \in Int /\ 1 \in Int
    BY <1>1
  <2> HIDE DEF n
  <2>2. IsFiniteSet(1 .. n) /\ Cardinality(1 .. n) = IF 1 > n THEN 0 ELSE n - 1 + 1
    BY <2>1, FS_Interval
  <2>3. IsFiniteSet(1 .. n) /\ Cardinality(1 .. n) = n
    BY <2>1, <2>2
  <2>4. QED
    BY <2>3 DEF n
<1>3. ids \in Surjection(1 .. Len(ids), Listed(ids))
  <2>1. ids \in [1 .. Len(ids) -> Listed(ids)]
    BY <1>1 DEF Listed
  <2>2. \A t \in Listed(ids) : \E k \in 1 .. Len(ids) : ids[k] = t
    BY <1>1 DEF Listed
  <2>3. QED
    BY <2>1, <2>2 DEF Surjection
<1>4. /\ IsFiniteSet(Listed(ids)) /\ Cardinality(Listed(ids)) <= Len(ids)
      /\ Cardinality(Listed(ids)) = Len(ids) => ids \in Injection(1 .. Len(ids), Listed(ids))
  BY <1>2, <1>3, FS_Surjection
<1>5. /\ IsFiniteSet(owned) /\ Cardinality(owned) <= Cardinality(Listed(ids))
      /\ Cardinality(Listed(ids)) = Cardinality(owned) => Listed(ids) = owned
  BY <1>4, FS_Subset
<1>6. Cardinality(Listed(ids)) \in Nat
  BY <1>4, FS_CardinalityType
<1>7. Cardinality(Listed(ids)) = Len(ids)
  BY <1>1, <1>4, <1>5, <1>6
<1>8. NoRepeat(ids)
  BY <1>1, <1>4, <1>7 DEF NoRepeat, Injection, IsInjective
<1>9. QED
  BY <1>5, <1>7, <1>8

-------------------------------------------------------------------------------
(* The steps of a request *)

\* What a request holds at its start.
StartOK(state) ==
    /\ DOMAIN state = Fields
    /\ state.op # "none" /\ state.next = 1 /\ state.pc # "ok"
    /\ state.op = "archive" => state.position = Null
    /\ state.op = "book" => state.id \in Types
    /\ state.op = "reorder" /\ state.pc = "reorder" => state.ids \in Orders /\ NoRepeat(state.ids)

\* Every operation starts like that, and its reads change no table.
LEMMA StartEffect ==
  ASSUME NEW c \in Calls, Start(c)
  PROVE  /\ call[c] = NewCall
         /\ UNCHANGED <<types, booked, lock>>
         /\ \E state : StartOK(state) /\ call' = [call EXCEPT ![c] = state]
<1>1. ASSUME NEW state, Begin(c, state), StartOK(state)
      PROVE  /\ call[c] = NewCall /\ UNCHANGED <<types, booked, lock>>
             /\ \E s : StartOK(s) /\ call' = [call EXCEPT ![c] = s]
  BY <1>1 DEF Begin
<1>2. ASSUME NEW position, Create(c, position)
      PROVE \E state : Begin(c, state) /\ StartOK(state)
  <2> DEFINE given == IF position = Null THEN NextPosition ELSE position
             state == [NewCall EXCEPT !.op = "create", !.pc = "insert", !.position = given]
  <2>1. Begin(c, state)
    BY <1>2 DEF Create
  <2> HIDE DEF given
  <2>2. StartOK(state)
    BY DEF StartOK, NewCall, Fields
  <2>3. QED
    BY <2>1, <2>2
<1>3. ASSUME NEW t, NEW position, NEW isActive, Update(c, t, position, isActive)
      PROVE \E state : Begin(c, state) /\ StartOK(state)
  <2> DEFINE state == [NewCall EXCEPT !.op = "update", !.pc = Owned(t), !.id = t,
                         !.position = position, !.isActive = isActive]
  <2>1. Begin(c, state)
    BY <1>3 DEF Update
  <2>2. StartOK(state)
    BY DEF StartOK, NewCall, Fields, Owned
  <2>3. QED
    BY <2>1, <2>2
<1>4. ASSUME NEW t, Archive(c, t)
      PROVE \E state : Begin(c, state) /\ StartOK(state)
  <2> DEFINE state == [NewCall EXCEPT !.op = "archive", !.pc = Owned(t), !.id = t, !.isActive = FALSE]
  <2>1. Begin(c, state)
    BY <1>4 DEF Archive
  <2>2. StartOK(state)
    BY DEF StartOK, NewCall, Fields, Owned
  <2>3. QED
    BY <2>1, <2>2
<1>5. ASSUME NEW t, Remove(c, t)
      PROVE \E state : Begin(c, state) /\ StartOK(state)
  <2> DEFINE state == [NewCall EXCEPT !.op = "remove", !.pc = Owned(t), !.id = t]
  <2>1. Begin(c, state)
    BY <1>5 DEF Remove
  <2>2. StartOK(state)
    BY DEF StartOK, NewCall, Fields, Owned
  <2>3. QED
    BY <2>1, <2>2
<1>6. ASSUME NEW t \in Types, Book(c, t)
      PROVE \E state : Begin(c, state) /\ StartOK(state)
  <2> DEFINE pc == IF Stored(t) /\ types[t].isActive THEN "insert" ELSE "rejected"
             state == [NewCall EXCEPT !.op = "book", !.id = t, !.pc = pc]
  <2>1. Begin(c, state)
    BY <1>6 DEF Book
  <2>0. pc # "ok"
    OBVIOUS
  <2> HIDE DEF pc
  <2>2. StartOK(state)
    BY <2>0 DEF StartOK, NewCall, Fields
  <2>3. QED
    BY <2>1, <2>2
<1>7. ASSUME NEW ids \in Orders, Reorder(c, ids)
      PROVE \E state : Begin(c, state) /\ StartOK(state)
  <2> DEFINE owned == {t \in Listed(ids) : Stored(t)}
             pc == IF Cardinality(owned) = Len(ids) THEN "reorder" ELSE "rejected"
             state == [NewCall EXCEPT !.op = "reorder", !.ids = ids, !.pc = pc]
  <2>1. Begin(c, state)
    BY <1>7 DEF Reorder
  <2>2. pc = "reorder" => NoRepeat(ids)
    BY AllFound, IdsAssumption
  <2>3. pc # "ok"
    OBVIOUS
  <2> HIDE DEF pc
  <2>4. StartOK(state)
    BY <2>2, <2>3 DEF StartOK, NewCall, Fields
  <2>5. QED
    BY <2>1, <2>4
<1>8. QED
  BY <1>1, <1>2, <1>3, <1>4, <1>5, <1>6, <1>7 DEF Start

\* An answer ends a request that runs; one to a reorder ends its transaction.
Ends(d) ==
    /\ call[d].pc \in Running
    /\ call[d].op = "reorder" => InTransaction(d)
    /\ \E answer \in Answered : call'[d] = [call[d] EXCEPT !.pc = answer]

\* What a step does to a request: nothing, its start, its answer, or one UPDATE of
\* its transaction.
Fate(d) ==
    \/ call'[d] = call[d]
    \/ call[d] = NewCall /\ StartOK(call'[d])
    \/ Ends(d)
    \/ UpdateRow(d) /\ call'[d] = [call[d] EXCEPT !.next = @ + 1]

\* Every step does one of these to each request.
LEMMA Fates ==
  ASSUME IndInv, [Next]_vars
  PROVE  call' = [d \in Calls |-> call'[d]] /\ \A d \in Calls : Fate(d)
<1>0. call = [d \in Calls |-> call[d]]
  BY DEF IndInv, ShapeInv
<1>1. ASSUME NEW c \in Calls, NEW new, call' = [call EXCEPT ![c] = new]
      PROVE  /\ call' = [d \in Calls |-> call'[d]] /\ call'[c] = new
             /\ \A d \in Calls \ {c} : call'[d] = call[d]
  BY <1>0, <1>1
<1>2. ASSUME NEW c \in Calls, Start(c)
      PROVE  call' = [d \in Calls |-> call'[d]] /\ \A d \in Calls : Fate(d)
  <2>1. PICK state : StartOK(state) /\ call' = [call EXCEPT ![c] = state]
    BY <1>2, StartEffect
  <2>2. call[c] = NewCall
    BY <1>2, StartEffect
  <2>3. QED
    BY <1>1, <2>1, <2>2 DEF Fate
<1>3. ASSUME NEW c \in Calls, Step(c)
      PROVE  call' = [d \in Calls |-> call'[d]] /\ \A d \in Calls : Fate(d)
  <2>1. CASE UpdateRow(c)
    <3>1. call' = [call EXCEPT ![c] = [call[c] EXCEPT !.next = @ + 1]]
      BY <1>0, <2>1 DEF UpdateRow
    <3>2. QED
      BY <1>1, <2>1, <3>1 DEF Fate
  <2>2. ASSUME NEW answer \in Answered, Answer(c, answer), call[c].pc \in Running,
               call[c].op = "reorder" => InTransaction(c)
        PROVE  call' = [d \in Calls |-> call'[d]] /\ \A d \in Calls : Fate(d)
    <3>1. call' = [call EXCEPT ![c] = [call[c] EXCEPT !.pc = answer]]
      BY <1>0, <2>2 DEF Answer
    <3>2. QED
      BY <1>1, <2>2, <3>1 DEF Fate, Ends
  <2>3. CASE InsertType(c) \/ InsertBooking(c)
    BY <2>2, <2>3 DEF InsertType, InsertBooking, At, Running, Answered
  <2>4. CASE WriteUpdate(c) \/ WriteRemove(c)
    BY <2>2, <2>4 DEF WriteUpdate, WriteRemove, At, Running, Answered
  <2>5. CASE CommitReorder(c) \/ Rollback(c)
    BY <2>2, <2>5 DEF CommitReorder, Rollback, InTransaction, At, Running, Answered
  <2>6. QED
    BY <1>3, <2>1, <2>3, <2>4, <2>5 DEF Step
<1>4. CASE UNCHANGED vars
  BY <1>0, <1>4 DEF vars, Fate
<1>5. QED
  BY <1>2, <1>3, <1>4 DEF Next

\* A request keeps what it was given, and one that was answered its answer.
LEMMA RequestKept ==
  ASSUME IndInv, [Next]_vars, NEW d \in Calls
  PROVE  /\ DOMAIN call'[d] = Fields
         /\ call[d].op # "none" => call'[d].op = call[d].op /\ call'[d].position = call[d].position
                                   /\ call'[d].ids = call[d].ids
         /\ call[d].op # "none" /\ call[d].pc = "ok" => call'[d] = call[d]
         /\ call'[d].op = "archive" => call'[d].position = Null
         /\ call'[d].op = "book" => call'[d].id \in Types
         /\ At(d, "reorder", "ok")' => call[d].op = "reorder" /\ call[d].pc \in {"reorder", "ok"}
         /\ InTransaction(d)' /\ call[d].op # "none" => InTransaction(d)
<1>0. /\ DOMAIN call[d] = Fields /\ (call[d].op = "archive" => call[d].position = Null)
      /\ call[d].op = "book" => call[d].id \in Types
  BY DEF IndInv, ShapeInv
<1>1. Fate(d)
  BY Fates
<1>2. CASE call'[d] = call[d]
  BY <1>0, <1>2 DEF InTransaction, At
<1>3. CASE call[d] = NewCall /\ StartOK(call'[d])
  BY <1>3 DEF StartOK, NewCall, At, InTransaction
<1>4. CASE Ends(d)
  <2>1. PICK answer \in Answered : call'[d] = [call[d] EXCEPT !.pc = answer]
    BY <1>4 DEF Ends
  <2>2. /\ DOMAIN call'[d] = Fields /\ call'[d].op = call[d].op /\ call'[d].ids = call[d].ids
        /\ call'[d].id = call[d].id /\ call'[d].position = call[d].position /\ call'[d].pc = answer
    BY <1>0, <2>1 DEF Fields
  <2>3. QED
    BY <1>0, <1>4, <2>2 DEF Ends, Running, Answered, InTransaction, At
<1>5. CASE UpdateRow(d) /\ call'[d] = [call[d] EXCEPT !.next = @ + 1]
  <2>1. /\ DOMAIN call'[d] = Fields /\ call'[d].op = call[d].op /\ call'[d].ids = call[d].ids
        /\ call'[d].id = call[d].id /\ call'[d].position = call[d].position /\ call'[d].pc = call[d].pc
    BY <1>0, <1>5 DEF Fields
  <2>2. QED
    BY <1>0, <1>5, <2>1 DEF UpdateRow, InTransaction, At
<1>6. QED
  BY <1>1, <1>2, <1>3, <1>4, <1>5 DEF Fate

-------------------------------------------------------------------------------
(* Rows and locks *)

\* A record with the columns of a row is a row.
LEMMA RowIsStored ==
  ASSUME NEW row, DOMAIN row = {"position", "isActive"}
  PROVE  row \notin {NoRow, Removed}
<1>1. DOMAIN NoRow = {"state"} /\ DOMAIN Removed = {"state"}
  BY DEF NoRow, Removed
<1>2. "state" \notin {"position", "isActive"}
  OBVIOUS
<1>3. QED
  BY <1>1, <1>2

\* A row keeps its shape, and it goes only by a remove that finds it unlocked and
\* without bookings.
LEMMA RowEffect ==
  ASSUME IndInv, [Next]_vars
  PROVE  /\ types' = [t \in Types |-> types'[t]]
         /\ \A t \in Types : Stored(t)' => DOMAIN types'[t] = {"position", "isActive"}
         /\ \A t \in Types : Stored(t) /\ ~ Stored(t)' =>
                lock[t] = Null /\ t \notin booked /\ UNCHANGED <<lock, booked>>
<1> DEFINE Goal == /\ types' = [t \in Types |-> types'[t]]
                   /\ \A t \in Types : Stored(t)' => DOMAIN types'[t] = {"position", "isActive"}
                   /\ \A t \in Types : Stored(t) /\ ~ Stored(t)' =>
                        lock[t] = Null /\ t \notin booked /\ UNCHANGED <<lock, booked>>
<1>0. /\ types = [t \in Types |-> types[t]]
      /\ \A t \in Types : Stored(t) => DOMAIN types[t] = {"position", "isActive"}
  BY DEF IndInv, ShapeInv
<1>1. CASE UNCHANGED types
  BY <1>0, <1>1 DEF Stored
<1>2. ASSUME NEW u, NEW row, DOMAIN row = {"position", "isActive"}, types' = [types EXCEPT ![u] = row]
      PROVE  Goal
  <2>1. row \notin {NoRow, Removed}
    BY <1>2, RowIsStored
  <2>2. types' = [t \in Types |-> types'[t]] /\ \A t \in Types : types'[t] = IF t = u THEN row ELSE types[t]
    BY <1>0, <1>2
  <2>3. QED
    BY <1>0, <1>2, <2>1, <2>2 DEF Stored
<1>3. ASSUME NEW c \in Calls, InsertType(c) PROVE Goal
  <2> DEFINE row == [position |-> call[c].position, isActive |-> TRUE]
  <2>1. DOMAIN row = {"position", "isActive"} /\ types' = [types EXCEPT ![FreshId] = row]
    BY <1>3 DEF InsertType
  <2> HIDE DEF row, Goal
  <2>2. QED
    BY <1>2, <2>1
<1>4. ASSUME NEW c \in Calls, WriteUpdate(c) PROVE Goal
  <2> DEFINE t == call[c].id
             row == [position |-> Given(call[c].position, types[t].position),
                     isActive |-> Given(call[c].isActive, types[t].isActive)]
  <2>1. DOMAIN row = {"position", "isActive"}
    OBVIOUS
  <2>2. UNCHANGED types \/ types' = [types EXCEPT ![t] = row]
    BY <1>4, <1>0 DEF WriteUpdate
  <2> HIDE DEF row, Goal
  <2>3. QED
    BY <1>1, <1>2, <2>1, <2>2 DEF Goal
<1>5. ASSUME NEW c \in Calls, WriteRemove(c) PROVE Goal
  <2> DEFINE u == call[c].id
  <2>1. CASE types' = [types EXCEPT ![u] = Removed] /\ Deletable(u)
    <3>1. types' = [t \in Types |-> types'[t]] /\ \A t \in Types : types'[t] = IF t = u THEN Removed ELSE types[t]
      BY <1>0, <2>1
    <3>2. QED
      BY <1>0, <1>5, <2>1, <3>1 DEF Stored, WriteRemove, Deletable
  <2> HIDE DEF Goal
  <2>2. QED
    BY <1>1, <1>5, <2>1 DEF WriteRemove, Goal
<1>6. ASSUME NEW c \in Calls, CommitReorder(c) PROVE Goal
  <2>1. types' = [t \in Types |-> types'[t]]
    BY <1>6 DEF CommitReorder
  <2>2. ASSUME NEW t \in Types, Stored(t)
        PROVE  DOMAIN types'[t] = {"position", "isActive"} /\ Stored(t)'
    <3>1. DOMAIN types'[t] = {"position", "isActive"}
      BY <1>0, <1>6, <2>2 DEF CommitReorder
    <3>2. QED
      BY <3>1, RowIsStored DEF Stored
  <2>3. ASSUME NEW t \in Types, ~ Stored(t) PROVE ~ Stored(t)'
    <3>1. DOMAIN types[t] = {"state"} /\ types[t] = [state |-> types[t].state]
      BY <2>3 DEF Stored, NoRow, Removed
    <3>2. types'[t] = types[t]
      <4>1. [types[t] EXCEPT !.position = PositionIn(call[c].ids, t)] = types[t]
        BY <3>1
      <4>2. QED
        BY <1>6, <4>1 DEF CommitReorder
    <3>3. QED
      BY <2>3, <3>2 DEF Stored
  <2>4. QED
    BY <2>1, <2>2, <2>3
<1>7. QED
  <2> HIDE DEF Goal
  <2>1. Goal
    <3>1. ASSUME NEW c \in Calls, Start(c) PROVE Goal
      BY <1>1, <3>1, StartEffect DEF Goal
    <3>2. ASSUME NEW c \in Calls, Step(c) PROVE Goal
      BY <1>1, <1>3, <1>4, <1>5, <1>6, <3>2 DEF Step, InsertBooking, UpdateRow, Rollback, Goal
    <3>3. QED
      BY <1>1, <3>1, <3>2 DEF Next, vars, Goal
  <2>2. QED
    BY <2>1 DEF Goal

\* A lock is that of one request, and stays with it as long as its transaction.
LEMMA LockEffect ==
  ASSUME IndInv, [Next]_vars
  PROVE  /\ lock' \in [Types -> Calls \cup {Null}]
         /\ \A t \in Types, c \in Calls : lock[t] = c /\ InTransaction(c)' => lock'[t] = c
         /\ \A c \in Calls : UpdateRow(c) => lock'[NextRow(c)] = c /\ Stored(NextRow(c))
<1> DEFINE Kept == /\ lock' \in [Types -> Calls \cup {Null}]
                   /\ \A t \in Types, c \in Calls : lock[t] = c /\ InTransaction(c)' => lock'[t] = c
<1>0. lock \in [Types -> Calls \cup {Null}]
  BY DEF IndInv, ShapeInv
<1>1. ASSUME UNCHANGED lock PROVE Kept
  BY <1>0, <1>1
<1>2. ASSUME NEW c \in Calls, UpdateRow(c) PROVE Kept /\ NextRow(c) \in Types
  <2>1. call[c].ids \in Seq(Types)
    BY <1>2, IdsAssumption DEF IndInv, TransactionInv, UpdateRow, InTransaction, At
  <2>2. NextRow(c) \in Types
    BY <1>2, <2>1 DEF UpdateRow, NextRow, IndInv, TransactionInv
  <2>3. QED
    BY <1>0, <1>2, <2>2, IdsAssumption DEF UpdateRow
<1>3. ASSUME NEW c \in Calls, CommitReorder(c) \/ Rollback(c) PROVE Kept
  <2>1. ~ InTransaction(c)'
    BY <1>3 DEF CommitReorder, Rollback, Answer, InTransaction, At, IndInv, ShapeInv, Fields
  <2>2. ReleaseLocks(c)
    BY <1>3 DEF CommitReorder, Rollback
  <2>3. QED
    BY <1>0, <2>1, <2>2 DEF ReleaseLocks
<1>4. Kept
  <2> HIDE DEF Kept
  <2>1. ASSUME NEW c \in Calls, Start(c) PROVE Kept
    BY <1>1, <2>1, StartEffect DEF Kept
  <2>2. ASSUME NEW c \in Calls, Step(c) PROVE Kept
    BY <1>1, <1>2, <1>3, <2>2 DEF Step, InsertType, WriteUpdate, WriteRemove, InsertBooking, Kept
  <2>3. QED
    BY <1>1, <2>1, <2>2 DEF Next, vars, Kept
<1>5. \A c \in Calls : UpdateRow(c) => lock'[NextRow(c)] = c /\ Stored(NextRow(c))
  BY <1>0, <1>2 DEF UpdateRow
<1>6. QED
  BY <1>4, <1>5

-------------------------------------------------------------------------------
(* The inductive invariant *)

\* The initial states satisfy it.
LEMMA InitInv == Init => IndInv
<1> SUFFICES ASSUME Init PROVE IndInv
  OBVIOUS
<1>1. ShapeInv
  <2>1. \A t \in Types : Stored(t) => DOMAIN types[t] = {"position", "isActive"}
    BY DEF Init, Stored
  <2>2. \A c \in Calls : DOMAIN call[c] = Fields /\ call[c].op = "none"
    BY DEF Init, NewCall, Fields
  <2>3. QED
    BY <2>1, <2>2 DEF Init, ShapeInv
<1>2. TransactionInv
  BY DEF Init, TransactionInv, InTransaction, At, NewCall
<1>3. QED
  BY <1>1, <1>2 DEF Init, IndInv, BookedTypesStay

\* Every step keeps the shape of the rows and of the requests.
LEMMA ShapeKept ==
  ASSUME IndInv, [Next]_vars
  PROVE  ShapeInv'
<1>1. \A d \in Calls : /\ DOMAIN call'[d] = Fields
                       /\ call'[d].op = "archive" => call'[d].position = Null
                       /\ call'[d].op = "book" => call'[d].id \in Types
  BY RequestKept
<1>2. booked' \subseteq Types
  <2>1. booked' = booked \/ \E c \in Calls : InsertBooking(c)
    BY StartEffect DEF Next, vars, Step, InsertType, WriteUpdate, WriteRemove, UpdateRow,
       CommitReorder, Rollback
  <2>2. QED
    BY <2>1 DEF InsertBooking, At, IndInv, ShapeInv
<1>3. QED
  BY <1>1, <1>2, Fates, RowEffect, LockEffect DEF ShapeInv

\* Every step keeps the rows of an open transaction locked and stored.
LEMMA TransactionKept ==
  ASSUME IndInv, [Next]_vars
  PROVE  TransactionInv'
<1>1. ASSUME NEW c \in Calls, call'[c].op = "reorder", call'[c].pc \in {"reorder", "ok"}
      PROVE  call'[c].ids \in Orders /\ NoRepeat(call'[c].ids)
  <2>1. CASE call[c] = NewCall /\ StartOK(call'[c])
    BY <1>1, <2>1 DEF StartOK
  <2>2. CASE call[c].op # "none"
    <3>1. call[c].op = "reorder" /\ call[c].pc \in {"reorder", "ok"} /\ call'[c].ids = call[c].ids
      BY <1>1, <2>2, RequestKept DEF At, InTransaction
    <3>2. QED
      BY <3>1 DEF IndInv, TransactionInv
  <2>3. CASE call'[c] = call[c]
    BY <1>1, <2>3 DEF IndInv, TransactionInv
  <2>4. CASE call[c].op = "none" /\ (Ends(c) \/ UpdateRow(c))
    BY <1>1, <2>4 DEF Ends, UpdateRow, InTransaction, At, IndInv, ShapeInv, Fields
  <2>5. QED
    BY <2>1, <2>2, <2>3, <2>4, Fates DEF Fate
<1>2. ASSUME NEW c \in Calls, InTransaction(c)'
      PROVE  /\ call'[c].next \in Nat \ {0}
             /\ \A k \in DOMAIN call'[c].ids : k < call'[c].next =>
                  lock'[call'[c].ids[k]] = c /\ types'[call'[c].ids[k]] \notin {NoRow, Removed}
  <2> DEFINE ids == call'[c].ids
  <2>0. ids \in Seq(Types)
    BY <1>1, <1>2, IdsAssumption DEF InTransaction, At
  <2>1. CASE call[c] = NewCall /\ StartOK(call'[c])
    BY <2>0, <2>1 DEF StartOK
  <2>2. ASSUME InTransaction(c), call[c].ids = ids
        PROVE  \A k \in DOMAIN ids : k < call[c].next => lock'[ids[k]] = c /\ types'[ids[k]] \notin {NoRow, Removed}
    <3>1. ASSUME NEW k \in DOMAIN ids, k < call[c].next PROVE lock'[ids[k]] = c /\ types'[ids[k]] \notin {NoRow, Removed}
      <4>1. lock[ids[k]] = c /\ Stored(ids[k]) /\ ids[k] \in Types /\ c # Null
        BY <2>0, <2>2, <3>1, IdsAssumption DEF IndInv, TransactionInv
      <4>2. lock'[ids[k]] = c
        BY <1>2, <4>1, LockEffect
      <4>3. \A t \in Types : Stored(t) /\ lock[t] # Null => types'[t] \notin {NoRow, Removed}
        BY RowEffect DEF Stored
      <4>4. QED
        BY <4>1, <4>2, <4>3
    <3>2. QED
      BY <3>1
  <2>3. CASE call'[c] = call[c]
    <3>1. InTransaction(c) /\ call[c].next = call'[c].next /\ call[c].next \in Nat \ {0}
      BY <1>2, <2>3 DEF InTransaction, At, IndInv, TransactionInv
    <3>2. QED
      BY <2>2, <2>3, <3>1
  <2>4. CASE UpdateRow(c) /\ call'[c] = [call[c] EXCEPT !.next = @ + 1]
    <3>1. /\ InTransaction(c) /\ call[c].next \in Nat \ {0} /\ call[c].ids = ids
          /\ call'[c].next = call[c].next + 1
      BY <2>4 DEF UpdateRow, IndInv, TransactionInv, ShapeInv, Fields
    <3>2. NextRow(c) = ids[call[c].next] /\ NextRow(c) \in Types
      BY <2>0, <2>4, <3>1 DEF UpdateRow, NextRow
    <3>3. lock'[NextRow(c)] = c /\ types'[NextRow(c)] \notin {NoRow, Removed}
      <4>1. lock'[NextRow(c)] = c /\ Stored(NextRow(c)) /\ lock[NextRow(c)] = Null /\ c # Null
        BY <2>4, LockEffect, IdsAssumption DEF UpdateRow
      <4>2. \A t \in Types : Stored(t) /\ lock'[t] # lock[t] => types'[t] \notin {NoRow, Removed}
        BY RowEffect DEF Stored
      <4>3. QED
        BY <3>2, <4>1, <4>2
    <3>4. ASSUME NEW k \in DOMAIN ids, k < call[c].next + 1 PROVE lock'[ids[k]] = c /\ types'[ids[k]] \notin {NoRow, Removed}
      <4>1. k \in Nat /\ (k < call[c].next \/ k = call[c].next)
        BY <2>0, <3>1, <3>4
      <4>2. CASE k = call[c].next
        BY <3>2, <3>3, <4>2
      <4>3. QED
        BY <2>2, <3>1, <4>1, <4>2
    <3>5. QED
      BY <3>1, <3>4
  <2>5. CASE Ends(c)
    BY <1>2, <2>5 DEF Ends, InTransaction, At, Answered, IndInv, ShapeInv, Fields
  <2>6. QED
    BY <2>1, <2>3, <2>4, <2>5, Fates DEF Fate
<1>3. QED
  BY <1>1, <1>2 DEF TransactionInv, Stored

\* Every step keeps the rows that are booked.
LEMMA BookedKept ==
  ASSUME IndInv, [Next]_vars
  PROVE  BookedTypesStay'
<1>1. ASSUME NEW t \in Types, t \in booked, Stored(t) PROVE Stored(t)'
  BY <1>1, RowEffect
<1>2. CASE UNCHANGED booked
  BY <1>1, <1>2 DEF IndInv, ShapeInv, BookedTypesStay
<1>3. ASSUME NEW c \in Calls, InsertBooking(c), booked' = booked \cup {call[c].id}, Stored(call[c].id)
      PROVE  BookedTypesStay'
  BY <1>3 DEF InsertBooking, IndInv, BookedTypesStay, Stored
<1>4. QED
  BY <1>2, <1>3, StartEffect DEF Next, vars, Step, InsertType, WriteUpdate, WriteRemove, InsertBooking,
     UpdateRow, CommitReorder, Rollback

\* Every step keeps the invariant.
LEMMA NextInv == IndInv /\ [Next]_vars => IndInv'
BY ShapeKept, TransactionKept, BookedKept DEF IndInv

\* The invariant of every behaviour.
LEMMA Invariance == Spec => []IndInv
BY InitInv, NextInv, PTL DEF Spec

-------------------------------------------------------------------------------
(* Deletions and transactions *)

\* No event type that has a booking is ever deleted: remove checks and writes in
\* two steps, and the foreign key holds in between (EventTypesService.remove).
THEOREM BookedTypesAreKept == Spec => []BookedTypesStay
<1>1. IndInv => BookedTypesStay
  BY DEF IndInv
<1>2. QED
  BY <1>1, Invariance, PTL

\* A reorder that commits has locked every row of its list, each of which is there
\* and is named once (the $transaction of EventTypesService.reorder).
CommitOwnsItsRows ==
    \A c \in Calls : CommitReorder(c) =>
        /\ NoRepeat(call[c].ids)
        /\ \A t \in Listed(call[c].ids) : Stored(t) /\ lock[t] = c

\* So it is of every commit, whatever removals and other reorders came between the
\* check of reorder and its updates.
THEOREM CommitsOwnTheirRows == Spec => [][CommitOwnsItsRows]_vars
<1>1. ASSUME IndInv PROVE CommitOwnsItsRows
  <2> SUFFICES ASSUME NEW c \in Calls, CommitReorder(c)
               PROVE  NoRepeat(call[c].ids) /\ \A t \in Listed(call[c].ids) : Stored(t) /\ lock[t] = c
    BY DEF CommitOwnsItsRows
  <2> DEFINE ids == call[c].ids
  <2>1. InTransaction(c) /\ ids \in Orders /\ NoRepeat(ids) /\ ids \in Seq(Types) /\ call[c].next \in Nat
    BY <1>1, IdsAssumption DEF CommitReorder, InTransaction, At, IndInv, TransactionInv
  <2>2. ~ (call[c].next <= Len(ids))
    <3> SUFFICES ASSUME call[c].next <= Len(ids) PROVE FALSE
      OBVIOUS
    <3>1. call[c].next \in 1 .. Len(ids)
      BY <1>1, <2>1 DEF IndInv, TransactionInv
    <3>2. NextRow(c) = ids[call[c].next] /\ ids[call[c].next] \in Types
      BY <2>1, <3>1 DEF NextRow
    <3>3. QED
      BY <3>2, IdsAssumption DEF CommitReorder
  <2>3. \A k \in DOMAIN ids : k < call[c].next
    BY <2>1, <2>2
  <2>4. QED
    BY <1>1, <2>1, <2>3 DEF IndInv, TransactionInv, Listed
<1>2. QED
  BY <1>1, Invariance, PTL

-------------------------------------------------------------------------------
(* The order of the catalog *)

\* A step that leaves the catalog only reordered found it so, with all the orders
\* it may be in.
LEMMA ArrangedGrows ==
  ASSUME IndInv, [Next]_vars
  PROVE  (OnlyReordered' => OnlyReordered) /\ Arranged \subseteq Arranged'
<1>1. ASSUME OnlyReordered', NEW c \in Calls
      PROVE  call[c].op # "create" /\ (call[c].op = "update" => call[c].position = Null)
  BY <1>1, RequestKept DEF OnlyReordered
<1>2. ASSUME NEW c \in Calls, At(c, "reorder", "ok") PROVE call'[c] = call[c]
  BY <1>2, RequestKept DEF At
<1>3. ASSUME NEW ids \in Arranged PROVE ids \in Arranged'
  <2>1. CASE ids = InitialOrder
    BY <2>1 DEF Arranged
  <2>2. ASSUME NEW c \in Calls, At(c, "reorder", "ok"), ids = call[c].ids PROVE ids \in Arranged'
    BY <1>2, <2>2 DEF Arranged, At
  <2>3. QED
    BY <2>1, <2>2 DEF Arranged
<1>4. QED
  BY <1>1, <1>3 DEF OnlyReordered

\* The catalog is in the order of one of the lists, and has no row of its own.
OrderInv == CatalogInv /\ OrderIsWhole

\* A step that adds no row and moves none keeps its order.
LEMMA RowsLeft ==
  ASSUME IndInv, OrderInv, [Next]_vars,
         OnlyReordered' => \A t \in Types : Stored(t)' => Stored(t) /\ types'[t].position = types[t].position
  PROVE  OrderInv'
<1>1. CatalogInv'
  BY ArrangedGrows DEF OrderInv, CatalogInv
<1>2. OrderIsWhole'
  <2> SUFFICES ASSUME OnlyReordered'
               PROVE  \E ids \in Arranged' : \A t \in Types :
                        Stored(t)' => t \in Listed(ids) /\ types'[t].position = PositionIn(ids, t)
    BY DEF OrderIsWhole
  <2>1. PICK ids \in Arranged : \A t \in Types :
               Stored(t) => t \in Listed(ids) /\ types[t].position = PositionIn(ids, t)
    BY ArrangedGrows DEF OrderInv, OrderIsWhole
  <2>2. ids \in Arranged'
    BY ArrangedGrows
  <2>3. QED
    BY <2>1, <2>2
<1>3. QED
  BY <1>1, <1>2 DEF OrderInv

\* A commit puts the whole catalog into the order of its list.
LEMMA CommitArranges ==
  ASSUME WholeOrders, IndInv, OrderInv, [Next]_vars, NEW c \in Calls, CommitReorder(c)
  PROVE  OrderInv'
<1> DEFINE ids == call[c].ids
<1>1. ids \in Orders /\ NoRepeat(ids)
  BY DEF CommitReorder, InTransaction, At, IndInv, TransactionInv
<1>2. ASSUME NEW t \in Types, Stored(t)' PROVE Stored(t)
  <2> SUFFICES ASSUME ~ Stored(t) PROVE FALSE
    OBVIOUS
  <2>1. DOMAIN types[t] = {"state"} /\ types[t] = [state |-> types[t].state]
    BY DEF Stored, NoRow, Removed
  <2>2. [types[t] EXCEPT !.position = PositionIn(call[c].ids, t)] = types[t]
    BY <2>1
  <2>3. types'[t] = types[t]
    BY <2>2 DEF CommitReorder
  <2>4. QED
    BY <1>2, <2>3 DEF Stored
<1>3. CatalogInv'
  BY <1>2, ArrangedGrows DEF OrderInv, CatalogInv
<1>4. call'[c].ids = ids /\ At(c, "reorder", "ok")'
  BY DEF CommitReorder, Answer, InTransaction, At, IndInv, ShapeInv, Fields
<1>5. ids \in Arranged'
  BY <1>4 DEF Arranged
<1>6. ASSUME OnlyReordered', NEW t \in Types, Stored(t)'
      PROVE  t \in Listed(ids) /\ types'[t].position = PositionIn(ids, t)
  <2>1. Stored(t) /\ OnlyReordered
    BY <1>2, <1>6, ArrangedGrows
  <2>2. t \in Listed(ids)
    BY <1>1, <2>1 DEF OrderInv, CatalogInv, WholeOrders
  <2>3. DOMAIN types[t] = {"position", "isActive"}
    BY <2>1 DEF IndInv, ShapeInv
  <2>4. QED
    BY <2>2, <2>3 DEF CommitReorder
<1>7. OrderIsWhole'
  BY <1>5, <1>6 DEF OrderIsWhole
<1>8. QED
  BY <1>3, <1>7 DEF OrderInv

\* A write of one row leaves the order alone when it gives no position.
LEMMA WriteLeavesOrder ==
  ASSUME IndInv, OrderInv, [Next]_vars, NEW c \in Calls,
         InsertType(c) \/ WriteUpdate(c) \/ WriteRemove(c)
  PROVE  OrderInv'
<1>0. types = [t \in Types |-> types[t]] /\ call[c].op \in {"create", "update", "archive", "remove"}
  BY DEF IndInv, ShapeInv, InsertType, WriteUpdate, WriteRemove, At
<1>1. call'[c].op = call[c].op /\ call'[c].position = call[c].position
  BY <1>0, RequestKept
<1>2. CASE InsertType(c)
  <2>1. ~ OnlyReordered'
    BY <1>1, <1>2 DEF OnlyReordered, InsertType, At
  <2>2. QED
    BY <2>1, RowsLeft
<1>3. CASE WriteUpdate(c)
  <2>1. OnlyReordered' => call[c].position = Null
    BY <1>1, <1>3 DEF OnlyReordered, WriteUpdate, At, IndInv, ShapeInv
  <2>2. ASSUME call[c].position = Null, NEW t \in Types, Stored(t)'
        PROVE  Stored(t) /\ types'[t].position = types[t].position
    <3>1. CASE UNCHANGED types
      BY <2>2, <3>1 DEF Stored
    <3>2. CASE ~ UNCHANGED types
      BY <1>0, <1>3, <2>2, <3>2 DEF WriteUpdate, Given, Stored
    <3>3. QED
      BY <3>1, <3>2
  <2>3. QED
    BY <2>1, <2>2, RowsLeft
<1>4. CASE WriteRemove(c)
  <2>1. ASSUME NEW t \in Types, Stored(t)'
        PROVE  Stored(t) /\ types'[t].position = types[t].position
    BY <1>0, <1>4, <2>1 DEF WriteRemove, Stored
  <2>2. QED
    BY <2>1, RowsLeft
<1>5. QED
  BY <1>2, <1>3, <1>4

\* A catalog that is only reordered by whole lists and thinned out is always in
\* the order of one of those lists, whatever reorders and deletions cross and fail
\* half-way (EventTypesService.reorder).
THEOREM OrderStaysWhole ==
  ASSUME WholeOrders
  PROVE  Spec => []OrderIsWhole
<1>1. ASSUME Init PROVE OrderInv
  <2>1. \A t \in Types : Stored(t) =>
          t \in Listed(InitialOrder) /\ types[t].position = PositionIn(InitialOrder, t)
    BY <1>1 DEF Init, Stored
  <2>2. InitialOrder \in Arranged
    BY DEF Arranged
  <2>3. QED
    BY <2>1, <2>2 DEF OrderInv, CatalogInv, OrderIsWhole
<1>2. ASSUME IndInv, OrderInv, [Next]_vars PROVE OrderInv'
  <2>1. ASSUME UNCHANGED types PROVE OrderInv'
    BY <1>2, <2>1, RowsLeft DEF Stored
  <2>2. ASSUME NEW c \in Calls, Start(c) PROVE OrderInv'
    BY <2>1, <2>2, StartEffect
  <2>3. ASSUME NEW c \in Calls, Step(c) PROVE OrderInv'
    BY <1>2, <2>1, <2>3, CommitArranges, WriteLeavesOrder DEF Step, InsertBooking, UpdateRow, Rollback
  <2>4. QED
    BY <1>2, <2>1, <2>2, <2>3 DEF Next, vars
<1>3. OrderInv => OrderIsWhole
  BY DEF OrderInv
<1>4. QED
  BY <1>1, <1>2, <1>3, Invariance, PTL DEF Spec

===============================================================================
