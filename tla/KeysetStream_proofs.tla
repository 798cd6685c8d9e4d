------------------------- MODULE KeysetStream_proofs -------------------------
(***************************************************************************)
(* Proofs about KeysetStream, for every table, every chunk size (zero      *)
(* included) and any number of changes by other sessions.                  *)
(***************************************************************************)
EXTENDS KeysetStream, FiniteSetTheorems, TLAPS

Handed(r) == \E i \in 1..Len(out) : out[i] = r

Shape ==
  /\ table \subseteq seen /\ seen \subseteq Id /\ stable \subseteq table
  /\ pc \in {"query", "rows", "end", "failed"}
  /\ lastID \in Nat /\ count \in Nat
  /\ batch \subseteq seen
  /\ out \in Seq(Id)

\* lastID separates what was handed over from what is still to come.
Behind == \A i \in 1..Len(out) : out[i] <= lastID
Ahead  == \A r \in batch : r > lastID

\* A stable row was handed over or lies ahead; if it lies ahead and is not in
\* the current result, it is beyond it and the result was a full chunk.
Covered == \A r \in stable : Handed(r) \/ r > lastID

Beyond ==
  \A r \in stable : pc = "rows" /\ r > lastID /\ r \notin batch =>
    /\ \A b \in batch : b < r
    /\ count + Cardinality(batch) = ChunkSize

Inv == Shape /\ Behind /\ Ahead /\ Ascending /\ Covered /\ Beyond /\ NoStableRowSkipped

LEMMA FiniteBatch ==
  ASSUME NEW S \in SUBSET Id
  PROVE  IsFiniteSet(S) /\ Cardinality(S) \in Nat
<1>1. IsFiniteSet(Id)
  BY StreamAssumption, FS_Interval DEF Id
<1> QED
  BY <1>1, FS_Subset, FS_CardinalityType

LEMMA InvInit == Init => Inv
BY StreamAssumption
   DEF Init, Inv, Shape, Behind, Ahead, Ascending, Covered, Beyond,
       NoStableRowSkipped, Handed, Id

LEMMA InvStep == Inv /\ [Next]_vars => Inv'
<1> SUFFICES ASSUME Inv, [Next]_vars PROVE Inv'
  OBVIOUS
<1> USE StreamAssumption DEF Inv, Shape, Id
<1>1. CASE Query
  <2>1. PICK B \in SUBSET After(table, lastID) :
          /\ batch' = B
          /\ \A i \in B, j \in After(table, lastID) \ B : i < j
          /\ Cardinality(B) = ChunkSize \/ B = After(table, lastID)
    BY <1>1 DEF Query, Limit
  <2>2. Shape' /\ Behind' /\ Ahead' /\ Ascending' /\ Covered' /\ NoStableRowSkipped'
    BY <1>1, <2>1
       DEF Query, After, Behind, Ahead, Ascending, Covered, NoStableRowSkipped, Handed
  <2>3. Beyond'
    BY <1>1, <2>1 DEF Query, After, Beyond
  <2> QED
    BY <2>2, <2>3
<1>2. CASE Row
  <2>1. PICK i \in batch : /\ \A j \in batch : i <= j
                           /\ batch' = batch \ {i}
                           /\ lastID' = i
                           /\ out' = Append(out, i)
    BY <1>2 DEF Row
  <2>2. /\ count' = count + 1 /\ pc = "rows"
        /\ UNCHANGED <<table, stable, seen, edits, pc>>
    BY <1>2 DEF Row
  <2>3. /\ Len(out') = Len(out) + 1
        /\ out'[Len(out) + 1] = i
        /\ \A n \in 1..Len(out) : out'[n] = out[n]
    BY <2>1
  <2>4. Shape'
    BY <2>1, <2>2
  <2>5. Behind' /\ Ahead'
    BY <2>1, <2>2, <2>3 DEF Behind, Ahead
  <2>6. Ascending'
    BY <2>1, <2>2, <2>3 DEF Behind, Ahead, Ascending
  <2>7. Covered'
    <3> SUFFICES ASSUME NEW r \in stable PROVE Handed(r)' \/ r > i
      BY <2>1, <2>2 DEF Covered
    <3>1. CASE Handed(r)
      BY <2>1, <2>3, <3>1 DEF Handed
    <3>2. CASE r = i
      BY <2>1, <2>3, <3>2 DEF Handed
    <3>3. CASE r > lastID /\ r # i
      BY <2>1, <2>2, <3>3 DEF Beyond
    <3> QED
      BY <3>1, <3>2, <3>3 DEF Covered
  <2>8. Cardinality(batch') = Cardinality(batch) - 1 /\ Cardinality(batch) \in Nat
    BY <2>1, FiniteBatch, FS_RemoveElement
  <2>9. Beyond'
    <3> SUFFICES ASSUME NEW r \in stable, r > i, r \notin batch \ {i}
                 PROVE  /\ \A b \in batch \ {i} : b < r
                        /\ count + 1 + (Cardinality(batch) - 1) = ChunkSize
      BY <2>1, <2>2, <2>8 DEF Beyond
    <3>1. r > lastID /\ r \notin batch
      BY DEF Ahead
    <3> QED
      BY <2>2, <2>8, <3>1 DEF Beyond
  <2> QED
    BY <2>2, <2>4, <2>5, <2>6, <2>7, <2>9 DEF NoStableRowSkipped
<1>3. CASE ChunkEnd
  <2>1. Shape' /\ Behind' /\ Ahead' /\ Ascending' /\ Covered' /\ Beyond'
    BY <1>3 DEF ChunkEnd, Behind, Ahead, Ascending, Covered, Beyond, Handed
  <2>2. Cardinality(batch) = 0 /\ batch = {} /\ pc = "rows"
    BY <1>3, FS_EmptySet DEF ChunkEnd
  <2>3. ASSUME pc' = "end", NEW r \in stable PROVE Handed(r)
    BY <1>3, <2>2, <2>3 DEF ChunkEnd, Beyond, Covered
  <2>4. NoStableRowSkipped'
    BY <1>3, <2>3 DEF ChunkEnd, NoStableRowSkipped, Handed
  <2> QED
    BY <2>1, <2>4
<1>4. CASE Fail
  BY <1>4 DEF Fail, Behind, Ahead, Ascending, Covered, Beyond, NoStableRowSkipped, Handed
<1>5. ASSUME NEW i \in Id, Insert(i) \/ Delete(i)
      PROVE  Inv'
  <2>1. /\ stable' \subseteq stable /\ table' \subseteq seen' /\ stable' \subseteq table'
        /\ seen \subseteq seen' /\ seen' \subseteq Id
        /\ UNCHANGED <<pc, lastID, count, batch, out>>
    BY <1>5 DEF Insert, Delete
  <2> QED
    BY <2>1 DEF Behind, Ahead, Ascending, Covered, Beyond, NoStableRowSkipped, Handed
<1>6. CASE UNCHANGED vars
  BY <1>6 DEF vars, Behind, Ahead, Ascending, Covered, Beyond, NoStableRowSkipped, Handed
<1> QED
  BY <1>1, <1>2, <1>3, <1>4, <1>5, <1>6 DEF Next, Stream

LEMMA InvCorrect == Spec => []Inv
BY InvInit, InvStep, PTL DEF Spec

\* The callback never gets a row twice, and gets them in the order of their ids.
THEOREM RowsAscend == Spec => []Ascending
<1>1. Inv => Ascending
  BY DEF Inv
<1> QED
  BY <1>1, InvCorrect, PTL

\* Keyset pagination loses no row that stays in the table, wherever other
\* sessions insert and delete around it: paging by OFFSET would.
THEOREM StableRowsHanded == Spec => []NoStableRowSkipped
<1>1. Inv => NoStableRowSkipped
  BY DEF Inv
<1> QED
  BY <1>1, InvCorrect, PTL
\* A chunk's rows, those handed over and those to come, are at most ChunkSize.
Filled == pc = "rows" => count + Cardinality(batch) <= ChunkSize

LEMMA FilledStep == TypeOK /\ Filled /\ [Next]_vars => (TypeOK /\ Filled)'
<1> SUFFICES ASSUME TypeOK, Filled, [Next]_vars PROVE (TypeOK /\ Filled)'
  OBVIOUS
<1> USE StreamAssumption DEF TypeOK, Id
<1>1. CASE Query
  <2>1. PICK B \in SUBSET After(table, lastID) :
          batch' = B /\ (Cardinality(B) = ChunkSize \/ Cardinality(B) < ChunkSize)
    BY <1>1 DEF Query, Limit
  <2>2. B \subseteq Id /\ Cardinality(B) \in Nat
    BY FiniteBatch DEF After
  <2> QED
    BY <1>1, <2>1, <2>2 DEF Query, Filled
<1>2. CASE Row
  <2>1. PICK i \in batch : batch' = batch \ {i} /\ lastID' = i /\ out' = Append(out, i)
    BY <1>2 DEF Row
  <2>2. Cardinality(batch') = Cardinality(batch) - 1 /\ Cardinality(batch) \in Nat
    BY <2>1, FiniteBatch, FS_RemoveElement
  <2>3. Cardinality(batch') \in Nat
    BY <2>1, FiniteBatch
  <2>4. /\ count' = count + 1 /\ pc = "rows"
        /\ UNCHANGED <<table, stable, seen, edits, pc>>
    BY <1>2 DEF Row
  <2>5. count + 1 <= ChunkSize /\ Filled'
    BY <2>2, <2>3, <2>4 DEF Filled
  <2> QED
    BY <2>1, <2>4, <2>5
<1>3. CASE ChunkEnd
  BY <1>3 DEF ChunkEnd, Filled
<1>4. CASE Fail
  BY <1>4 DEF Fail, Filled
<1>5. ASSUME NEW i \in Id, Insert(i)
      PROVE  (TypeOK /\ Filled)'
  BY <1>5 DEF Insert, Filled
<1>6. ASSUME NEW i \in Id, Delete(i)
      PROVE  (TypeOK /\ Filled)'
  BY <1>6 DEF Delete, Filled
<1>7. CASE UNCHANGED vars
  BY <1>7 DEF vars, Filled
<1> QED
  BY <1>1, <1>2, <1>3, <1>4, <1>5, <1>6, <1>7 DEF Next, Stream

\* The variables of the stream keep their types; a chunk is never counted past
\* its size, so an empty result always ends the stream or starts the next query.
THEOREM TypeCorrect == Spec => []TypeOK
<1>1. Init => TypeOK /\ Filled
  BY StreamAssumption DEF Init, TypeOK, Filled, Id
<1> QED
  BY <1>1, FilledStep, PTL DEF Spec
-------------------------------------------------------------------------------
(* The stream without its chunks.                                            *)

LEMMA PromiseInit == Init => Promise!Init
BY DEF Init, Promise!Init

\* A query is a stutter, a row is a step, and the end of the last chunk the end.
LEMMA PromiseStep == Inv /\ [Next]_vars => [Promise!Next]_(Promise!vars)
<1> SUFFICES ASSUME Inv, [Next]_vars PROVE [Promise!Next]_(Promise!vars)
  OBVIOUS
<1> USE StreamAssumption DEF Inv, Shape, Id
<1>1. CASE Query
  BY <1>1 DEF Query, Promise!vars
<1>2. CASE Row
  <2>1. PICK i \in batch : (\A j \in batch : i <= j) /\ out' = Append(out, i)
    BY <1>2 DEF Row
  <2>2. /\ pc = "rows" /\ UNCHANGED <<table, stable, seen, pc>>
    BY <1>2 DEF Row
  <2>3. \A j \in Promise!Handed : j < i
    <3>1. \A j \in Promise!Handed : j \in Id /\ j <= lastID
      BY DEF Promise!Handed, Behind
    <3> QED
      BY <2>1, <3>1 DEF Ahead
  <2>4. ASSUME NEW s \in stable, s < i PROVE s \in Promise!Handed
    <3>1. CASE Handed(s)
      BY <3>1 DEF Handed, Promise!Handed
    <3>2. CASE s > lastID
      BY <2>1, <2>2, <2>4, <3>2 DEF Beyond
    <3> QED
      BY <3>1, <3>2 DEF Covered
  <2>5. Promise!Hand(i)
    BY <2>1, <2>2, <2>3, <2>4 DEF Promise!Hand
  <2> QED
    BY <2>5 DEF Promise!Next
<1>3. CASE ChunkEnd
  <2>1. CASE pc' = "query"
    BY <1>3, <2>1 DEF ChunkEnd, Promise!vars
  <2>2. CASE pc' = "end"
    <3>1. NoStableRowSkipped'
      BY InvStep
    <3>2. stable \subseteq Promise!Handed
      BY <1>3, <2>2, <3>1 DEF ChunkEnd, NoStableRowSkipped, Promise!Handed
    <3> QED
      BY <1>3, <2>2, <3>2 DEF ChunkEnd, Promise!End, Promise!Next
  <2> QED
    BY <1>3, <2>1, <2>2 DEF ChunkEnd
<1>4. CASE Fail
  BY <1>4 DEF Fail, Promise!Fail, Promise!Next
<1>5. ASSUME NEW i \in Id, Insert(i)
      PROVE  Promise!Insert(i)
  BY <1>5 DEF Insert, Promise!Insert
<1>6. ASSUME NEW i \in Id, Delete(i)
      PROVE  Promise!Delete(i)
  BY <1>6 DEF Delete, Promise!Delete
<1>7. CASE UNCHANGED vars
  BY <1>7 DEF vars, Promise!vars
<1> QED
  BY <1>1, <1>2, <1>3, <1>4, <1>5, <1>6, <1>7 DEF Next, Stream, Promise!Next

\* For every chunk size, and whatever other sessions insert and delete, reading
\* in chunks is reading the rows one after the other.
THEOREM ChunksInvisible == Spec => ImplementsOrderedStream
BY InvCorrect, PromiseInit, PromiseStep, PTL
   DEF Spec, ImplementsOrderedStream, Promise!Spec
===============================================================================
