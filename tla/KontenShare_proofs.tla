-------------------------- MODULE KontenShare_proofs --------------------------
(***************************************************************************)
(* Whatever the number of clients and sections, no translation reaches the *)
(* cache: while a flight may still store its slice nobody else has it.     *)
(***************************************************************************)
EXTENDS KontenShare, TLAPS

\* The parts of the type invariant that the argument needs.
Typed ==
  /\ pc \in [Clients -> PCs]
  /\ DOMAIN heap = Clients
  /\ slice \in [Clients -> Clients \cup {None}]
  /\ flight \in Clients \cup {None}

OneLeader == \A c \in Clients : pc[c] \in {"read", "store", "finish"} <=> flight = c

\* A client that has no page yet holds no slice, and nobody holds one of its.
Empty(c) == \A d \in Clients : slice[c] = None /\ slice[d] # c

\* A leader with a page holds its own slice, alone and untouched.
Alone(c) == \A d \in Clients : slice[c] \in {c, None} /\ (d # c => slice[d] # c)

Ownership ==
  \A c \in Clients :
    /\ pc[c] \in {"kitab", "get", "do", "wait", "read"} => Empty(c)
    /\ pc[c] \in {"store", "finish"} => Alone(c)
    /\ pc[c] = "store" => slice[c] = c /\ heap[c] = Original

IInv == Typed /\ OneLeader /\ Ownership /\ CacheKeepsOriginal

LEMMA InitIInv == Init => IInv
BY ConstantsAssumption
   DEF Init, IInv, Typed, OneLeader, Ownership, Empty, Alone, CacheKeepsOriginal, PCs

\* Every step of a client keeps the invariant.
LEMMA StepIInv ==
  ASSUME IInv, NEW c \in Clients, Step(c)
  PROVE  IInv'
<1> USE ConstantsAssumption DEF IInv, Typed, OneLeader, Ownership, Empty, Alone,
        CacheKeepsOriginal, PCs, Goto
<1>1. CASE KitabFound(c)
  BY <1>1 DEF KitabFound
<1>2. ASSUME NEW code \in Errors, KitabRefused(c, code) PROVE IInv'
  BY <1>2 DEF KitabRefused
<1>3. CASE CacheHit(c)
  BY <1>3 DEF CacheHit
<1>4. CASE CacheMiss(c)
  BY <1>4 DEF CacheMiss
<1>5. CASE Lead(c)
  BY <1>5 DEF Lead
<1>6. CASE Follow(c)
  BY <1>6 DEF Follow
<1>7. CASE RepoRead(c)
  BY <1>7 DEF RepoRead
<1>8. CASE RepoFail(c)
  BY <1>8 DEF RepoFail
<1>9. CASE CacheSet(c)
  BY <1>9 DEF CacheSet
<1>10. CASE CacheSetFail(c)
  BY <1>10 DEF CacheSetFail
<1>11. CASE FinishCall(c)
  <2> DEFINE flyers == {c} \cup {d \in Clients : pc[d] = "wait"}
  <2>1. Typed' /\ OneLeader' /\ CacheKeepsOriginal'
    BY <1>11 DEF FinishCall
  <2>2. \A d \in flyers : pc'[d] \in {"done", "trans"}
    BY <1>11 DEF FinishCall
  <2>3. \A d \in Clients \ flyers : pc'[d] = pc[d] /\ slice'[d] = slice[d]
    BY <1>11 DEF FinishCall
  <2>4. \A d \in flyers : slice'[d] \in {c, None}
    BY <1>11 DEF FinishCall
  <2>5. Ownership'
    BY <1>11, <2>2, <2>3, <2>4 DEF FinishCall
  <2>6. QED
    BY <2>1, <2>5
<1>12. CASE EndOfLoop(c)
  BY <1>12 DEF EndOfLoop
<1>13. CASE Translate(c)
  BY <1>13 DEF Translate, InLoop
<1>14. CASE TranslateFail(c)
  BY <1>14 DEF TranslateFail, InLoop
<1>15. CASE WritePtr(c) \/ WriteLen(c)
  <2>1. \A d \in Clients : d # slice[c] => heap'[d] = heap[d]
    BY <1>15 DEF WritePtr, WriteLen
  <2>2. \A d \in Clients : pc[d] = "store" => d # slice[c]
    BY <1>15 DEF WritePtr, WriteLen
  <2>3. DOMAIN heap' = Clients
    BY <1>15 DEF WritePtr, WriteLen
  <2>4. QED
    BY <1>15, <2>1, <2>2, <2>3 DEF WritePtr, WriteLen
<1>16. CASE Encode(c)
  BY <1>16 DEF Encode
<1>17. QED
  BY <1>1, <1>2, <1>3, <1>4, <1>5, <1>6, <1>7, <1>8, <1>9, <1>10, <1>11, <1>12,
     <1>13, <1>14, <1>15, <1>16 DEF Step

LEMMA NextIInv == IInv /\ [Next]_vars => IInv'
<1> SUFFICES ASSUME IInv, [Next]_vars PROVE IInv'
  OBVIOUS
<1> USE DEF IInv, Typed, OneLeader, Ownership, Empty, Alone, CacheKeepsOriginal
<1>1. CASE Expire
  BY <1>1 DEF Expire
<1>2. CASE UNCHANGED vars
  BY <1>2 DEF vars
<1>3. QED
  BY <1>1, <1>2, StepIInv DEF Next, Terminating

\* Translations stay out of Redis, so that they end with the flight that made
\* them: a later request decodes the text as PostgreSQL returned it.
THEOREM CacheStaysOriginal == Spec => []CacheKeepsOriginal
<1>1. IInv => CacheKeepsOriginal
  BY DEF IInv
<1>2. QED
  BY <1>1, InitIInv, NextIInv, PTL DEF Spec
-------------------------------------------------------------------------------
(* The types of slices and responses.                                        *)

\* The slices: a section that is written exists.
Slices ==
  /\ pc \in [Clients -> PCs]
  /\ heap \in [Clients -> Page \cup {None}]
  /\ slice \in [Clients -> Clients \cup {None}]
  /\ cache \in Page \cup {None}
  /\ flight \in Clients \cup {None}
  /\ sec \in [Clients -> 1..Sections + 1]
  /\ \A c \in Clients :
       /\ slice[c] # None => heap[slice[c]] # None
       /\ pc[c] \in {"trans", "ptr", "len", "encode"} => slice[c] # None
       /\ pc[c] \in {"ptr", "len"} => sec[c] <= Sections

\* The responses, which grow by whole sections.
Texts == {None} \cup Errors \cup UNION {[1..n -> Words] : n \in 0..Sections}

Responses ==
  \A c \in Clients :
    /\ resp[c] \in Texts
    /\ pc[c] = "encode" => resp[c] \in [1..(sec[c] - 1) -> Words]

LEMMA Texted ==
  /\ None \in Texts /\ Failed \in Texts
  /\ \A code \in Errors : code \in Texts
BY DEF Texts, Errors

LEMMA Beginning ==
  ASSUME NEW n \in 0..Sections, NEW t \in [1..n -> Words]
  PROVE  t \in Texts
BY DEF Texts

LEMMA SlicesStep ==
  ASSUME IInv, Slices, NEW c \in Clients, Step(c)
  PROVE  Slices'
<1> USE ConstantsAssumption DEF Slices, PCs, Goto
<1>1. ASSUME NEW code \in Errors, KitabRefused(c, code)
      PROVE  Slices'
  BY <1>1 DEF KitabRefused
<1>2. CASE KitabFound(c) \/ CacheMiss(c) \/ Lead(c) \/ Follow(c) \/ RepoFail(c) \/ CacheSetFail(c)
  BY <1>2 DEF KitabFound, CacheMiss, Lead, Follow, RepoFail, CacheSetFail
<1>3. CASE CacheHit(c)
  BY <1>3 DEF CacheHit
<1>4. Original \in Page
  BY DEF Original, Page, Words, Text, Langs
<1>5. CASE RepoRead(c)
  BY <1>4, <1>5 DEF RepoRead
<1>6. CASE CacheSet(c)
  BY <1>4, <1>6 DEF CacheSet, IInv, Ownership
<1>7. CASE FinishCall(c)
  BY <1>7 DEF FinishCall
<1>8. CASE EndOfLoop(c)
  BY <1>8 DEF EndOfLoop
<1>9. CASE Translate(c) \/ TranslateFail(c)
  BY <1>9 DEF Translate, TranslateFail, InLoop
<1>10. CASE WritePtr(c) \/ WriteLen(c)
  <2> DEFINE s == slice[c]
             i == sec[c]
  <2>1. s \in Clients /\ heap[s] \in Page /\ i \in Index /\ LangOf[c] \in Langs
    BY <1>10 DEF WritePtr, WriteLen, Index
  <2>2. heap[s][i] \in Words /\ heap[s] \in [Index -> Words]
    BY <2>1 DEF Page
  <2>3. /\ [heap[s][i] EXCEPT !.ptr = LangOf[c]] \in Words
        /\ [heap[s][i] EXCEPT !.len = LangOf[c]] \in Words
    BY <2>1, <2>2 DEF Words
  <2>4. \E w \in Words : heap' = [heap EXCEPT ![s] = [heap[s] EXCEPT ![i] = w]]
    BY <1>10, <2>3 DEF WritePtr, WriteLen
  <2>5. PICK w \in Words : heap' = [heap EXCEPT ![s] = [heap[s] EXCEPT ![i] = w]]
    BY <2>4
  <2>6. [heap[s] EXCEPT ![i] = w] \in Page
    BY <2>2 DEF Page
  <2>7. heap' \in [Clients -> Page \cup {None}] /\ \A d \in Clients : heap[d] # None => heap'[d] # None
    BY <2>1, <2>5, <2>6
  <2>8. /\ UNCHANGED <<slice, cache, flight>>
        /\ pc' \in [Clients -> PCs] /\ sec' \in [Clients -> 1..Sections + 1]
        /\ \A d \in Clients : pc'[d] \in {"trans", "ptr", "len", "encode"} =>
                                pc[d] \in {"trans", "ptr", "len", "encode"}
        /\ \A d \in Clients : pc'[d] \in {"ptr", "len"} => sec'[d] <= Sections
    BY <1>10, <2>1 DEF WritePtr, WriteLen, Index
  <2> QED
    BY <2>7, <2>8
<1>11. CASE Encode(c)
  <2>1. /\ UNCHANGED <<heap, slice, cache, flight>>
        /\ pc[c] = "encode"
        /\ pc' = pc \/ pc' = [pc EXCEPT ![c] = "done"]
        /\ \/ sec' = sec
           \/ sec[c] <= Sections /\ sec' = [sec EXCEPT ![c] = sec[c] + 1]
    BY <1>11 DEF Encode
  <2>2. sec' \in [Clients -> 1..Sections + 1] /\ pc' \in [Clients -> PCs]
    BY <2>1
  <2>3. \A d \in Clients : d # c => pc'[d] = pc[d] /\ sec'[d] = sec[d]
    BY <2>1
  <2>4. pc'[c] \in {"encode", "done"}
    BY <2>1
  <2> QED
    BY <2>1, <2>2, <2>3, <2>4
<1> QED
  BY <1>1, <1>2, <1>3, <1>5, <1>6, <1>7, <1>8, <1>9, <1>10, <1>11 DEF Step

\* Responses change when a request is refused, fails, or is encoded.
LEMMA ResponsesStep ==
  ASSUME Slices, Responses, NEW c \in Clients, Step(c),
         resp \in [Clients -> Texts]
  PROVE  Responses' /\ resp' \in [Clients -> Texts]
<1> USE ConstantsAssumption, Texted DEF Responses, Slices, PCs, Goto
<1>1. ASSUME NEW code \in Errors, KitabRefused(c, code)
      PROVE  Responses' /\ resp' \in [Clients -> Texts]
  BY <1>1 DEF KitabRefused
<1>2. CASE KitabFound(c) \/ CacheMiss(c) \/ Lead(c) \/ Follow(c) \/ RepoFail(c) \/ CacheSetFail(c)
  BY <1>2 DEF KitabFound, CacheMiss, Lead, Follow, RepoFail, CacheSetFail
<1>3. CASE CacheHit(c) \/ RepoRead(c) \/ CacheSet(c)
  BY <1>3 DEF CacheHit, RepoRead, CacheSet
<1>4. CASE FinishCall(c)
  BY <1>4 DEF FinishCall
<1>5. CASE EndOfLoop(c)
  <2>1. <<>> \in [1..0 -> Words]
    OBVIOUS
  <2>2. <<>> \in Texts
    <3>1. 0 \in 0..Sections
      OBVIOUS
    <3> QED
      BY ONLY <2>1, <3>1, Beginning, Zenon
  <2>3. resp' = [resp EXCEPT ![c] = <<>>] /\ sec' = [sec EXCEPT ![c] = 1]
        /\ pc' = [pc EXCEPT ![c] = "encode"]
    BY <1>5 DEF EndOfLoop
  <2>4. resp' \in [Clients -> Texts]
    BY <2>2, <2>3
  <2>5. ASSUME NEW d \in Clients, pc'[d] = "encode"
        PROVE  resp'[d] \in [1..(sec'[d] - 1) -> Words]
    <3>1. CASE d = c
      <4>1. resp'[d] = <<>> /\ sec'[d] - 1 = 0
        BY <2>3, <3>1
      <4> QED
        BY <2>1, <4>1
    <3>2. CASE d # c
      BY <2>3, <2>5, <3>2
    <3> QED
      BY <3>1, <3>2
  <2> QED
    BY <2>4, <2>5
<1>6. CASE Translate(c) \/ TranslateFail(c)
  BY <1>6 DEF Translate, TranslateFail, InLoop
<1>7. CASE WritePtr(c) \/ WriteLen(c)
  BY <1>7 DEF WritePtr, WriteLen
<1>8. CASE Encode(c)
  <2>1. CASE sec[c] <= Sections
    <3> DEFINE longer == [i \in 1..sec[c] |-> IF i < sec[c] THEN resp[c][i]
                                              ELSE heap[slice[c]][i]]
    <3>1. heap[slice[c]] \in [Index -> Words] /\ sec[c] \in 1..Sections
      BY <1>8, <2>1 DEF Encode, Page
    <3>2. resp[c] \in [1..(sec[c] - 1) -> Words]
      BY <1>8 DEF Encode
    <3>3. ASSUME NEW i \in 1..sec[c]
          PROVE  (IF i < sec[c] THEN resp[c][i] ELSE heap[slice[c]][i]) \in Words
      <4>1. CASE i < sec[c]
        <5>1. i \in 1..(sec[c] - 1)
          BY <3>1, <4>1
        <5> QED
          BY <3>2, <4>1, <5>1
      <4>2. CASE ~(i < sec[c])
        BY <3>1, <4>2 DEF Index
      <4> QED
        BY <4>1, <4>2
    <3>4. longer \in [1..sec[c] -> Words]
      BY <3>3
    <3>5. /\ resp' = [resp EXCEPT ![c] = longer]
          /\ sec' = [sec EXCEPT ![c] = sec[c] + 1]
          /\ pc' = pc
      BY <1>8, <2>1, <3>1 DEF Encode
    <3> HIDE DEF longer
    <3>6. longer \in Texts
      <4>1. sec[c] \in 0..Sections
        BY <3>1
      <4> QED
        BY ONLY <3>4, <4>1, Beginning, Zenon
    <3>7. ASSUME NEW d \in Clients, pc[d] = "encode"
          PROVE  resp'[d] \in [1..(sec'[d] - 1) -> Words]
      <4>1. CASE d = c
        <5>1. resp'[d] = longer /\ sec'[d] - 1 = sec[c]
          BY <3>1, <3>5, <4>1
        <5> QED
          BY <3>4, <5>1
      <4>2. CASE d # c
        BY <3>5, <3>7, <4>2
      <4> QED
        BY <4>1, <4>2
    <3> QED
      BY <3>5, <3>6, <3>7
  <2>2. CASE sec[c] > Sections
    BY <1>8, <2>2 DEF Encode
  <2> QED
    BY <1>8, <2>1, <2>2 DEF Encode
<1> QED
  BY <1>1, <1>2, <1>3, <1>4, <1>5, <1>6, <1>7, <1>8 DEF Step

Typing == IInv /\ Slices /\ Responses /\ resp \in [Clients -> Texts]

LEMMA TypingStep == Typing /\ [Next]_vars => Typing'
<1> SUFFICES ASSUME Typing, [Next]_vars PROVE Typing'
  OBVIOUS
<1>1. IInv'
  BY NextIInv DEF Typing
<1>2. CASE Expire
  BY <1>1, <1>2 DEF Expire, Typing, Slices, Responses
<1>3. CASE UNCHANGED vars
  BY <1>1, <1>3 DEF vars, Typing, Slices, Responses
<1>4. ASSUME NEW c \in Clients, Step(c) PROVE Typing'
  BY <1>1, <1>4, SlicesStep, ResponsesStep DEF Typing
<1> QED
  BY <1>2, <1>3, <1>4 DEF Next, Terminating

LEMMA TypingCorrect == Spec => []Typing
<1>1. Init => Typing
  BY InitIInv, ConstantsAssumption, Texted
     DEF Init, Typing, Slices, Responses, PCs
<1> QED
  BY <1>1, TypingStep, PTL DEF Spec

\* The variables keep their types; in particular a handler that writes or
\* encodes a section holds a slice that has it.
THEOREM TypeCorrect == Spec => []TypeOK
<1>1. Typing => TypeOK
  BY DEF Typing, Slices, Responses, Texts, TypeOK
<1> QED
  BY <1>1, TypingCorrect, PTL
-------------------------------------------------------------------------------
(* What a client reads in a slice that nobody else holds.                    *)

Solo(c) == \A d \in Clients \ {c} : slice[d] # slice[c]

Own(c, w) == w \in {Text(Arabic), Text(LangOf[c])}

\* Its sections are the stored ones and its translations, and the one it is
\* just writing has only the first of its words.
OwnSlice(c) ==
  \A i \in Index :
    IF pc[c] = "len" /\ i = sec[c] THEN heap[slice[c]][i].ptr = LangOf[c]
                                 ELSE Own(c, heap[slice[c]][i])

OwnText(c) ==
  /\ pc[c] = "encode" => \A i \in 1..(sec[c] - 1) : Own(c, resp[c][i])
  /\ Served(c) => \A i \in Index : Own(c, resp[c][i])

Undisturbed(c) ==
  /\ slice[c] = None /\ pc[c] = "done" => resp[c] \in Errors
  /\ slice[c] # None /\ Solo(c) => OwnSlice(c) /\ OwnText(c)

\* A client keeps the slice it holds, so one that is alone was always alone.
LEMMA SlicesStay ==
  ASSUME Typing, NEW c \in Clients, Step(c)
  PROVE  \A d \in Clients : slice[d] # None => slice'[d] = slice[d]
<1> USE DEF Typing, IInv, Typed, Ownership, Empty, Goto
<1>1. CASE CacheHit(c) \/ RepoRead(c)
  BY <1>1 DEF CacheHit, RepoRead
<1>2. CASE FinishCall(c)
  BY <1>2 DEF FinishCall
<1>3. CASE ~(CacheHit(c) \/ RepoRead(c) \/ FinishCall(c))
  <2>1. slice' = slice
    BY <1>3 DEF Step, KitabFound, KitabRefused, CacheMiss, Lead, Follow, RepoFail, CacheSet,
        CacheSetFail, EndOfLoop, Translate, TranslateFail, WritePtr, WriteLen, Encode
  <2> QED
    BY <2>1
<1> QED
  BY <1>1, <1>2, <1>3

\* No step of another client reaches the slice of one that is alone.
LEMMA OthersStep ==
  ASSUME Typing, NEW c \in Clients, Step(c),
         NEW d \in Clients, d # c, Undisturbed(d)
  PROVE  Undisturbed(d)'
<1> USE DEF Typing, IInv, Typed, Ownership, Empty, Goto
<1>1. CASE FinishCall(c)
  <2>1. CASE pc[d] = "wait"
    <3>1. slice[d] = None /\ slice'[d] = slice[c] /\ slice'[c] = slice[c]
      BY <1>1, <2>1 DEF FinishCall
    <3>2. slice'[d] = None => resp'[d] \in Errors
      BY <1>1, <2>1, <3>1 DEF FinishCall, Slices, Responses, Errors
    <3> QED
      BY <3>1, <3>2 DEF Undisturbed, Solo
  <2>2. CASE pc[d] # "wait"
    <3>1. /\ pc'[d] = pc[d] /\ slice'[d] = slice[d] /\ resp'[d] = resp[d]
          /\ heap' = heap /\ sec' = sec
      BY <1>1, <2>2 DEF FinishCall, Slices
    <3>2. slice[d] # None /\ Solo(d)' => Solo(d)
      BY <3>1, SlicesStay DEF Solo
    <3> QED
      BY <3>1, <3>2 DEF Undisturbed, OwnSlice, OwnText, Served
  <2> QED
    BY <2>1, <2>2
<1>2. CASE ~FinishCall(c)
  <2>1. /\ pc'[d] = pc[d] /\ slice'[d] = slice[d] /\ resp'[d] = resp[d] /\ sec'[d] = sec[d]
    BY <1>2 DEF Step, KitabFound, KitabRefused, CacheHit, CacheMiss, Lead, Follow, RepoRead,
        RepoFail, CacheSet, CacheSetFail, EndOfLoop, Translate, TranslateFail, InLoop,
        WritePtr, WriteLen, Encode, Slices
  <2>2. slice[d] # None /\ Solo(d)' => Solo(d)
    BY <2>1, SlicesStay DEF Solo
  <2>3. slice[d] # None /\ Solo(d) => heap'[slice[d]] = heap[slice[d]]
    <3> SUFFICES ASSUME slice[d] # None, Solo(d) PROVE heap'[slice[d]] = heap[slice[d]]
      OBVIOUS
    <3>1. CASE CacheHit(c) \/ RepoRead(c)
      BY <3>1 DEF CacheHit, RepoRead, Slices
    <3>2. CASE WritePtr(c) \/ WriteLen(c)
      BY <3>2 DEF WritePtr, WriteLen, Solo, Slices
    <3>3. CASE UNCHANGED heap
      BY <3>3
    <3> QED
      BY <1>2, <3>1, <3>2, <3>3 DEF Step, KitabFound, KitabRefused, CacheMiss, Lead, Follow,
          RepoFail, CacheSet, CacheSetFail, EndOfLoop, Translate, TranslateFail, Encode
  <2> QED
    BY <2>1, <2>2, <2>3 DEF Undisturbed, OwnSlice, OwnText, Served
<1> QED
  BY <1>1, <1>2

\* Its own steps write its own language, and read what it wrote.
LEMMA SelfStep ==
  ASSUME Typing, NEW c \in Clients, Step(c), Undisturbed(c)
  PROVE  Undisturbed(c)'
<1> USE DEF Typing, IInv, Typed, Ownership, Empty, Goto
<1>0. slice[c] # None => slice'[c] = slice[c] /\ (Solo(c)' => Solo(c))
  BY SlicesStay DEF Solo
<1>1. \A s \in Clients : heap'[s] = Original => \A i \in Index : Own(c, heap'[s][i])
  BY DEF Original, Own
<1>2. CASE KitabFound(c) \/ CacheMiss(c) \/ Lead(c) \/ Follow(c) \/ RepoFail(c)
  BY <1>2 DEF KitabFound, CacheMiss, Lead, Follow, RepoFail, Undisturbed, Slices
<1>3. ASSUME NEW code \in Errors, KitabRefused(c, code) PROVE Undisturbed(c)'
  BY <1>3 DEF KitabRefused, Undisturbed, Slices, Responses
<1>4. CASE CacheHit(c) \/ RepoRead(c)
  <2>1. slice'[c] = c /\ heap'[c] = Original /\ pc'[c] \in {"trans", "store"}
    BY <1>4 DEF CacheHit, RepoRead, Slices, CacheKeepsOriginal
  <2> QED
    BY <1>1, <2>1, ConstantsAssumption DEF Undisturbed, OwnSlice, OwnText, Served
<1>5. CASE CacheSet(c) \/ CacheSetFail(c) \/ Translate(c)
  <2>1. /\ UNCHANGED <<heap, slice, sec, resp>>
        /\ pc[c] # "len" /\ pc'[c] \in {"finish", "ptr"}
    BY <1>5 DEF CacheSet, CacheSetFail, Translate, InLoop, Slices
  <2> QED
    BY <1>0, <2>1 DEF Undisturbed, OwnSlice, OwnText, Served
<1>6. CASE FinishCall(c)
  <2>1. /\ UNCHANGED <<heap, sec>>
        /\ slice'[c] = slice[c] /\ pc[c] # "len"
    BY <1>6 DEF FinishCall, Slices
  <2>2. CASE slice[c] = None
    <3>1. pc'[c] = "done" /\ resp'[c] \in Errors
      BY <1>6, <2>2 DEF FinishCall, Errors, Responses
    <3> QED
      BY <2>1, <2>2, <3>1 DEF Undisturbed
  <2>3. CASE slice[c] # None
    <3>1. pc'[c] = "trans"
      BY <1>6, <2>3 DEF FinishCall
    <3> QED
      BY <1>0, <2>1, <2>3, <3>1 DEF Undisturbed, OwnSlice, OwnText, Served
  <2> QED
    BY <2>2, <2>3
<1>7. CASE EndOfLoop(c)
  <2>1. /\ UNCHANGED <<heap, slice>>
        /\ pc[c] = "trans" /\ pc'[c] = "encode" /\ sec'[c] = 1
    BY <1>7 DEF EndOfLoop, Slices
  <2> QED
    BY <1>0, <2>1 DEF Undisturbed, OwnSlice, OwnText, Served
<1>8. CASE TranslateFail(c)
  <2>1. UNCHANGED <<heap, slice, pc, resp>> /\ pc[c] = "trans"
    BY <1>8 DEF TranslateFail, InLoop
  <2> QED
    BY <1>0, <2>1 DEF Undisturbed, OwnSlice, OwnText, Served
<1>9. CASE WritePtr(c) \/ WriteLen(c)
  <2>1. slice[c] \in Clients /\ heap[slice[c]] \in [Index -> Words] /\ sec[c] \in Index
    BY <1>9 DEF WritePtr, WriteLen, Slices, Index, Page
  <2>2. SUFFICES ASSUME Solo(c) PROVE OwnSlice(c)' /\ OwnText(c)'
    BY <1>0, <1>9, <2>1 DEF WritePtr, WriteLen, Undisturbed, Slices
  <2>3. slice' = slice /\ \A i \in Index \ {sec[c]} : heap'[slice[c]][i] = heap[slice[c]][i]
    BY <1>9, <2>1 DEF WritePtr, WriteLen, Slices
  <2>4. OwnSlice(c)
    BY <1>9, <2>2 DEF WritePtr, WriteLen, Undisturbed, Slices
  <2>5. CASE WritePtr(c)
    <3>1. /\ pc[c] = "ptr" /\ pc'[c] = "len" /\ sec' = sec
          /\ heap'[slice[c]][sec[c]].ptr = LangOf[c]
      BY <2>1, <2>5 DEF WritePtr, Slices, Words
    <3> QED
      BY <2>3, <2>4, <3>1 DEF OwnSlice, OwnText, Served
  <2>6. CASE WriteLen(c)
    <3>1. /\ pc[c] = "len" /\ pc'[c] = "trans"
          /\ heap'[slice[c]][sec[c]] = [heap[slice[c]][sec[c]] EXCEPT !.len = LangOf[c]]
      BY <2>1, <2>6 DEF WriteLen, Slices
    <3>2. heap[slice[c]][sec[c]].ptr = LangOf[c] /\ heap[slice[c]][sec[c]] \in Words
      BY <2>1, <2>4, <3>1 DEF OwnSlice
    <3>3. heap'[slice[c]][sec[c]] = Text(LangOf[c])
      BY <3>1, <3>2 DEF Words, Text
    <3> QED
      BY <2>3, <2>4, <3>1, <3>3 DEF OwnSlice, OwnText, Served, Own
  <2> QED
    BY <1>9, <2>5, <2>6
<1>10. CASE Encode(c)
  <2>1. /\ UNCHANGED <<heap, slice>> /\ pc[c] = "encode" /\ slice[c] # None
        /\ sec[c] \in 1..Sections + 1
    BY <1>10 DEF Encode, Slices
  <2>2. SUFFICES ASSUME Solo(c) PROVE OwnSlice(c)' /\ OwnText(c)'
    BY <1>0, <2>1 DEF Undisturbed
  <2>3. (\A i \in Index : Own(c, heap[slice[c]][i])) /\ \A i \in 1..(sec[c] - 1) : Own(c, resp[c][i])
    BY <2>1, <2>2 DEF Undisturbed, OwnSlice, OwnText
  <2>4. CASE sec[c] <= Sections
    <3> DEFINE longer == [i \in 1..sec[c] |-> IF i < sec[c] THEN resp[c][i]
                                              ELSE heap[slice[c]][i]]
    <3>0. /\ pc' = pc /\ sec' = [sec EXCEPT ![c] = sec[c] + 1]
          /\ resp' = [resp EXCEPT ![c] = longer]
      BY ONLY <1>10, <2>1, <2>4, ConstantsAssumption DEF Encode, Goto
    <3>1. /\ sec[c] \in Index /\ pc' = pc /\ sec'[c] = sec[c] + 1
          /\ resp'[c] = longer
      <4> HIDE DEF longer
      <4> QED
        BY <2>1, <2>4, <3>0 DEF Index, Slices
    <3>2. \A i \in 1..sec[c] : Own(c, resp'[c][i])
      BY <2>1, <2>3, <3>1
    <3> QED
      BY <2>1, <2>3, <3>1, <3>2 DEF OwnSlice, OwnText, Served
  <2>5. CASE ~(sec[c] <= Sections)
    <3>1. /\ sec[c] - 1 = Sections /\ pc'[c] = "done" /\ UNCHANGED <<sec, resp>>
      BY <1>10, <2>1, <2>5, ConstantsAssumption DEF Encode, Slices
    <3> QED
      BY <2>1, <2>3, <3>1 DEF OwnSlice, OwnText, Served, Index
  <2> QED
    BY <2>4, <2>5
<1> QED
  BY <1>2, <1>3, <1>4, <1>5, <1>6, <1>7, <1>8, <1>9, <1>10 DEF Step

\* The damage of the shared slice is confined to shared slices: a client that
\* holds its slice alone is served the stored text or its own language.
THEOREM SoloIsSafe == Spec => []SoloAnswersOwnLanguage
<1> DEFINE Safe == \A c \in Clients : Undisturbed(c)
<1>1. Init => Safe
  BY DEF Init, Undisturbed
<1>2. Typing /\ Safe /\ [Next]_vars => Safe'
  <2>1. CASE Expire
    BY <2>1 DEF Expire, Undisturbed, Solo, OwnSlice, OwnText, Served
  <2>2. CASE UNCHANGED vars
    BY <2>2 DEF vars, Undisturbed, Solo, OwnSlice, OwnText, Served
  <2>3. ASSUME Typing, Safe, NEW c \in Clients, Step(c) PROVE Safe'
    BY <2>3, SelfStep, OthersStep
  <2> QED
    BY <2>1, <2>2, <2>3 DEF Next, Terminating
<1>3. Safe => SoloAnswersOwnLanguage
  BY DEF SoloAnswersOwnLanguage, Undisturbed, OwnText, OwnLanguage, Own, Solo, Served
<1> QED
  BY <1>1, <1>2, <1>3, TypingCorrect, PTL DEF Spec
===============================================================================
