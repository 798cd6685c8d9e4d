-------------------------- MODULE PagedQuery_proofs --------------------------
(***************************************************************************)
(* For any number of requests and any size of the pool: a call of the      *)
(* repository returns a page only when both queries have answered, and     *)
(* reports the error that came first.                                      *)
(***************************************************************************)
EXTENDS PagedQuery, TLAPS

\* A task has an error only from its own query or from a context that ended.
Tasked ==
  \A r \in Requests, t \in Tasks :
    /\ pc[r] = "start" => task[r][t] = "off"
    /\ task[r][t] \in {"off", "acquire", "query"} => err[r][t] = None
    /\ task[r][t] \in {"return", "ended"} /\ t \in TasksOf(r) =>
         err[r][t] # None \/ found[r][t] # None
    /\ err[r][t] = "canceled" => r \in cancelled \cup gone

\* The group's error: there is one as soon as a failed task has ended, and no
\* context is cancelled before there is one.
Grouped ==
  \A r \in Requests :
    /\ \A t \in Tasks : task[r][t] = "ended" /\ err[r][t] # None => first[r] # None
    /\ r \in cancelled => first[r] # None \/ pc[r] = "done"
    /\ first[r] = "canceled" => r \in gone

\* A call waits for all its goroutines (g.Wait).
Returned ==
  \A r \in Requests :
    /\ pc[r] = "done" => ret[r] = first[r] /\ \A t \in Tasks : task[r][t] = "ended"
    /\ pc[r] # "done" => ret[r] = None

IInv == TypeOK /\ Tasked /\ Grouped /\ Returned

LEMMA InitIInv == Init => IInv
BY ConstantsAssumption
   DEF Init, IInv, TypeOK, Tasked, Grouped, Returned,
       Version, PCs, Stages, ErrKind, TasksOf

\* A step of one goroutine of a call.
LEMMA TaskStepIInv ==
  ASSUME IInv, NEW r \in Requests, NEW t \in Tasks, TaskStep(r, t)
  PROVE  IInv'
<1> USE ConstantsAssumption
    DEF IInv, TypeOK, Tasked, Grouped, Returned, Version, PCs, Stages, ErrKind
<1>1. CASE Acquire(r, t)
  BY <1>1 DEF Acquire
<1>2. CASE Read(r, t)
  BY <1>2 DEF Read
<1>3. CASE Fail(r, t)
  BY <1>3 DEF Fail, Stop
<1>4. CASE Cancel(r, t)
  BY <1>4 DEF Cancel, Stop
<1>5. CASE Return(r, t)
  <2>1. pc[r] # "done" /\ first[r] = None => r \notin cancelled
    BY <1>5 DEF Return
  <2>2. CASE err[r][t] # None /\ first[r] = None
    <3>0. /\ first' = [first EXCEPT ![r] = err[r][t]] /\ cancelled' = cancelled \cup {r}
          /\ task' = [task EXCEPT ![r][t] = "ended"]
          /\ UNCHANGED <<table, pc, err, gone, found, ret>>
      BY ONLY <1>5, <2>2 DEF Return
    <3>1. TypeOK'
      <4>1. err[r][t] \in ErrKind \cup {None}
        BY ONLY TypeOK, r \in Requests, t \in Tasks DEF TypeOK
      <4> QED
        BY ONLY <3>0, <4>1, TypeOK, r \in Requests, t \in Tasks DEF TypeOK, Stages
    <3>4. Returned'
      <4>1. pc' = pc /\ ret' = ret /\ first' = [first EXCEPT ![r] = err[r][t]]
        BY <1>5, <2>2 DEF Return
      <4>2. pc[r] # "done"
        BY <1>5 DEF Return
      <4>3. \A q \in Requests : q # r => first'[q] = first[q] /\ task'[q] = task[q]
        BY <1>5, <4>1 DEF Return
      <4> QED
        BY <4>1, <4>2, <4>3
    <3>2. Tasked'
      BY <1>5, <2>2 DEF Return
    <3>3. Grouped'
      BY <1>5, <2>1, <2>2 DEF Return
    <3> QED
      BY <3>1, <3>2, <3>3, <3>4
  <2>3. CASE ~(err[r][t] # None /\ first[r] = None)
    BY <1>5, <2>3 DEF Return
  <2>4. QED
    BY <2>2, <2>3
<1>6. QED
  BY <1>1, <1>2, <1>3, <1>4, <1>5 DEF TaskStep

LEMMA NextIInv == IInv /\ [Next]_vars => IInv'
<1> SUFFICES ASSUME IInv, [Next]_vars PROVE IInv'
  OBVIOUS
<1> USE ConstantsAssumption
    DEF IInv, TypeOK, Tasked, Grouped, Returned, Version, PCs, Stages, ErrKind
<1>1. CASE Write
  BY <1>1 DEF Write
<1>2. ASSUME NEW r \in Requests, Call(r) PROVE IInv'
  BY <1>2 DEF Call, TasksOf
<1>3. ASSUME NEW r \in Requests, Wait(r) PROVE IInv'
  BY <1>3 DEF Wait
<1>4. ASSUME NEW r \in Requests, Disconnect(r) PROVE IInv'
  BY <1>4 DEF Disconnect
<1>5. CASE UNCHANGED vars
  BY <1>5 DEF vars, TasksOf
<1>6. QED
  BY <1>1, <1>2, <1>3, <1>4, <1>5, TaskStepIInv DEF Next, Terminating

LEMMA Inductive == Spec => []IInv
BY InitIInv, NextIInv, PTL DEF Spec

\* The variables keep their types, and a group that has an error is cancelled:
\* errgroup sets both at once.
THEOREM TypeCorrect == Spec => []TypeOK
<1>1. IInv => TypeOK
  BY DEF IInv
<1>2. QED
  BY <1>1, Inductive, PTL

\* A call without error has read both the rows and the total.
THEOREM PagesAreWhole == Spec => []PageIsWhole
<1>1. IInv => PageIsWhole
  BY ConstantsAssumption
     DEF IInv, TypeOK, Tasked, Grouped, Returned, PageIsWhole, TasksOf, Tasks
<1>2. QED
  BY <1>1, Inductive, PTL

\* The error a call returns is not the cancellation it caused itself.
THEOREM CausesAreReported == Spec => []CauseIsReported
<1>1. IInv => CauseIsReported
  BY ConstantsAssumption DEF IInv, TypeOK, Grouped, Returned, CauseIsReported, ErrKind
<1>2. QED
  BY <1>1, Inductive, PTL
===============================================================================
