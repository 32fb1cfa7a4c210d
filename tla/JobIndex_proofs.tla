--------------------------- MODULE JobIndex_proofs ---------------------------
(***************************************************************************)
(* Proofs about the two components of MCIndexFiles: JobIndex, for any      *)
(* number of calls and workers, and then Files, for any files, names,      *)
(* calls and sweeps.                                                       *)
(***************************************************************************)
EXTENDS JobIndex, Files, FiniteSetTheorems, TLAPS

\* What ListedSomewhere rests on: updates start from a record that was read
\* whole, the record is there unless it was deleted, only a deletion takes the
\* job off an index for good, and a call that moves the job between indexes
\* knows where to.
CallsKnow ==
    \A c \in AllCalls :
        /\ call[c].pc \in {"get", "set"} => call[c].new \in Updates
        /\ call[c].pc = "set" => call[c].old \in JobRecords
        /\ call[c].pc \in {"remState", "addState"} => call[c].new.state \in States
        /\ call[c].pc = "addUser" => call[c].new.worker \in Workers
        /\ call[c].pc \in {"unlistState", "unlistCreator", "unlistWorker"} => deleted
RecordKnown ==
    \/ record # NoJob \/ deleted \/ crashed
    \/ call[Create].pc = "create" /\ \A c \in Calls : call[c].pc = "idle"

IInv == TypeOK /\ CallsKnow /\ RecordKnown /\ ListedSomewhere

CallData == Updates \cup JobRecords \cup {NoJob}

\* The fields of whatever a call carries.
LEMMA DataFields ==
    ASSUME NEW d \in CallData
    PROVE  d.state \in States \cup {"none"} /\ d.worker \in Workers \cup {None}
BY DEF CallData, Updates, JobRecords, NoJob, States

\* A merged record is a record, whatever fields the update leaves out.
LEMMA MergedType ==
    ASSUME NEW old \in JobRecords, NEW new \in Updates
    PROVE  Merged(old, new) \in JobRecords
<1>1. new.state \in States \cup {"none"} /\ new.worker \in Workers \cup {None}
  BY DataFields DEF CallData
<1> QED
  BY <1>1 DEF Merged, JobRecords

\* Records and NoJob differ: no record is in state "none".
LEMMA NoJobIsNoRecord == NoJob \notin JobRecords
BY DEF NoJob, JobRecords, States

\* The invariant holds initially.
LEMMA InitIInv == Init => IInv
<1> SUFFICES ASSUME Init PROVE IInv
  OBVIOUS
<1>1. \A c \in AllCalls : call[c] \in {Idle, [Idle EXCEPT !.pc = "create"]}
  BY DEF Init, AllCalls
<1>2. /\ Idle = [pc |-> "idle", new |-> NoJob, old |-> NoJob]
      /\ [Idle EXCEPT !.pc = "create"] = [pc |-> "create", new |-> NoJob, old |-> NoJob]
  BY DEF Idle
<1>3. TypeOK
  BY <1>1, <1>2 DEF Init, TypeOK, Pcs, AllCalls
<1>4. CallsKnow
  BY <1>1, <1>2 DEF CallsKnow
<1>5. RecordKnown
  BY <1>1, <1>2, IndexAssumption DEF Init, RecordKnown, AllCalls
<1> QED
  BY <1>3, <1>4, <1>5 DEF IInv, Init, ListedSomewhere

CallRecords == [pc : Pcs, new : CallData, old : JobRecords \cup {NoJob}]

\* A command that only moves a call on keeps what the calls carry well formed.
LEMMA PcMoves ==
    ASSUME call \in [AllCalls -> CallRecords], NEW c \in AllCalls, NEW p \in Pcs, Step(c, p)
    PROVE  call' \in [AllCalls -> CallRecords]
<1>1. [call[c] EXCEPT !.pc = p] \in CallRecords
  BY DEF CallRecords
<1>2. call' = [call EXCEPT ![c] = [call[c] EXCEPT !.pc = p]]
  BY DEF Step
<1> QED
  BY <1>1, <1>2

\* So does one that stores the record it read.
LEMMA PcOldMoves ==
    ASSUME call \in [AllCalls -> CallRecords], NEW c \in AllCalls, NEW p \in Pcs,
           NEW o \in JobRecords \cup {NoJob},
           call' = [call EXCEPT ![c] = [@ EXCEPT !.pc = p, !.old = o]]
    PROVE  call' \in [AllCalls -> CallRecords]
<1>1. [[call[c] EXCEPT !.pc = p] EXCEPT !.old = o] \in CallRecords
  BY DEF CallRecords
<1>2. call' = [call EXCEPT ![c] = [[call[c] EXCEPT !.pc = p] EXCEPT !.old = o]]
  OBVIOUS
<1> QED
  BY <1>1, <1>2

\* TypeOK in terms of CallRecords.
LEMMA TypeParts ==
    ASSUME record' \in JobRecords \cup {NoJob}, byState' \in SUBSET States,
           byUser' \in SUBSET Users, call' \in [AllCalls -> CallRecords],
           overlapped' \in BOOLEAN, deleted' \in BOOLEAN, crashed' \in BOOLEAN
    PROVE  TypeOK'
BY DEF TypeOK, CallRecords, CallData

\* One command of any call preserves the inductive invariant.
LEMMA StepIInv == IInv /\ [Next]_vars => IInv'
<1> SUFFICES ASSUME IInv, [Next]_vars PROVE IInv'
  OBVIOUS
<1> USE DEF IInv, Step
<1>t. /\ call \in [AllCalls -> CallRecords]
      /\ Create \in AllCalls /\ Calls \subseteq AllCalls
  BY DEF TypeOK, CallRecords, CallData, AllCalls
<1>1. CASE CreateSets
  <2>1. TypeOK' BY <1>1, <1>t DEF CreateSets, TypeOK, JobRecords, CallRecords, CallData, States, Pcs
  <2>2. CallsKnow' BY <1>1, <1>t DEF CreateSets, CallsKnow, CallRecords, States
  <2>3. RecordKnown' BY <1>1 DEF CreateSets, RecordKnown, NoJob
  <2>4. ListedSomewhere' BY <1>1, <1>t DEF CreateSets, ListedSomewhere, CallRecords
  <2> QED BY <2>1, <2>2, <2>3, <2>4
<1>2. CASE CreateAddsCreator
  <2>1. TypeOK' BY <1>2, <1>t DEF CreateAddsCreator, TypeOK, CallRecords, CallData, Pcs, Users
  <2>2. CallsKnow' BY <1>2, <1>t DEF CreateAddsCreator, CallsKnow, CallRecords
  <2>3. RecordKnown' BY <1>2, <1>t DEF CreateAddsCreator, RecordKnown, CallRecords
  <2>4. ListedSomewhere' BY <1>2, <1>t DEF CreateAddsCreator, ListedSomewhere, CallRecords
  <2> QED BY <2>1, <2>2, <2>3, <2>4
<1>3. CASE Crash
  <2>0. \A c \in AllCalls : call'[c] = call[c] \/ call'[c] = [Idle EXCEPT !.pc = "done"]
    BY <1>3 DEF Crash
  <2>1. TypeOK' BY <1>3, <1>t DEF Crash, TypeOK, CallRecords, CallData, Pcs, Idle
  <2>2. CallsKnow' BY <1>3, <2>0, <1>t DEF Crash, CallsKnow, CallRecords, Idle
  <2>3. RecordKnown' BY <1>3 DEF Crash, RecordKnown
  <2>4. ListedSomewhere' BY <1>3 DEF Crash, ListedSomewhere
  <2> QED BY <2>1, <2>2, <2>3, <2>4
<1>4. CASE \E c \in Calls : StartCall(c, "deleteGet", NoJob) \/ \E u \in Updates : StartCall(c, "get", u)
  <2> PICK c \in Calls, pc \in {"deleteGet", "get"}, u \in Updates \cup {NoJob} :
        StartCall(c, pc, u) /\ (pc = "get" => u \in Updates)
    BY <1>4
  <2>0. c # Create BY IndexAssumption
  <2>1. TypeOK' BY <1>t DEF StartCall, TypeOK, CallRecords, CallData, Pcs
  <2>2. CallsKnow' BY <1>t DEF StartCall, CallsKnow, CallRecords
  <2>3. RecordKnown' BY <1>t, <2>0 DEF StartCall, RecordKnown, CallRecords
  <2>4. ListedSomewhere' BY <1>t DEF StartCall, ListedSomewhere, CallRecords
  <2> QED BY <2>1, <2>2, <2>3, <2>4
<1>5. ASSUME NEW c \in AllCalls, CallStep(c) PROVE IInv'
  <2>1. CASE Gets(c)
    <3>c. call' \in [AllCalls -> CallRecords]
      BY <2>1, <1>t, PcOldMoves DEF Gets, TypeOK, Pcs
    <3>d. /\ record' \in JobRecords \cup {NoJob} /\ byState' \in SUBSET States
          /\ byUser' \in SUBSET Users
          /\ overlapped' \in BOOLEAN /\ deleted' \in BOOLEAN /\ crashed' \in BOOLEAN
      BY <2>1, <1>t DEF Gets, TypeOK
    <3>1. TypeOK' BY <3>c, <3>d, TypeParts
    <3>2. CallsKnow' BY <1>t, <2>1, DataFields DEF Gets, CallsKnow, TypeOK, CallRecords, CallData
    <3>3. RecordKnown' BY <1>t, <2>1 DEF Gets, RecordKnown, CallsKnow, CallRecords, AllCalls
    <3>4. ListedSomewhere' BY <1>t, <2>1 DEF Gets, ListedSomewhere, RecordKnown, CallsKnow, CallRecords
    <3> QED BY <3>1, <3>2, <3>3, <3>4
  <2>2. CASE Sets(c)
    <3>a. PICK p \in {"remState", "remUser"} : Step(c, p)
      BY <2>2 DEF Sets
    <3>b. p \in Pcs BY DEF Pcs
    <3>c. call' \in [AllCalls -> CallRecords]
      BY <3>a, <3>b, <1>t, PcMoves
    <3>d. /\ record' \in JobRecords \cup {NoJob} /\ byState' \in SUBSET States
          /\ byUser' \in SUBSET Users
          /\ overlapped' \in BOOLEAN /\ deleted' \in BOOLEAN /\ crashed' \in BOOLEAN
      BY <2>2, <1>t, MergedType DEF Sets, TypeOK, CallsKnow
    <3>1. TypeOK' BY <3>c, <3>d, TypeParts
    <3>2. CallsKnow' BY <1>t, <2>2, DataFields DEF Sets, StateChanges, CallsKnow, TypeOK, CallRecords, CallData
    <3>3. RecordKnown' BY <1>t, <2>2, MergedType, NoJobIsNoRecord DEF Sets, StateChanges, RecordKnown, CallsKnow, CallRecords, AllCalls
    <3>4. ListedSomewhere' BY <1>t, <2>2 DEF Sets, StateChanges, ListedSomewhere, RecordKnown, CallsKnow, CallRecords, AllCalls
    <3> QED BY <3>1, <3>2, <3>3, <3>4
  <2>3. CASE RemovesState(c)
    <3>a. PICK p \in {"addState"} : Step(c, p)
      BY <2>3 DEF RemovesState
    <3>b. p \in Pcs BY DEF Pcs
    <3>c. call' \in [AllCalls -> CallRecords]
      BY <3>a, <3>b, <1>t, PcMoves
    <3>d. /\ record' \in JobRecords \cup {NoJob} /\ byState' \in SUBSET States
          /\ byUser' \in SUBSET Users
          /\ overlapped' \in BOOLEAN /\ deleted' \in BOOLEAN /\ crashed' \in BOOLEAN
      BY <2>3 DEF RemovesState, TypeOK
    <3>1. TypeOK' BY <3>c, <3>d, TypeParts
    <3>2. CallsKnow' BY <1>t, <2>3, DataFields DEF RemovesState, CallsKnow, TypeOK, CallRecords, CallData
    <3>3. RecordKnown' BY <1>t, <2>3 DEF RemovesState, RecordKnown, CallsKnow, CallRecords, AllCalls
    <3>4. ListedSomewhere' BY <1>t, <2>3 DEF RemovesState, ListedSomewhere, RecordKnown, CallsKnow, CallRecords
    <3> QED BY <3>1, <3>2, <3>3, <3>4
  <2>4. CASE AddsState(c)
    <3>a. PICK p \in {"addCreator", "remUser"} : Step(c, p)
      BY <2>4 DEF AddsState
    <3>b. p \in Pcs BY DEF Pcs
    <3>c. call' \in [AllCalls -> CallRecords]
      BY <3>a, <3>b, <1>t, PcMoves
    <3>d. /\ record' \in JobRecords \cup {NoJob} /\ byState' \in SUBSET States
          /\ byUser' \in SUBSET Users
          /\ overlapped' \in BOOLEAN /\ deleted' \in BOOLEAN /\ crashed' \in BOOLEAN
      BY <2>4 DEF AddsState, Listed, TypeOK, CallsKnow
    <3>1. TypeOK' BY <3>c, <3>d, TypeParts
    <3>2. CallsKnow' BY <1>t, <2>4, DataFields DEF AddsState, Listed, CallsKnow, TypeOK, CallRecords, CallData
    <3>3. RecordKnown' BY <1>t, <2>4 DEF AddsState, Listed, RecordKnown, CallsKnow, CallRecords, AllCalls
    <3>4. ListedSomewhere' BY <1>t, <2>4 DEF AddsState, Listed, ListedSomewhere, RecordKnown, CallsKnow, CallRecords
    <3> QED BY <3>1, <3>2, <3>3, <3>4
  <2>5. CASE RemovesUser(c)
    <3>a. PICK p \in {"done", "addUser"} : Step(c, p)
      BY <2>5 DEF RemovesUser
    <3>b. p \in Pcs BY DEF Pcs
    <3>c. call' \in [AllCalls -> CallRecords]
      BY <3>a, <3>b, <1>t, PcMoves
    <3>d. /\ record' \in JobRecords \cup {NoJob} /\ byState' \in SUBSET States
          /\ byUser' \in SUBSET Users
          /\ overlapped' \in BOOLEAN /\ deleted' \in BOOLEAN /\ crashed' \in BOOLEAN
      BY <2>5 DEF RemovesUser, UserRemoved, TypeOK
    <3>1. TypeOK' BY <3>c, <3>d, TypeParts
    <3>2. CallsKnow' BY <1>t, <2>5, DataFields DEF RemovesUser, UserRemoved, CallsKnow, TypeOK, CallRecords, CallData
    <3>3. RecordKnown' BY <1>t, <2>5 DEF RemovesUser, UserRemoved, RecordKnown, CallsKnow, CallRecords, AllCalls
    <3>4. ListedSomewhere' BY <1>t, <2>5 DEF RemovesUser, UserRemoved, ListedSomewhere, RecordKnown, CallsKnow, CallRecords
    <3> QED BY <3>1, <3>2, <3>3, <3>4
  <2>6. CASE AddsUser(c)
    <3>a. PICK p \in {"done"} : Step(c, p)
      BY <2>6 DEF AddsUser
    <3>b. p \in Pcs BY DEF Pcs
    <3>c. call' \in [AllCalls -> CallRecords]
      BY <3>a, <3>b, <1>t, PcMoves
    <3>d. /\ record' \in JobRecords \cup {NoJob} /\ byState' \in SUBSET States
          /\ byUser' \in SUBSET Users
          /\ overlapped' \in BOOLEAN /\ deleted' \in BOOLEAN /\ crashed' \in BOOLEAN
      BY <2>6 DEF AddsUser, TypeOK, CallsKnow, Users
    <3>1. TypeOK' BY <3>c, <3>d, TypeParts
    <3>2. CallsKnow' BY <1>t, <2>6, DataFields DEF AddsUser, CallsKnow, TypeOK, CallRecords, CallData
    <3>3. RecordKnown' BY <1>t, <2>6 DEF AddsUser, RecordKnown, CallsKnow, CallRecords, AllCalls
    <3>4. ListedSomewhere' BY <1>t, <2>6 DEF AddsUser, ListedSomewhere, RecordKnown, CallsKnow, CallRecords
    <3> QED BY <3>1, <3>2, <3>3, <3>4
  <2>7. CASE DeleteGets(c)
    <3>c. call' \in [AllCalls -> CallRecords]
      BY <2>7, <1>t, PcOldMoves DEF DeleteGets, TypeOK, Pcs
    <3>d. /\ record' \in JobRecords \cup {NoJob} /\ byState' \in SUBSET States
          /\ byUser' \in SUBSET Users
          /\ overlapped' \in BOOLEAN /\ deleted' \in BOOLEAN /\ crashed' \in BOOLEAN
      BY <2>7, <1>t DEF DeleteGets, TypeOK
    <3>1. TypeOK' BY <3>c, <3>d, TypeParts
    <3>2. CallsKnow' BY <1>t, <2>7, DataFields DEF DeleteGets, CallsKnow, TypeOK, CallRecords, CallData
    <3>3. RecordKnown' BY <1>t, <2>7 DEF DeleteGets, RecordKnown, CallsKnow, CallRecords, AllCalls
    <3>4. ListedSomewhere' BY <1>t, <2>7 DEF DeleteGets, ListedSomewhere, RecordKnown, CallsKnow, CallRecords
    <3> QED BY <3>1, <3>2, <3>3, <3>4
  <2>8. CASE Deletes(c)
    <3>a. PICK p \in {"unlistState"} : Step(c, p)
      BY <2>8 DEF Deletes
    <3>b. p \in Pcs BY DEF Pcs
    <3>c. call' \in [AllCalls -> CallRecords]
      BY <3>a, <3>b, <1>t, PcMoves
    <3>d. /\ record' \in JobRecords \cup {NoJob} /\ byState' \in SUBSET States
          /\ byUser' \in SUBSET Users
          /\ overlapped' \in BOOLEAN /\ deleted' \in BOOLEAN /\ crashed' \in BOOLEAN
      BY <2>8 DEF Deletes, TypeOK
    <3>1. TypeOK' BY <3>c, <3>d, TypeParts
    <3>2. CallsKnow' BY <1>t, <2>8, DataFields DEF Deletes, CallsKnow, TypeOK, CallRecords, CallData
    <3>3. RecordKnown' BY <1>t, <2>8 DEF Deletes, RecordKnown, CallsKnow, CallRecords, AllCalls
    <3>4. ListedSomewhere' BY <1>t, <2>8 DEF Deletes, ListedSomewhere, RecordKnown, CallsKnow, CallRecords
    <3> QED BY <3>1, <3>2, <3>3, <3>4
  <2>9. CASE UnlistsState(c)
    <3>a. PICK p \in {"unlistCreator"} : Step(c, p)
      BY <2>9 DEF UnlistsState
    <3>b. p \in Pcs BY DEF Pcs
    <3>c. call' \in [AllCalls -> CallRecords]
      BY <3>a, <3>b, <1>t, PcMoves
    <3>d. /\ record' \in JobRecords \cup {NoJob} /\ byState' \in SUBSET States
          /\ byUser' \in SUBSET Users
          /\ overlapped' \in BOOLEAN /\ deleted' \in BOOLEAN /\ crashed' \in BOOLEAN
      BY <2>9 DEF UnlistsState, TypeOK
    <3>1. TypeOK' BY <3>c, <3>d, TypeParts
    <3>2. CallsKnow' BY <1>t, <2>9, DataFields DEF UnlistsState, CallsKnow, TypeOK, CallRecords, CallData
    <3>3. RecordKnown' BY <1>t, <2>9 DEF UnlistsState, RecordKnown, CallsKnow, CallRecords, AllCalls
    <3>4. ListedSomewhere' BY <1>t, <2>9 DEF UnlistsState, ListedSomewhere, RecordKnown, CallsKnow, CallRecords
    <3> QED BY <3>1, <3>2, <3>3, <3>4
  <2>10. CASE UnlistsCreator(c)
    <3>a. PICK p \in {"unlistWorker"} : Step(c, p)
      BY <2>10 DEF UnlistsCreator
    <3>b. p \in Pcs BY DEF Pcs
    <3>c. call' \in [AllCalls -> CallRecords]
      BY <3>a, <3>b, <1>t, PcMoves
    <3>d. /\ record' \in JobRecords \cup {NoJob} /\ byState' \in SUBSET States
          /\ byUser' \in SUBSET Users
          /\ overlapped' \in BOOLEAN /\ deleted' \in BOOLEAN /\ crashed' \in BOOLEAN
      BY <2>10 DEF UnlistsCreator, TypeOK
    <3>1. TypeOK' BY <3>c, <3>d, TypeParts
    <3>2. CallsKnow' BY <1>t, <2>10, DataFields DEF UnlistsCreator, CallsKnow, TypeOK, CallRecords, CallData
    <3>3. RecordKnown' BY <1>t, <2>10 DEF UnlistsCreator, RecordKnown, CallsKnow, CallRecords, AllCalls
    <3>4. ListedSomewhere' BY <1>t, <2>10 DEF UnlistsCreator, ListedSomewhere, RecordKnown, CallsKnow, CallRecords
    <3> QED BY <3>1, <3>2, <3>3, <3>4
  <2>11. CASE UnlistsWorker(c)
    <3>a. PICK p \in {"done"} : Step(c, p)
      BY <2>11 DEF UnlistsWorker
    <3>b. p \in Pcs BY DEF Pcs
    <3>c. call' \in [AllCalls -> CallRecords]
      BY <3>a, <3>b, <1>t, PcMoves
    <3>d. /\ record' \in JobRecords \cup {NoJob} /\ byState' \in SUBSET States
          /\ byUser' \in SUBSET Users
          /\ overlapped' \in BOOLEAN /\ deleted' \in BOOLEAN /\ crashed' \in BOOLEAN
      BY <2>11 DEF UnlistsWorker, TypeOK
    <3>1. TypeOK' BY <3>c, <3>d, TypeParts
    <3>2. CallsKnow' BY <1>t, <2>11, DataFields DEF UnlistsWorker, CallsKnow, TypeOK, CallRecords, CallData
    <3>3. RecordKnown' BY <1>t, <2>11 DEF UnlistsWorker, RecordKnown, CallsKnow, CallRecords, AllCalls
    <3>4. ListedSomewhere' BY <1>t, <2>11 DEF UnlistsWorker, ListedSomewhere, RecordKnown, CallsKnow, CallRecords
    <3> QED BY <3>1, <3>2, <3>3, <3>4
  <2> QED BY <1>5, <2>1, <2>2, <2>3, <2>4, <2>5, <2>6, <2>7, <2>8, <2>9, <2>10, <2>11 DEF CallStep
<1>6. CASE UNCHANGED vars
  BY <1>6 DEF vars, TypeOK, CallsKnow, RecordKnown, ListedSomewhere
<1> QED
  BY <1>1, <1>2, <1>3, <1>4, <1>5, <1>6 DEF Next

\* The invariant holds in every reachable state.
LEMMA IInvHolds == Spec => []IInv
  BY InitIInv, StepIInv, PTL DEF Spec

\* Whatever calls interleave, crash or delete the job, the record and both
\* indexes hold values of the declared kinds (createJob, updateJob, deleteJob).
THEOREM TypeCorrect == Spec => []TypeOK
<1>1. IInv => TypeOK
  BY DEF IInv
<1> QED
  BY <1>1, IInvHolds, PTL

\* getJobsByState cannot lose a job to interleaved updateJob calls, however
\* many: it is listed, or about to be, until it is deleted or a process dies.
THEOREM NeverUnlisted == Spec => []ListedSomewhere
<1>1. IInv => ListedSomewhere
  BY DEF IInv
<1> QED
  BY <1>1, IInvHolds, PTL
-----------------------------------------------------------------------------
\* Both indexes are those of the record.
UsersOf(rec) == IF rec = NoJob THEN {} ELSE {Creator, rec.worker} \ {None}
Exact ==
    /\ byState = {record.state} \ {"none"}
    /\ byUser = UsersOf(record)

\* How far a call has come with the indexes, when no other call is in flight:
\* creating, ...
Creating(c) ==
    /\ call[c].pc = "create" => record = NoJob /\ byState = {}
    /\ call[c].pc \in {"addState", "addCreator"} => record = [state |-> "pending", worker |-> None]
    /\ call[c].pc = "addState" => call[c].new = record /\ byState = {}
    /\ call[c].pc = "addCreator" => byState = {"pending"}
    /\ byUser = {}

\* ... updating: the record is written, and the indexes follow it, ...
Updating(c) ==
    LET old == call[c].old
        new == call[c].new
    IN  /\ old \in JobRecords /\ new \in Updates /\ record = Merged(old, new)
        /\ call[c].pc \in {"remState", "addState"} => StateChanges(c)
        /\ byState = CASE call[c].pc = "remState" -> {old.state}
                       [] call[c].pc = "addState" -> {}
                       [] OTHER -> {record.state}
        /\ IF call[c].pc = "addUser"
           THEN new.worker \notin {None, old.worker} /\ byUser = {Creator}
           ELSE byUser = UsersOf(old)

\* ... or deleting: the record is gone, and its entries go.
Removing(c) ==
    LET old == call[c].old
    IN  /\ old \in JobRecords /\ record = NoJob
        /\ byState = IF call[c].pc = "unlistState" THEN {old.state} ELSE {}
        /\ byUser = IF call[c].pc = "unlistWorker" THEN {old.worker} \ {None} ELSE UsersOf(old)

UpdatePcs == {"remState", "addState", "remUser", "addUser"}
UnlistPcs == {"unlistState", "unlistCreator", "unlistWorker"}
Midway(c) ==
    IF c = Create THEN call[c].pc \in {"create", "addState", "addCreator"} /\ Creating(c)
    ELSE /\ call[c].pc \in {"get", "set", "deleteGet", "delete"} \cup UpdatePcs \cup UnlistPcs
         /\ call[c].pc \in {"get", "set", "deleteGet", "delete"} => Exact
         /\ call[c].pc \in {"set", "delete"} => call[c].old = record /\ record # NoJob
         /\ call[c].pc \in UpdatePcs => Updating(c)
         /\ call[c].pc \in UnlistPcs => Removing(c)

Sequential ==
    /\ \A c, d \in AllCalls : InFlight(c) /\ InFlight(d) => c = d
    /\ call[Create].pc # "idle"
    /\ \A c \in AllCalls : InFlight(c) => Midway(c)
    /\ (\A c \in AllCalls : ~ InFlight(c)) => Exact
SIInv == ~ overlapped /\ ~ crashed /\ Creator \notin Workers => Sequential
-----------------------------------------------------------------------------
\* What a command of call c leaves as it was: the other calls, none in flight.
Alone(c) ==
    /\ call \in [AllCalls -> CallRecords]
    /\ call[Create].pc # "idle"
    /\ \A d \in AllCalls \ {c} : ~ InFlight(d)

\* If c moves alone, and leaves the indexes where a call in flight may leave
\* them, or exact when it ends, the calls stay sequential.
LEMMA AloneMoves ==
    ASSUME NEW c \in AllCalls, Alone(c), NEW to, call' = [call EXCEPT ![c] = to],
           to.pc # "idle",
           InFlight(c)' => Midway(c)',
           ~ InFlight(c)' => Exact'
    PROVE  Sequential'
<1>1. \A d \in AllCalls \ {c} : call'[d] = call[d]
  BY DEF Alone
<1>2. call'[c] = to
  BY DEF Alone
<1>3. \A d \in AllCalls \ {c} : ~ InFlight(d)'
  BY <1>1 DEF Alone, InFlight
<1>4. (\A a, b \in AllCalls : InFlight(a) /\ InFlight(b) => a = b)'
  BY <1>3
<1>5. call'[Create].pc # "idle"
  BY <1>1, <1>2 DEF Alone, AllCalls
<1>6. (\A d \in AllCalls : InFlight(d) => Midway(d))'
  BY <1>3
<1>7. ((\A d \in AllCalls : ~ InFlight(d)) => Exact)'
  OBVIOUS
<1> QED
  BY <1>4, <1>5, <1>6, <1>7 DEF Sequential

\* A call in flight is alone, and Midway.
LEMMA InFlightAlone ==
    ASSUME TypeOK, Sequential, NEW c \in AllCalls, InFlight(c)
    PROVE  Alone(c) /\ Midway(c)
<1>1. call \in [AllCalls -> CallRecords]
  BY DEF TypeOK, CallRecords, CallData
<1> QED
  BY <1>1 DEF Sequential, Alone

\* With a single field changed.
LEMMA AloneSteps ==
    ASSUME NEW c \in AllCalls, Alone(c), NEW p \in Pcs \ {"idle"}, Step(c, p)
    PROVE  /\ call'[c].pc = p /\ call'[c].new = call[c].new /\ call'[c].old = call[c].old
           /\ (InFlight(c)' => Midway(c)') /\ (~ InFlight(c)' => Exact') => Sequential'
<1> DEFINE to == [call[c] EXCEPT !.pc = p]
<1>1. call' = [call EXCEPT ![c] = to]
  BY DEF Step
<1>2. call[c] \in CallRecords
  BY DEF Alone
<1>3. to.pc = p /\ to.new = call[c].new /\ to.old = call[c].old
  BY <1>2 DEF CallRecords
<1>4. call'[c] = to
  BY <1>1 DEF Alone
<1>5. PICK t : t = to
  OBVIOUS
<1>6. call' = [call EXCEPT ![c] = t] /\ t.pc # "idle"
  BY <1>1, <1>3, <1>5
<1>7. ASSUME InFlight(c)' => Midway(c)', ~ InFlight(c)' => Exact' PROVE Sequential'
  BY <1>6, <1>7, AloneMoves
<1> QED
  BY <1>3, <1>4, <1>7

\* ... or with what the call read, too.
LEMMA AloneReads ==
    ASSUME NEW c \in AllCalls, Alone(c), NEW p \in Pcs \ {"idle"}, NEW o,
           call' = [call EXCEPT ![c] = [@ EXCEPT !.pc = p, !.old = o]]
    PROVE  /\ call'[c].pc = p /\ call'[c].new = call[c].new /\ call'[c].old = o
           /\ (InFlight(c)' => Midway(c)') /\ (~ InFlight(c)' => Exact') => Sequential'
<1>0. call[c] \in CallRecords
  BY DEF Alone
<1>1. PICK s : s = [call[c] EXCEPT !.pc = p]
  OBVIOUS
<1>2. s.pc = p /\ s.new = call[c].new /\ s = [pc |-> s.pc, new |-> s.new, old |-> s.old]
  BY <1>0, <1>1 DEF CallRecords
<1>3. PICK t : t = [s EXCEPT !.old = o]
  OBVIOUS
<1>4. t.pc = p /\ t.new = call[c].new /\ t.old = o
  BY <1>2, <1>3
<1>5. call' = [call EXCEPT ![c] = t]
  BY <1>1, <1>3
<1>6. call'[c] = t /\ t.pc # "idle"
  BY <1>4, <1>5 DEF Alone
<1>7. ASSUME InFlight(c)' => Midway(c)', ~ InFlight(c)' => Exact' PROVE Sequential'
  BY <1>5, <1>6, <1>7, AloneMoves
<1> QED
  BY <1>4, <1>6, <1>7
-----------------------------------------------------------------------------
\* What each command below starts from.
Before == IInv /\ Sequential /\ Creator \notin Workers

\* The facts about the call that moves.
LEMMA BeforeFacts ==
    ASSUME Before, NEW c \in AllCalls, InFlight(c)
    PROVE  /\ Alone(c) /\ Midway(c)
           /\ call[c] \in CallRecords
           /\ record \in JobRecords \cup {NoJob}
           /\ NoJob \notin JobRecords
           /\ NoJob.state = "none" /\ NoJob.worker = None
           /\ "none" \notin States /\ None \notin Workers /\ Creator # None
<1>1. TypeOK /\ Sequential
  BY DEF Before, IInv
<1>2. Alone(c) /\ Midway(c)
  BY <1>1, InFlightAlone
<1> QED
  BY <1>1, <1>2, NoJobIsNoRecord, IndexAssumption DEF Alone, TypeOK, NoJob, States

\* createJob: the record is set, and nothing lists the job yet.
LEMMA SeqCreateSets ==
    ASSUME Before, CreateSets
    PROVE  Sequential'
<1>c. Create \in AllCalls
  BY DEF AllCalls
<1>1. call[Create].pc = "create" /\ InFlight(Create)
  BY DEF CreateSets, InFlight
<1>2. Alone(Create) /\ Midway(Create)
  BY <1>c, <1>1, BeforeFacts
<1>3. record = NoJob /\ byState = {} /\ byUser = {}
  BY <1>1, <1>2 DEF Midway, Creating
<1>4. PICK r : r = [state |-> "pending", worker |-> None]
  OBVIOUS
<1>5. PICK t : t = [pc |-> "addState", new |-> r, old |-> NoJob]
  OBVIOUS
<1>6. call' = [call EXCEPT ![Create] = t] /\ record' = r /\ byState' = {} /\ byUser' = {}
  BY <1>3, <1>4, <1>5 DEF CreateSets
<1>7. call'[Create] = t /\ t.pc = "addState" /\ t.new = r
  BY <1>2, <1>5, <1>6, <1>c DEF Alone
<1>8. Midway(Create)'
  BY <1>4, <1>6, <1>7 DEF Midway, Creating
<1>9. InFlight(Create)' /\ t.pc # "idle"
  BY <1>7 DEF InFlight
<1> QED
  BY <1>c, <1>2, <1>6, <1>8, <1>9, AloneMoves

\* createJob ends with both indexes exact.
LEMMA SeqCreateAddsCreator ==
    ASSUME Before, CreateAddsCreator
    PROVE  Sequential'
<1>c. Create \in AllCalls
  BY DEF AllCalls
<1>1. call[Create].pc = "addCreator" /\ InFlight(Create)
  BY DEF CreateAddsCreator, InFlight
<1>2. Alone(Create) /\ Midway(Create) /\ None # Creator
  BY <1>c, <1>1, BeforeFacts
<1>3. record = [state |-> "pending", worker |-> None] /\ byState = {"pending"} /\ byUser = {}
  BY <1>1, <1>2 DEF Midway, Creating
<1>4. record.state = "pending" /\ record.worker = None /\ record # NoJob
  BY <1>3 DEF NoJob
<1>5. Exact'
  BY <1>2, <1>3, <1>4 DEF CreateAddsCreator, Exact, UsersOf
<1>6. "done" \in Pcs \ {"idle"} /\ Step(Create, "done")
  BY DEF CreateAddsCreator, Pcs
<1>7. call'[Create].pc = "done"
  BY <1>c, <1>2, <1>6, AloneSteps
<1>8. ~ InFlight(Create)'
  BY <1>7 DEF InFlight
<1> QED
  BY <1>c, <1>2, <1>5, <1>6, <1>8, AloneSteps

\* A call that starts without overlapping starts from exact indexes.
LEMMA SeqStartCall ==
    ASSUME Before, NEW c \in Calls, NEW p \in {"get", "deleteGet"}, NEW u, StartCall(c, p, u),
           ~ overlapped'
    PROVE  Sequential'
<1>c. c \in AllCalls /\ Create \in AllCalls /\ c # Create
  BY IndexAssumption DEF AllCalls
<1>1. \A d \in AllCalls : ~ InFlight(d)
  BY DEF StartCall
<1>2. Exact /\ Alone(c)
  BY <1>1 DEF Before, IInv, Sequential, Alone, TypeOK, CallRecords, CallData
<1>3. PICK t : t = [pc |-> p, new |-> u, old |-> NoJob]
  OBVIOUS
<1>4. call' = [call EXCEPT ![c] = t] /\ t.pc = p /\ p # "idle"
  BY <1>3 DEF StartCall
<1>5. call'[c].pc = p
  BY <1>c, <1>2, <1>4 DEF Alone
<1>6. Exact'
  BY <1>2 DEF StartCall, Exact, UsersOf
<1>7. Midway(c)'
  BY <1>c, <1>5, <1>6 DEF Midway, UpdatePcs, UnlistPcs
<1> QED
  BY <1>c, <1>2, <1>4, <1>6, <1>7, AloneMoves

\* get, of updateJob and of deleteJob: the record it reads is the current one.
LEMMA SeqGets ==
    ASSUME Before, NEW c \in AllCalls, Gets(c) \/ DeleteGets(c)
    PROVE  Sequential'
<1>1. call[c].pc \in {"get", "deleteGet"} /\ InFlight(c)
  BY DEF Gets, DeleteGets, InFlight
<1>2. Alone(c) /\ Midway(c)
  BY <1>1, BeforeFacts
<1>3. c # Create /\ Exact
  BY <1>1, <1>2 DEF Midway
<1>4. PICK p \in {"done", "set", "delete"} :
        /\ call' = [call EXCEPT ![c] = [@ EXCEPT !.pc = p, !.old = record]]
        /\ p = "done" <=> record = NoJob
  BY DEF Gets, DeleteGets
<1>5. p \in Pcs \ {"idle"}
  BY DEF Pcs
<1>6. call'[c].pc = p /\ call'[c].old = record
  BY <1>2, <1>4, <1>5, AloneReads
<1>7. record' = record /\ Exact'
  BY <1>3 DEF Gets, DeleteGets, Exact, UsersOf
<1>8. InFlight(c)' => Midway(c)'
  BY <1>3, <1>4, <1>6, <1>7 DEF InFlight, Midway, UpdatePcs, UnlistPcs
<1> QED
  BY <1>2, <1>4, <1>5, <1>7, <1>8, AloneReads
-----------------------------------------------------------------------------
\* What merging an update into a record does to its two indexed fields.
LEMMA MergedFields ==
    ASSUME NEW old \in JobRecords, NEW new \in Updates
    PROVE  /\ Merged(old, new) \in JobRecords /\ Merged(old, new) # NoJob
           /\ Merged(old, new).state = IF new.state = "none" THEN old.state ELSE new.state
           /\ Merged(old, new).worker = IF new.worker = None THEN old.worker ELSE new.worker
BY MergedType, NoJobIsNoRecord DEF Merged

\* A call that updates, and the record and indexes around it.
LEMMA UpdatingFacts ==
    ASSUME Before, NEW c \in AllCalls, c # Create, call[c].pc \in UpdatePcs
    PROVE  /\ InFlight(c) /\ Alone(c) /\ Updating(c)
           /\ call[c].old \in JobRecords /\ call[c].new \in Updates
           /\ record = Merged(call[c].old, call[c].new)
<1>1. InFlight(c)
  BY DEF UpdatePcs, InFlight
<1>2. Alone(c) /\ Midway(c)
  BY <1>1, BeforeFacts
<1> QED
  BY <1>1, <1>2 DEF Midway, Updating

\* updateJob: what it writes is the current record, merged.
LEMMA SeqSets ==
    ASSUME Before, NEW c \in AllCalls, Sets(c)
    PROVE  Sequential'
<1>1. call[c].pc = "set" /\ InFlight(c)
  BY DEF Sets, InFlight
<1>2. Alone(c) /\ Midway(c) /\ call[c].new \in Updates /\ call[c].old \in JobRecords
  BY <1>1, BeforeFacts DEF Before, IInv, CallsKnow
<1>3. c # Create /\ Exact /\ call[c].old = record /\ record # NoJob
  BY <1>1, <1>2 DEF Midway
<1>4. PICK p \in {"remState", "remUser"} :
        Step(c, p) /\ p = (IF StateChanges(c) THEN "remState" ELSE "remUser")
  BY DEF Sets
<1>5. p \in Pcs \ {"idle"}
  BY DEF Pcs
<1>6. call'[c].pc = p /\ call'[c].new = call[c].new /\ call'[c].old = call[c].old
  BY <1>2, <1>4, <1>5, AloneSteps
<1>7. PICK old, new, r : old = call[c].old /\ new = call[c].new /\ r = record'
  OBVIOUS
<1>8. /\ old \in JobRecords /\ new \in Updates /\ r = Merged(old, new)
      /\ r.state = IF new.state = "none" THEN old.state ELSE new.state
  BY <1>2, <1>7, MergedFields DEF Sets
<1>9. byState' = {old.state} /\ byUser' = UsersOf(old) /\ old.state # "none"
  BY <1>3, <1>7, <1>8 DEF Sets, Exact, JobRecords, States
<1>10. p = "remState" <=> new.state \notin {"none", old.state}
  BY <1>4, <1>7 DEF StateChanges
<1>11. call'[c].old = old /\ call'[c].new = new /\ record' = r
  BY <1>6, <1>7
<1>12. CASE p = "remState"
  <2>1. Updating(c)'
    BY <1>6, <1>8, <1>9, <1>10, <1>11, <1>12 DEF Updating, StateChanges
  <2>2. Midway(c)'
    BY <2>1, <1>3, <1>6, <1>12 DEF Midway, UpdatePcs, UnlistPcs
  <2> QED BY <2>2, <1>2, <1>4, <1>5, <1>6, <1>12, AloneSteps DEF InFlight
<1>13. CASE p = "remUser"
  <2>1. r.state = old.state
    BY <1>8, <1>10, <1>13
  <2>2. Updating(c)'
    BY <2>1, <1>6, <1>8, <1>9, <1>11, <1>13 DEF Updating
  <2>3. Midway(c)'
    BY <2>2, <1>3, <1>6, <1>13 DEF Midway, UpdatePcs, UnlistPcs
  <2> QED BY <2>3, <1>2, <1>4, <1>5, <1>6, <1>13, AloneSteps DEF InFlight
<1> QED
  BY <1>12, <1>13

\* updateJob: sRem of the state that was read.
LEMMA SeqRemovesState ==
    ASSUME Before, NEW c \in AllCalls, RemovesState(c)
    PROVE  Sequential'
<1>0. call[c].pc = "remState" /\ InFlight(c)
  BY DEF RemovesState, InFlight
<1>1. c # Create
  BY <1>0, BeforeFacts DEF Midway
<1>2. /\ Alone(c) /\ Updating(c) /\ call[c].old \in JobRecords /\ call[c].new \in Updates
      /\ record = Merged(call[c].old, call[c].new)
  BY <1>0, <1>1, UpdatingFacts DEF UpdatePcs
<1>3. Step(c, "addState") /\ "addState" \in Pcs \ {"idle"}
  BY DEF RemovesState, Pcs
<1>4. call'[c].pc = "addState" /\ call'[c].new = call[c].new /\ call'[c].old = call[c].old
  BY <1>2, <1>3, AloneSteps
<1>5. /\ byState = {call[c].old.state} /\ byUser = UsersOf(call[c].old) /\ StateChanges(c)
  BY <1>0, <1>2 DEF Updating
<1>6. PICK old, new : old = call[c].old /\ new = call[c].new
  OBVIOUS
<1>7. byState' = {} /\ byUser' = UsersOf(old) /\ record' = Merged(old, new)
  BY <1>2, <1>5, <1>6 DEF RemovesState
<1>8. StateChanges(c)'
  BY <1>4, <1>5 DEF StateChanges
<1>9. call'[c].old = old /\ call'[c].new = new /\ old \in JobRecords /\ new \in Updates
  BY <1>2, <1>4, <1>6
<1>10. Updating(c)'
  BY <1>4, <1>7, <1>8, <1>9 DEF Updating
<1>11. Midway(c)'
  BY <1>1, <1>4, <1>10 DEF Midway, UpdatePcs, UnlistPcs
<1> QED
  BY <1>2, <1>3, <1>4, <1>11, AloneSteps DEF InFlight
-----------------------------------------------------------------------------
\* createJob and updateJob: sAdd of the state that was written.
LEMMA SeqAddsState ==
    ASSUME Before, NEW c \in AllCalls, AddsState(c)
    PROVE  Sequential'
<1>0. call[c].pc = "addState" /\ InFlight(c)
  BY DEF AddsState, InFlight
<1>1. Alone(c) /\ Midway(c)
  BY <1>0, BeforeFacts
<1>2. CASE c = Create
  <2>1. /\ record = [state |-> "pending", worker |-> None] /\ byUser = {}
        /\ call[c].new = record /\ byState = {}
    BY <1>0, <1>1, <1>2 DEF Midway, Creating
  <2>2. byState' = {"pending"} /\ record' = record /\ byUser' = {}
    BY <2>1 DEF AddsState, Listed
  <2>3. Step(c, "addCreator") /\ "addCreator" \in Pcs \ {"idle"}
    BY <1>2 DEF AddsState, Pcs
  <2>4. call'[c].pc = "addCreator"
    BY <1>1, <2>3, AloneSteps
  <2>5. Midway(c)'
    BY <1>2, <2>1, <2>2, <2>4 DEF Midway, Creating
  <2> QED BY <1>1, <2>3, <2>4, <2>5, AloneSteps DEF InFlight
<1>3. CASE c # Create
  <2>2. /\ Updating(c) /\ call[c].old \in JobRecords /\ call[c].new \in Updates
        /\ record = Merged(call[c].old, call[c].new)
    BY <1>0, <1>3, UpdatingFacts DEF UpdatePcs
  <2>3. Step(c, "remUser") /\ "remUser" \in Pcs \ {"idle"}
    BY <1>3 DEF AddsState, Pcs
  <2>4. call'[c].pc = "remUser" /\ call'[c].new = call[c].new /\ call'[c].old = call[c].old
    BY <1>1, <2>3, AloneSteps
  <2>5. byState = {} /\ byUser = UsersOf(call[c].old) /\ StateChanges(c)
    BY <1>0, <2>2 DEF Updating
  <2>6. PICK old, new : old = call[c].old /\ new = call[c].new
    OBVIOUS
  <2>7. byState' = {new.state} /\ byUser' = UsersOf(old) /\ record' = Merged(old, new)
    BY <2>2, <2>5, <2>6 DEF AddsState, Listed
  <2>8. record'.state = new.state
    BY <2>2, <2>5, <2>6, <2>7, MergedFields DEF StateChanges
  <2>9. call'[c].old = old /\ call'[c].new = new /\ old \in JobRecords /\ new \in Updates
    BY <2>2, <2>4, <2>6
  <2>10. Updating(c)'
    BY <2>4, <2>7, <2>8, <2>9 DEF Updating
  <2>11. Midway(c)'
    BY <1>3, <2>4, <2>10 DEF Midway, UpdatePcs, UnlistPcs
  <2> QED BY <1>1, <2>3, <2>4, <2>11, AloneSteps DEF InFlight
<1> QED
  BY <1>2, <1>3

\* updateJob: sRem of the worker that was read; it is not the creator, whose
\* entry it would take along.
LEMMA SeqRemovesUser ==
    ASSUME Before, NEW c \in AllCalls, RemovesUser(c)
    PROVE  Sequential'
<1>0. call[c].pc = "remUser" /\ InFlight(c)
  BY DEF RemovesUser, InFlight
<1>1. c # Create /\ Alone(c)
  BY <1>0, BeforeFacts DEF Midway
<1>2. PICK old, new : old = call[c].old /\ new = call[c].new
  OBVIOUS
<1>3. /\ old \in JobRecords /\ new \in Updates /\ record = Merged(old, new)
      /\ byState = {record.state} /\ byUser = UsersOf(old)
  BY <1>0, <1>1, <1>2, UpdatingFacts DEF UpdatePcs, Updating
<1>4. /\ record \in JobRecords /\ record # NoJob /\ old # NoJob
      /\ record.worker = IF new.worker = None THEN old.worker ELSE new.worker
      /\ record.state \in States
  BY <1>3, MergedFields, NoJobIsNoRecord DEF JobRecords
<1>5. CASE new.worker \in {None, old.worker}
  <2>1. Step(c, "done") /\ "done" \in Pcs \ {"idle"} /\ byUser' = byUser
    BY <1>2, <1>5 DEF RemovesUser, Pcs
  <2>2. record' = record /\ byState' = byState
    BY DEF RemovesUser
  <2>3. record.worker = old.worker
    BY <1>4, <1>5
  <2>4. UsersOf(record) = UsersOf(old)
    BY <1>4, <2>3 DEF UsersOf
  <2>5. Exact'
    BY <1>3, <1>4, <2>1, <2>2, <2>4 DEF Exact, States
  <2>6. call'[c].pc = "done"
    BY <1>1, <2>1, AloneSteps
  <2> QED BY <1>1, <2>1, <2>5, <2>6, AloneSteps DEF InFlight
<1>6. CASE new.worker \notin {None, old.worker}
  <2>1. /\ Step(c, "addUser") /\ "addUser" \in Pcs \ {"idle"}
        /\ byUser' = byUser \ {old.worker}
    BY <1>2, <1>6 DEF RemovesUser, UserRemoved, Pcs
  <2>2. record' = record /\ byState' = byState
    BY DEF RemovesUser
  <2>3. old.worker # Creator /\ None # Creator
    BY <1>3, IndexAssumption DEF Before, JobRecords
  <2>4. byUser' = {Creator}
    BY <1>3, <1>4, <2>1, <2>3 DEF UsersOf
  <2>5. call'[c].pc = "addUser" /\ call'[c].new = new /\ call'[c].old = old
    BY <1>1, <1>2, <2>1, AloneSteps
  <2>6. Updating(c)'
    BY <1>3, <1>6, <2>2, <2>4, <2>5 DEF Updating
  <2>7. Midway(c)'
    BY <1>1, <2>5, <2>6 DEF Midway, UpdatePcs, UnlistPcs
  <2> QED BY <1>1, <2>1, <2>5, <2>7, AloneSteps DEF InFlight
<1> QED
  BY <1>5, <1>6

\* updateJob ends with both indexes exact.
LEMMA SeqAddsUser ==
    ASSUME Before, NEW c \in AllCalls, AddsUser(c)
    PROVE  Sequential'
<1>0. call[c].pc = "addUser" /\ InFlight(c)
  BY DEF AddsUser, InFlight
<1>1. c # Create /\ Alone(c)
  BY <1>0, BeforeFacts DEF Midway
<1>2. PICK old, new : old = call[c].old /\ new = call[c].new
  OBVIOUS
<1>3. /\ old \in JobRecords /\ new \in Updates /\ record = Merged(old, new)
      /\ byState = {record.state} /\ byUser = {Creator} /\ new.worker \notin {None, old.worker}
  BY <1>0, <1>1, <1>2, UpdatingFacts DEF UpdatePcs, Updating
<1>4. /\ record # NoJob /\ record.worker = new.worker /\ record.state \in States
  BY <1>3, MergedFields DEF JobRecords
<1>5. Step(c, "done") /\ "done" \in Pcs \ {"idle"} /\ byUser' = {Creator, new.worker}
  BY <1>2, <1>3 DEF AddsUser, Pcs
<1>6. record' = record /\ byState' = byState
  BY DEF AddsUser
<1>7. UsersOf(record) = {Creator, new.worker}
  BY <1>3, <1>4, IndexAssumption DEF UsersOf
<1>8. Exact'
  BY <1>3, <1>4, <1>5, <1>6, <1>7 DEF Exact, States
<1>9. call'[c].pc = "done"
  BY <1>1, <1>5, AloneSteps
<1> QED
  BY <1>1, <1>5, <1>8, <1>9, AloneSteps DEF InFlight
-----------------------------------------------------------------------------
\* deleteJob: the record goes first.
LEMMA SeqDeletes ==
    ASSUME Before, NEW c \in AllCalls, Deletes(c)
    PROVE  Sequential'
<1>0. call[c].pc = "delete" /\ InFlight(c)
  BY DEF Deletes, InFlight
<1>1. Alone(c) /\ Midway(c) /\ record \in JobRecords \cup {NoJob}
  BY <1>0, BeforeFacts
<1>2. c # Create /\ Exact /\ call[c].old = record /\ record \in JobRecords
  BY <1>0, <1>1 DEF Midway
<1>3. PICK old : old = call[c].old
  OBVIOUS
<1>4. old # NoJob /\ old \in JobRecords /\ byState = {old.state} /\ byUser = UsersOf(old)
  BY <1>2, <1>3, NoJobIsNoRecord DEF Exact, JobRecords, States
<1>5. Step(c, "unlistState") /\ "unlistState" \in Pcs \ {"idle"} /\ record' = NoJob
  BY DEF Deletes, Pcs
<1>6. call'[c].pc = "unlistState" /\ call'[c].old = old
  BY <1>1, <1>3, <1>5, AloneSteps
<1>7. byState' = {old.state} /\ byUser' = UsersOf(old)
  BY <1>4 DEF Deletes
<1>8. Removing(c)'
  BY <1>4, <1>5, <1>6, <1>7 DEF Removing
<1>9. Midway(c)'
  BY <1>2, <1>6, <1>8 DEF Midway, UpdatePcs, UnlistPcs
<1> QED
  BY <1>1, <1>5, <1>6, <1>9, AloneSteps DEF InFlight

\* The three sRem of deleteJob.
LEMMA SeqUnlists ==
    ASSUME Before, NEW c \in AllCalls, UnlistsState(c) \/ UnlistsCreator(c) \/ UnlistsWorker(c)
    PROVE  Sequential'
<1>0. call[c].pc \in UnlistPcs /\ InFlight(c)
  BY DEF UnlistsState, UnlistsCreator, UnlistsWorker, InFlight, UnlistPcs
<1>1. Alone(c) /\ c # Create /\ Removing(c)
  BY <1>0, BeforeFacts DEF Midway, UnlistPcs
<1>2. PICK old : old = call[c].old
  OBVIOUS
<1>3. old \in JobRecords /\ old # NoJob /\ record = NoJob
  BY <1>1, <1>2, NoJobIsNoRecord DEF Removing
<1>4. record' = NoJob
  BY <1>3 DEF UnlistsState, UnlistsCreator, UnlistsWorker
<1>5. Creator \notin Workers /\ Creator # None /\ UsersOf(old) = {Creator, old.worker} \ {None}
      /\ old.worker \in Workers \cup {None}
  BY <1>3, IndexAssumption DEF Before, UsersOf, JobRecords
<1>6. CASE UnlistsState(c)
  <2>1. byState = {old.state} /\ byUser = UsersOf(old)
    BY <1>1, <1>2, <1>6 DEF UnlistsState, Removing
  <2>2. byState' = {} /\ byUser' = UsersOf(old)
    BY <1>2, <1>6, <2>1 DEF UnlistsState
  <2>3. Step(c, "unlistCreator") /\ "unlistCreator" \in Pcs \ {"idle"}
    BY <1>6 DEF UnlistsState, Pcs
  <2>4. call'[c].pc = "unlistCreator" /\ call'[c].old = old
    BY <1>1, <1>2, <2>3, AloneSteps
  <2>5. Removing(c)'
    BY <1>3, <1>4, <2>2, <2>4 DEF Removing
  <2>6. Midway(c)'
    BY <1>1, <2>4, <2>5 DEF Midway, UpdatePcs, UnlistPcs
  <2> QED BY <1>1, <2>3, <2>4, <2>6, AloneSteps DEF InFlight
<1>7. CASE UnlistsCreator(c)
  <2>1. byState = {} /\ byUser = UsersOf(old)
    BY <1>1, <1>2, <1>7 DEF UnlistsCreator, Removing
  <2>2. byUser' = byUser \ {Creator} /\ byState' = byState
    BY <1>7 DEF UnlistsCreator
  <2>3. byUser' = {old.worker} \ {None}
    BY <1>5, <2>1, <2>2
  <2>4. Step(c, "unlistWorker") /\ "unlistWorker" \in Pcs \ {"idle"}
    BY <1>7 DEF UnlistsCreator, Pcs
  <2>5. call'[c].pc = "unlistWorker" /\ call'[c].old = old
    BY <1>1, <1>2, <2>4, AloneSteps
  <2>6. Removing(c)'
    BY <1>3, <1>4, <2>1, <2>2, <2>3, <2>5 DEF Removing
  <2>7. Midway(c)'
    BY <1>1, <2>5, <2>6 DEF Midway, UpdatePcs, UnlistPcs
  <2> QED BY <1>1, <2>4, <2>5, <2>7, AloneSteps DEF InFlight
<1>8. CASE UnlistsWorker(c)
  <2>1. byState = {} /\ byUser = {old.worker} \ {None}
    BY <1>1, <1>2, <1>8 DEF UnlistsWorker, Removing
  <2>2. byState' = {} /\ byUser' = {}
    BY <1>2, <1>8, <2>1 DEF UnlistsWorker
  <2>3. Exact'
    BY <1>4, <2>2 DEF Exact, UsersOf, NoJob
  <2>4. Step(c, "done") /\ "done" \in Pcs \ {"idle"}
    BY <1>8 DEF UnlistsWorker, Pcs
  <2>5. call'[c].pc = "done"
    BY <1>1, <2>4, AloneSteps
  <2> QED BY <1>1, <2>3, <2>4, <2>5, AloneSteps DEF InFlight
<1> QED
  BY <1>6, <1>7, <1>8

\* In a state reached without overlap or crash, one call moves at a time.
LEMMA StepSIInv == IInv /\ SIInv /\ [Next]_vars => SIInv'
<1> SUFFICES ASSUME IInv, SIInv, [Next]_vars, ~ overlapped', ~ crashed', Creator \notin Workers
             PROVE  Sequential'
  BY DEF SIInv
<1>1. CASE UNCHANGED vars
  <2>1. /\ record' = record /\ byState' = byState /\ byUser' = byUser /\ call' = call
        /\ Sequential
    BY <1>1 DEF vars, SIInv
  <2>2. Exact' <=> Exact
    BY <2>1 DEF Exact
  <2>3. \A c \in AllCalls : InFlight(c)' <=> InFlight(c)
    BY <2>1 DEF InFlight
  <2>4. \A c \in AllCalls : Updating(c)' <=> Updating(c)
    BY <2>1 DEF Updating, StateChanges
  <2>5. \A c \in AllCalls : Midway(c)' <=> Midway(c)
    BY <2>1, <2>2, <2>4 DEF Midway, Creating, Removing
  <2>6. (\A c, d \in AllCalls : InFlight(c) /\ InFlight(d) => c = d)'
    BY <2>1, <2>3 DEF Sequential
  <2>7. (\A c \in AllCalls : InFlight(c) => Midway(c))'
    BY <2>1, <2>3, <2>5 DEF Sequential
  <2>8. ASSUME \A c \in AllCalls : ~ InFlight(c)' PROVE Exact'
    <3>1. \A c \in AllCalls : ~ InFlight(c)
      BY <2>3, <2>8
    <3>2. Exact
      BY <2>1, <3>1 DEF Sequential
    <3> QED BY <2>2, <3>2
  <2>9. ((\A c \in AllCalls : ~ InFlight(c)) => Exact)'
    BY <2>8 DEF InFlight, Exact
  <2> QED
    BY <2>1, <2>6, <2>7, <2>9 DEF Sequential
<1>2. CASE Next
  <2>a. ~ Crash
    BY DEF Crash
  <2>b. ASSUME NEW c \in AllCalls, CallStep(c) PROVE crashed' = crashed /\ overlapped' = overlapped
    BY <2>b DEF CallStep, Gets, Sets, RemovesState, AddsState, RemovesUser, AddsUser,
                DeleteGets, Deletes, UnlistsState, UnlistsCreator, UnlistsWorker
  <2>c. ASSUME NEW c \in Calls, NEW p, NEW u, StartCall(c, p, u)
        PROVE  crashed' = crashed /\ (overlapped => overlapped')
    BY <2>c DEF StartCall
  <2>d. CreateSets \/ CreateAddsCreator => crashed' = crashed /\ overlapped' = overlapped
    BY DEF CreateSets, CreateAddsCreator
  <2>1. ~ crashed
    BY <1>2, <2>a, <2>b, <2>c, <2>d DEF Next
  <2>3. ~ overlapped
    BY <1>2, <2>a, <2>b, <2>c, <2>d DEF Next
  <2>4. Before
    BY <2>1, <2>3 DEF SIInv, Before
  <2>5. CASE CreateSets
    BY <2>4, <2>5, SeqCreateSets
  <2>6. CASE CreateAddsCreator
    BY <2>4, <2>6, SeqCreateAddsCreator
  <2>7. ASSUME NEW c \in Calls, NEW p \in {"get", "deleteGet"}, NEW u, StartCall(c, p, u)
        PROVE  Sequential'
    BY <2>4, <2>7, SeqStartCall
  <2>8. ASSUME NEW c \in AllCalls, CallStep(c) PROVE Sequential'
    BY <2>4, <2>8, SeqGets, SeqSets, SeqRemovesState, SeqAddsState, SeqRemovesUser, SeqAddsUser,
       SeqDeletes, SeqUnlists DEF CallStep
  <2> QED
    BY <1>2, <2>a, <2>5, <2>6, <2>7, <2>8 DEF Next
<1> QED
  BY <1>1, <1>2

\* The call of createJob is the first one.
LEMMA InitSIInv == Init => SIInv
<1> SUFFICES ASSUME Init PROVE Sequential
  BY DEF SIInv
<1>1. /\ \A c \in AllCalls \ {Create} : call[c] = Idle
      /\ call[Create] = [Idle EXCEPT !.pc = "create"] /\ Create \in AllCalls
  BY DEF Init, AllCalls
<1>2. Idle.pc = "idle" /\ [Idle EXCEPT !.pc = "create"].pc = "create"
  BY DEF Idle
<1>3. \A c \in AllCalls : InFlight(c) <=> c = Create
  BY <1>1, <1>2 DEF InFlight
<1>4. Midway(Create)
  BY <1>1, <1>2 DEF Midway, Creating, Init
<1> QED
  BY <1>1, <1>2, <1>3, <1>4 DEF Sequential

\* Both indexes are exact between calls that do not overlap, however many run,
\* unless a process dies in one or the creator works on the job itself.
THEOREM IndexesExact == Spec => []ExactWhenSequential
<1>1. SIInv => ExactWhenSequential
  BY DEF SIInv, Sequential, Exact, UsersOf, ExactWhenSequential
<1> QED
  BY <1>1, IInvHolds, InitSIInv, StepSIInv, PTL DEF Spec
(***************************************************************************)
(* Files: what a chain holds at each of its commands.                      *)
(***************************************************************************)
MakePcs == {"create", "listUser", "listJob", "write", "hash"}
StorePcs == MakePcs \cup {"put", "dual", "announce", "strategy", "stamp"}
UsePcs == {"open", "join", "access", "resolve", "fetch", "restore",
           "unlink", "del", "unlistUser", "unlistJob"}
SyncPcs == {"status", "mark"}
DeletePcs == {"unlink", "del", "unlistUser", "unlistJob"}
HoldingPcs == {"create", "listUser", "listJob", "write", "hash", "dual", "announce", "stamp",
               "mark", "open", "join", "access", "resolve"}
CopyPcs == {"stamp", "mark", "open", "join", "access", "resolve", "unlink"}
Results == {"synced", "sync_failed", "sync_failed_permanently"}
Plans == {"none", "upload", "plain", "local", "canister", "dual"} \cup Results
ChainRecords ==
    [pc : {"rest", "sweep", "resend", "sync"} \cup StorePcs \cup UsePcs \cup SyncPcs,
     file : FileIds \cup {NoFile}, name : FileNames \cup {NoName},
     rec : FileRecords \cup {NoRecord}, plan : Plans, seen : SUBSET FileIds]

\* Which chain may be where, with the file, name, record and plan it needs there.
May(p, pc, file, name, rec, plan, ids) ==
    /\ file \in ids \cup {NoFile}
    /\ pc \notin {"rest", "sweep"} => file \in ids
    /\ p \in FileCalls => pc \in {"rest"} \cup StorePcs \cup UsePcs
    /\ p \in FileSweeps => pc \in {"rest", "sweep", "resend"} \cup SyncPcs
    /\ p \in FileIds => pc \in {"rest", "sync"} \cup SyncPcs /\ file \in {p, NoFile}
    /\ pc \in StorePcs \cup {"sync", "resend"} => name \in FileNames
    /\ pc \in CopyPcs => rec \in FileRecords
    /\ pc \in MakePcs => plan \in {"upload", "plain", "local", "dual"}
    /\ pc = "hash" => plan = "plain"
    /\ pc = "dual" => plan = "dual"
    /\ pc \in {"put", "announce"} => plan = "canister"
    /\ pc \in {"strategy", "stamp"} => plan \in {"local", "canister", "dual"}
    /\ pc \in SyncPcs => plan \in Results
Fits(p, c, ids) == c \in ChainRecords /\ May(p, c.pc, c.file, c.name, c.rec, c.plan, ids)

ChainsFit == DOMAIN chain = Chains /\ \A p \in Chains : Fits(p, chain[p], fileIds)

FilesWell ==
    /\ fileData \in [FileIds -> FileRecords \cup {NoRecord}]
    /\ filesByUser \subseteq fileIds /\ filesByJob \subseteq fileIds
    /\ disk \subseteq FileNames /\ canister \subseteq FileNames
    /\ fileIds \subseteq FileIds
    /\ reported \subseteq fileIds \X (FileNames \cup {NoName})
    /\ unlinked \subseteq FileNames \cup {NoName}
    /\ deletedFiles \subseteq fileIds
    /\ fileUses \in 0 .. FileUses /\ fileCrashes \in 0 .. FileCrashes
    /\ \A f \in FileIds : f \notin fileIds => fileData[f] = NoRecord
    /\ \A p \in FileCalls : chain[p].pc \in DeletePcs => chain[p].file \in deletedFiles

WellInv == ChainsFit /\ FilesWell

\* How often content is sent: a file in the retry queue was sent once and once
\* more for each count; a sweep about to send it is one of so many.
Resending(f) == {p \in FileSweeps : chain[p].pc = "resend" /\ chain[p].file = f}
Unsent(f) == attempts[f] = 0 /\ f \notin DOMAIN syncQueue /\ Resending(f) = {}
SentOnce(f) == attempts[f] = 1 /\ f \notin DOMAIN syncQueue /\ Resending(f) = {}
ToSend == {"create", "listUser", "listJob", "write", "put"}

SendInv ==
    /\ attempts \in [FileIds -> Nat] /\ DOMAIN syncQueue \subseteq fileIds
    /\ \A f \in FileIds : f \notin fileIds => Unsent(f) /\ chain[f].pc = "rest"
    /\ \A p \in FileCalls : chain[p].pc \in ToSend =>
          Unsent(chain[p].file) /\ chain[chain[p].file].pc = "rest"
    /\ \A f \in FileIds : chain[f].pc = "sync" => Unsent(f)
    /\ \A f \in FileIds : chain[f].pc \in SyncPcs /\ chain[f].plan = "sync_failed" => SentOnce(f)
    /\ \A f \in DOMAIN syncQueue : syncQueue[f] \in Nat /\ attempts[f] = syncQueue[f] + 1
    /\ \A f \in FileIds : attempts[f] + Cardinality(Resending(f)) <= FileRetries + Cardinality(FileSweeps)

\* A store has its identifier for itself until it reports, and every copy of
\* the record of a file leads to where the store left its content.
Leads(r, n) == IF n = NoName THEN r.path = NoName /\ r.key \in canister ELSE r.path # NoName
CopiesLead(f, n) ==
    /\ fileData[f] # NoRecord => Leads(fileData[f], n)
    /\ \A p \in Chains : chain[p].file = f /\ chain[p].pc \in CopyPcs => Leads(chain[p].rec, n)
Storing(p) == p \in FileCalls /\ chain[p].pc \in StorePcs
StoresAlone ==
    \A p \in FileCalls : Storing(p) =>
        /\ \A e \in reported : e[1] # chain[p].file
        /\ \A q \in FileCalls : Storing(q) /\ chain[q].file = chain[p].file => q = p
Owes(g, n) ==
    \/ <<g, n>> \in reported
    \/ \E q \in FileCalls : Storing(q) /\ chain[q].file = g /\ LocalName(q) = n
KeptInv ==
    /\ StoresAlone
    /\ \A g \in FileIds, n \in FileNames \cup {NoName} : Owes(g, n) => CopiesLead(g, n)
    /\ \A p \in FileCalls : chain[p].pc = "announce" => chain[p].name \in canister
    /\ \A p \in FileCalls :
          chain[p].pc \in {"hash", "dual", "strategy", "stamp"} /\ chain[p].plan # "canister" =>
              chain[p].name \in disk \cup unlinked
    /\ \A p \in FileCalls :
          chain[p].pc \in StorePcs \ {"put", "announce", "create"} /\ chain[p].file \notin deletedFiles =>
              fileData[chain[p].file] # NoRecord
    /\ \A e \in reported :
          /\ e[1] \notin deletedFiles => fileData[e[1]] # NoRecord
          /\ e[2] # NoName => e[2] \in disk \cup unlinked

\* A clean delete: nobody holds the record, and the delete takes away one thing
\* after the other.
Gone(f) == fileData[f] = NoRecord /\ f \notin filesByUser \cup filesByJob
CleanInv ==
    /\ cleanDeletes \subseteq deletedFiles
    /\ \A p \in FileCalls : chain[p].pc \in {"put", "create"} =>
          chain[p].file \notin filesByUser \cup deletedFiles
    /\ \A f \in cleanDeletes :
          /\ Holders(f) = {}
          /\ ~Deleting(f) => Gone(f)
          /\ \A p \in FileCalls : chain[p].file = f =>
                /\ chain[p].pc \in {"unlistUser", "unlistJob"} => fileData[f] = NoRecord
                /\ chain[p].pc = "unlistJob" => f \notin filesByUser

\* Everywhere a chain may be.
AllPcs == {"rest", "sweep", "resend", "sync"} \cup StorePcs \cup UsePcs \cup SyncPcs

\* One chain goes on, to a command with what it then holds.
Turns(p, pc, file, name, rec, plan) ==
    /\ DOMAIN chain' = Chains
    /\ chain'[p] \in ChainRecords
    /\ chain'[p].pc = pc /\ chain'[p].file = file /\ chain'[p].name = name
    /\ chain'[p].rec = rec /\ chain'[p].plan = plan
    /\ \A q \in Chains : q # p => chain'[q] = chain[q]
Stays(p, pc) == Turns(p, pc, chain[p].file, chain[p].name, chain[p].rec, chain[p].plan)
Rests(p) == Turns(p, "rest", NoFile, NoName, NoRecord, "none")

\* A record is a path, a name, a key, a strategy and a status; none is NoRecord.
LEMMA RecordFields ==
    /\ NoRecord \notin FileRecords
    /\ \A r \in FileRecords : /\ r.path \in FileNames \cup {NoName} /\ r.name \in FileNames
                              /\ r.key \in FileNames \cup {NoName}
<1>1. ASSUME NEW r \in FileRecords PROVE r # NoRecord
  <2>1. "name" \in DOMAIN r
    BY DEF FileRecords
  <2>2. "name" \notin DOMAIN NoRecord
    BY DEF NoRecord
  <2> QED
    BY <2>1, <2>2
<1>2. \A r \in FileRecords : /\ r.path \in FileNames \cup {NoName} /\ r.name \in FileNames
                             /\ r.key \in FileNames \cup {NoName}
  BY DEF FileRecords
<1> QED
  BY <1>1, <1>2

\* The records a store writes, field by field.
LEMMA MadeRecords ==
    ASSUME NEW n \in FileNames
    PROVE  /\ PlainRecord(n) \in FileRecords /\ PlainRecord(n).path = n
           /\ DualRecord(n) \in FileRecords /\ DualRecord(n).path = n
           /\ CanisterRecord(n) \in FileRecords
           /\ CanisterRecord(n).path = NoName /\ CanisterRecord(n).key = n
BY DEF PlainRecord, DualRecord, CanisterRecord, FileRecords

\* Records that differ from another in a strategy, a status or a path.
LEMMA ChangedRecords ==
    ASSUME NEW r \in FileRecords
    PROVE  /\ \A x \in {"local", "canister", "dual"} :
                 /\ [r EXCEPT !.strategy = x] \in FileRecords
                 /\ [r EXCEPT !.strategy = x].path = r.path /\ [r EXCEPT !.strategy = x].key = r.key
           /\ \A x \in Results :
                 /\ Marked(r, x) \in FileRecords
                 /\ Marked(r, x).path = r.path /\ Marked(r, x).key = r.key
           /\ \A n \in FileNames :
                 /\ [r EXCEPT !.path = n, !.name = n] \in FileRecords
                 /\ [r EXCEPT !.path = n, !.name = n].path = n
BY DEF FileRecords, Marked, Results

\* What a chain at rest holds.
LEMMA AtRestFields ==
    /\ AtRest \in ChainRecords /\ AtRest.pc = "rest" /\ AtRest.file = NoFile
    /\ AtRest.name = NoName /\ AtRest.rec = NoRecord /\ AtRest.plan = "none" /\ AtRest.seen = {}
BY DEF AtRest, ChainRecords, Plans

\* What a chain holds is well formed.
LEMMA ChainIs ==
    ASSUME ChainsFit, NEW p \in Chains
    PROVE  Fits(p, chain[p], fileIds) /\ chain[p] \in ChainRecords
BY DEF ChainsFit, Fits

\* The forms in which a chain goes on.
LEMMA MovesTurns ==
    ASSUME ChainsFit, NEW p \in Chains, NEW d \in ChainRecords, Moves(p, d)
    PROVE  Turns(p, d.pc, d.file, d.name, d.rec, d.plan)
BY DEF ChainsFit, Moves, Turns

\* It goes on to another command with what it holds.
LEMMA GoesTurns ==
    ASSUME ChainsFit, NEW p \in Chains, NEW pc \in AllPcs, Goes(p, pc)
    PROVE  Stays(p, pc)
<1> DEFINE d == [chain[p] EXCEPT !.pc = pc]
<1>1. chain[p] \in ChainRecords
  BY ChainIs
<1>2. /\ d \in ChainRecords /\ d.pc = pc /\ d.file = chain[p].file /\ d.name = chain[p].name
      /\ d.rec = chain[p].rec /\ d.plan = chain[p].plan
  BY <1>1 DEF ChainRecords, AllPcs
<1>3. Moves(p, d)
  BY DEF Goes
<1> QED
  BY <1>2, <1>3, MovesTurns DEF Stays

\* It ends.
LEMMA EndsTurns ==
    ASSUME ChainsFit, NEW p \in Chains, Ends(p)
    PROVE  Rests(p)
BY AtRestFields, MovesTurns DEF Ends, Rests

\* A store begins under an identifier that was not given out.
LEMMA StartsTurns ==
    ASSUME ChainsFit, NEW p \in Chains, NEW n \in FileNames, NEW plan \in Plans, Starts(p, n, plan)
    PROVE  \E f \in FileIds \ fileIds :
              /\ fileIds' = fileIds \cup {f}
              /\ Turns(p, IF plan = "canister" THEN "put" ELSE "create", f, n, NoRecord, plan)
<1>1. PICK f \in FileIds \ fileIds :
         /\ fileIds' = fileIds \cup {f}
         /\ Moves(p, [AtRest EXCEPT !.pc = IF plan = "canister" THEN "put" ELSE "create",
                                    !.file = f, !.plan = plan, !.name = n])
  BY DEF Starts
<1> DEFINE pc == IF plan = "canister" THEN "put" ELSE "create"
           d == [AtRest EXCEPT !.pc = pc, !.file = f, !.plan = plan, !.name = n]
<1>2. pc \in StorePcs
  BY DEF StorePcs, MakePcs
<1>3. /\ d \in ChainRecords /\ d.pc = pc /\ d.file = f /\ d.name = n
      /\ d.rec = NoRecord /\ d.plan = plan
  <2> HIDE DEF pc
  <2> QED BY <1>2 DEF ChainRecords, AtRest
<1>4. Turns(p, pc, f, n, NoRecord, plan)
  <2> HIDE DEF pc
  <2>1. Moves(p, d)
    BY <1>1 DEF pc
  <2> QED
    BY <1>3, <2>1, MovesTurns
<1> QED
  BY <1>1, <1>4

\* updateSyncStatus begins.
LEMMA StatusTurns ==
    ASSUME ChainsFit, NEW p \in Chains, NEW x \in Results, Moves(p, WithStatus(p, x))
    PROVE  Turns(p, "status", chain[p].file, NoName, chain[p].rec, x)
<1> DEFINE d == WithStatus(p, x)
<1>1. chain[p] \in ChainRecords
  BY ChainIs
<1>2. /\ d \in ChainRecords /\ d.pc = "status" /\ d.file = chain[p].file /\ d.name = NoName
      /\ d.rec = chain[p].rec /\ d.plan = x
  BY <1>1 DEF WithStatus, ChainRecords, Plans, SyncPcs
<1> HIDE DEF d
<1> QED
  BY <1>2, MovesTurns DEF d

\* It goes on with another record, or none.
LEMMA ReadTurns ==
    ASSUME ChainsFit, NEW p \in Chains, NEW pc \in AllPcs, NEW r \in FileRecords \cup {NoRecord},
           Moves(p, [chain[p] EXCEPT !.pc = pc, !.rec = r])
    PROVE  Turns(p, pc, chain[p].file, chain[p].name, r, chain[p].plan)
<1> DEFINE d == [chain[p] EXCEPT !.pc = pc, !.rec = r]
<1>1. chain[p] \in ChainRecords
  BY ChainIs
<1>2. /\ d \in ChainRecords /\ d.pc = pc /\ d.file = chain[p].file /\ d.name = chain[p].name
      /\ d.rec = r /\ d.plan = chain[p].plan
  BY <1>1 DEF ChainRecords, AllPcs
<1> HIDE DEF d
<1> QED
  BY <1>2, MovesTurns DEF d

\* A sweep goes on to its next file; a synchronisation ends.
LEMMA ContinuesTurns ==
    ASSUME ChainsFit, NEW p \in Chains, Continues(p)
    PROVE  IF p \in FileSweeps THEN Turns(p, "sweep", NoFile, NoName, NoRecord, "none") ELSE Rests(p)
<1>1. CASE p \notin FileSweeps
  BY <1>1, EndsTurns DEF Continues
<1>2. CASE p \in FileSweeps
  <2> DEFINE d == [AtRest EXCEPT !.pc = "sweep", !.seen = chain[p].seen]
  <2>1. chain[p].seen \in SUBSET FileIds
    BY ChainIs DEF ChainRecords
  <2>2. /\ d \in ChainRecords /\ d.pc = "sweep" /\ d.file = NoFile /\ d.name = NoName
        /\ d.rec = NoRecord /\ d.plan = "none"
    BY <2>1, AtRestFields DEF AtRest, ChainRecords
  <2>3. Moves(p, d)
    BY <1>2 DEF Continues
  <2> HIDE DEF d
  <2> QED
    BY <1>2, <2>2, <2>3, MovesTurns
<1> QED
  BY <1>1, <1>2

\* A chain that goes on to where it may be keeps the chains well formed.
LEMMA TurnsFit ==
    ASSUME ChainsFit, NEW p \in Chains, NEW pc, NEW file, NEW name, NEW rec, NEW plan,
           Turns(p, pc, file, name, rec, plan),
           May(p, pc, file, name, rec, plan, fileIds'), fileIds \subseteq fileIds'
    PROVE  ChainsFit'
<1>1. ASSUME NEW q \in Chains PROVE Fits(q, chain'[q], fileIds')
  <2>1. CASE q = p
    BY <2>1 DEF Turns, Fits
  <2>2. CASE q # p
    <3>1. chain'[q] = chain[q] /\ Fits(q, chain[q], fileIds)
      BY <2>2 DEF Turns, ChainsFit
    <3> DEFINE d == chain[q]
    <3>2. Fits(q, d, fileIds) => Fits(q, d, fileIds')
      <4> HIDE DEF d
      <4> QED BY DEF Fits, May
    <3> QED
      BY <3>1, <3>2
  <2> QED
    BY <2>1, <2>2
<1>2. DOMAIN chain' = Chains
  BY DEF Turns
<1> QED
  BY <1>1, <1>2 DEF ChainsFit

\* The same for every other chain while a store starts the synchronisation of
\* its file.
Others(p) == \A q \in Chains : q # p =>
    chain'[q] = chain[q] \/ (q \in FileIds /\ chain'[q].pc = "sync" /\ chain[q].pc = "rest")
Turned(p, pc, file, name, rec, plan) ==
    /\ chain'[p].pc = pc /\ chain'[p].file = file /\ chain'[p].name = name
    /\ chain'[p].rec = rec /\ chain'[p].plan = plan
    /\ Others(p)
LEMMA TurnsTurned ==
    ASSUME NEW p, NEW pc, NEW file, NEW name, NEW rec, NEW plan,
           Turns(p, pc, file, name, rec, plan)
    PROVE  Turned(p, pc, file, name, rec, plan)
BY DEF Turns, Turned, Others

\* The kinds of chains are apart.
LEMMA Kinds ==
    /\ FileCalls \subseteq Chains /\ FileSweeps \subseteq Chains /\ FileIds \subseteq Chains
    /\ FileCalls \cap FileSweeps = {} /\ FileCalls \cap FileIds = {} /\ FileSweeps \cap FileIds = {}
BY FilesAssumption DEF Chains

\* SendInv, when a call goes on and nothing is sent.
LEMMA SendByCall ==
    ASSUME SendInv, NEW p \in FileCalls, NEW pc, NEW file, NEW name, NEW rec, NEW plan,
           Turns(p, pc, file, name, rec, plan),
           attempts' = attempts, syncQueue' = syncQueue, fileIds' = fileIds,
           pc \in ToSend => chain[p].pc \in ToSend /\ file = chain[p].file,
           \A q \in FileCalls : chain[q].pc \in ToSend => chain[q].file \in FileIds
    PROVE  SendInv'
<1>1. p \notin FileSweeps /\ p \notin FileIds /\ p \in Chains
  BY Kinds
<1>2. \A q \in FileSweeps \cup FileIds : chain'[q] = chain[q]
  BY <1>1, Kinds DEF Turns
<1>3. \A f : Resending(f)' = Resending(f)
  BY <1>2 DEF Resending
<1>4. \A f : (Unsent(f) => Unsent(f)') /\ (SentOnce(f) => SentOnce(f)')
  BY <1>3 DEF Unsent, SentOnce
<1>5. \A q \in FileCalls : chain'[q].pc \in ToSend =>
         /\ Unsent(chain[q].file)' /\ chain'[chain'[q].file].pc = "rest"
  <2> SUFFICES ASSUME NEW q \in FileCalls, chain'[q].pc \in ToSend
               PROVE  Unsent(chain[q].file)' /\ chain'[chain'[q].file].pc = "rest"
    OBVIOUS
  <2>1. chain[q].pc \in ToSend /\ chain'[q].file = chain[q].file
    BY Kinds DEF Turns
  <2>2. PICK f : f = chain[q].file
    OBVIOUS
  <2>3. Unsent(f) /\ chain[f].pc = "rest" /\ f \in FileIds
    BY <2>1, <2>2 DEF SendInv
  <2>4. Unsent(f)' /\ chain'[f].pc = "rest"
    BY <1>2, <1>4, <2>3
  <2>5. chain'[q].file = f
    BY <2>1, <2>2
  <2> QED
    BY <2>4, <2>5 DEF Unsent, Resending
<1> QED
  BY <1>2, <1>3, <1>4, <1>5 DEF SendInv

\* SendInv, when a call takes a new identifier.
LEMMA SendByStart ==
    ASSUME SendInv, NEW p \in FileCalls, NEW pc, NEW f \in FileIds \ fileIds,
           NEW name, NEW rec, NEW plan, Turns(p, pc, f, name, rec, plan),
           attempts' = attempts, syncQueue' = syncQueue, fileIds' = fileIds \cup {f},
           \A q \in FileCalls : chain[q].pc \in ToSend => chain[q].file \in FileIds
    PROVE  SendInv'
<1>1. p \notin FileSweeps /\ p \notin FileIds /\ p \in Chains
  BY Kinds
<1>2. \A q \in FileSweeps \cup FileIds : chain'[q] = chain[q]
  BY <1>1, Kinds DEF Turns
<1>3. \A g : Resending(g)' = Resending(g)
  BY <1>2 DEF Resending
<1>4. \A g : (Unsent(g) => Unsent(g)') /\ (SentOnce(g) => SentOnce(g)')
  BY <1>3 DEF Unsent, SentOnce
<1>5. \A q \in FileCalls : chain'[q].pc \in ToSend =>
         /\ Unsent(chain[q].file)' /\ chain'[chain'[q].file].pc = "rest"
  <2> SUFFICES ASSUME NEW q \in FileCalls, chain'[q].pc \in ToSend
               PROVE  Unsent(chain[q].file)' /\ chain'[chain'[q].file].pc = "rest"
    OBVIOUS
  <2>1. PICK g : g = chain'[q].file
    OBVIOUS
  <2>2. Unsent(g) /\ chain[g].pc = "rest" /\ g \in FileIds
    <3>1. CASE q = p
      BY <2>1, <3>1 DEF Turns, SendInv
    <3>2. CASE q # p
      <4>1. chain'[q] = chain[q]
        BY <3>2, Kinds DEF Turns
      <4> QED
        BY <2>1, <4>1 DEF SendInv
    <3> QED
      BY <3>1, <3>2
  <2>3. Unsent(g)' /\ chain'[g].pc = "rest"
    BY <1>2, <1>4, <2>2
  <2> QED
    BY <2>1, <2>3 DEF Unsent, Resending
<1> QED
  BY <1>2, <1>3, <1>4, <1>5 DEF SendInv

\* What is owed to a file whose store is under way is what that store does.
LEMMA OwedByStore ==
    ASSUME StoresAlone, NEW p \in FileCalls, Storing(p), NEW n, Owes(chain[p].file, n)
    PROVE  n = LocalName(p)
<1>1. <<chain[p].file, n>> \notin reported
  BY DEF StoresAlone
<1> QED
  BY <1>1 DEF Owes, StoresAlone

\* What a step of a chain may do to the copies of records: those it makes lead
\* to the content, and a store reports what it has done.
KeptStep(p, pc, file, name, rec, plan) ==
    /\ canister \subseteq canister' /\ disk \cup unlinked \subseteq disk' \cup unlinked'
    /\ deletedFiles \subseteq deletedFiles'
    /\ \A g \in FileIds : fileData'[g] = NoRecord => fileData[g] = NoRecord \/ g \in deletedFiles'
    /\ pc \in CopyPcs => \A n : Owes(file, n) => Leads(rec, n)
    /\ \A g \in FileIds : \A n : fileData'[g] # NoRecord /\ fileData'[g] # fileData[g] /\ Owes(g, n) =>
          Leads(fileData[g], n)'
    /\ p \in FileCalls /\ pc \in StorePcs =>
          /\ Storing(p) /\ file = chain[p].file
          /\ (IF plan = "canister" THEN NoName ELSE name) = LocalName(p)
          /\ pc = "announce" => name \in canister'
          /\ pc \in {"hash", "dual", "strategy", "stamp"} /\ plan # "canister" =>
                name \in disk' \cup unlinked'
          /\ pc \in StorePcs \ {"put", "announce", "create"} /\ file \notin deletedFiles' =>
                fileData'[file] # NoRecord
    /\ \/ reported' = reported
       \/ /\ Storing(p) /\ reported' = reported \cup {<<chain[p].file, LocalName(p)>>}
          /\ pc \notin StorePcs
          /\ chain[p].file \notin deletedFiles' => fileData'[chain[p].file] # NoRecord
          /\ LocalName(p) # NoName => LocalName(p) \in disk' \cup unlinked'

\* KeptInv, when a chain goes on: the copies it makes lead to the content.
LEMMA KeptByTurn ==
    ASSUME WellInv, KeptInv, NEW p \in Chains,
           NEW pc, NEW file, NEW name, NEW rec, NEW plan, Turned(p, pc, file, name, rec, plan),
           KeptStep(p, pc, file, name, rec, plan)
    PROVE  KeptInv'
<1> USE DEF KeptStep
<1>1. \A q \in FileCalls : q # p => chain'[q] = chain[q]
  BY Kinds DEF Turned, Others
<1>2. \A q \in FileCalls : q # p => (Storing(q)' <=> Storing(q)) /\ LocalName(q)' = LocalName(q)
  BY <1>1 DEF Storing, LocalName
<1>3. ASSUME p \in FileCalls, Storing(p)'
      PROVE  Storing(p) /\ chain'[p].file = chain[p].file /\ LocalName(p)' = LocalName(p)
  BY <1>3 DEF Storing, LocalName, Turned
<1>4. \A q \in FileCalls : Storing(q)' =>
         Storing(q) /\ chain'[q].file = chain[q].file /\ LocalName(q)' = LocalName(q)
  BY <1>1, <1>2, <1>3
<1>5. StoresAlone'
  <2> SUFFICES ASSUME NEW q \in FileCalls, Storing(q)'
               PROVE  /\ \A e \in reported' : e[1] # chain'[q].file
                      /\ \A r \in FileCalls : Storing(r)' /\ chain'[r].file = chain'[q].file => r = q
    BY DEF StoresAlone
  <2>1. Storing(q) /\ chain'[q].file = chain[q].file
    BY <1>4
  <2>2. \A r \in FileCalls : Storing(r)' /\ chain'[r].file = chain'[q].file => r = q
    BY <1>4, <2>1 DEF KeptInv, StoresAlone
  <2>3. CASE reported' = reported
    BY <2>1, <2>2, <2>3 DEF KeptInv, StoresAlone
  <2>4. CASE /\ Storing(p) /\ reported' = reported \cup {<<chain[p].file, LocalName(p)>>}
             /\ pc \notin StorePcs
    <3>1. q # p
      BY <2>4 DEF Storing, Turned
    <3>2. chain[q].file # chain[p].file
      BY <2>1, <2>4, <3>1 DEF KeptInv, StoresAlone, Storing
    <3> QED
      BY <2>1, <2>2, <2>4, <3>2 DEF KeptInv, StoresAlone
  <2> QED
    BY <2>2, <2>3, <2>4
<1>6. \A g, n : Owes(g, n)' => Owes(g, n)
  <2> SUFFICES ASSUME NEW g, NEW n, Owes(g, n)' PROVE Owes(g, n)
    OBVIOUS
  <2>1. CASE <<g, n>> \in reported'
    BY <2>1 DEF Owes, Storing
  <2>2. CASE \E q \in FileCalls : Storing(q)' /\ chain'[q].file = g /\ LocalName(q)' = n
    BY <1>4, <2>2 DEF Owes
  <2> QED
    BY <2>1, <2>2 DEF Owes
<1>7. \A r, n : Leads(r, n) => Leads(r, n)'
  BY DEF Leads
<1>8. ASSUME NEW g \in FileIds, NEW n \in FileNames \cup {NoName}, Owes(g, n)' PROVE CopiesLead(g, n)'
  <2>1. Owes(g, n) /\ CopiesLead(g, n)
    BY <1>6, <1>8 DEF KeptInv
  <2>2. fileData'[g] # NoRecord => Leads(fileData[g], n)'
    BY <1>7, <2>1 DEF CopiesLead
  <2>3. ASSUME NEW q \in Chains, chain'[q].file = g, chain'[q].pc \in CopyPcs
        PROVE  Leads(chain[q].rec, n)'
    <3>1. CASE q = p
      BY <1>7, <2>1, <2>3, <3>1 DEF Turned
    <3>2. CASE q # p /\ chain'[q] = chain[q]
      BY <1>7, <2>1, <2>3, <3>2 DEF CopiesLead
    <3>3. CASE chain'[q].pc = "sync"
      BY <2>3, <3>3 DEF CopyPcs
    <3> QED
      BY <3>1, <3>2, <3>3 DEF Turned, Others
  <2> QED
    BY <2>2, <2>3 DEF CopiesLead
<1>9. \A q \in FileCalls : chain'[q].pc = "announce" => chain'[q].name \in canister'
  <2> SUFFICES ASSUME NEW q \in FileCalls, chain'[q].pc = "announce" PROVE chain'[q].name \in canister'
    OBVIOUS
  <2>1. CASE q = p
    BY <2>1 DEF Turned, StorePcs
  <2>2. CASE q # p
    BY <1>1, <2>2 DEF KeptInv
  <2> QED
    BY <2>1, <2>2
<1>10. \A q \in FileCalls :
          chain'[q].pc \in {"hash", "dual", "strategy", "stamp"} /\ chain'[q].plan # "canister" =>
              chain'[q].name \in disk' \cup unlinked'
  <2> SUFFICES ASSUME NEW q \in FileCalls, chain'[q].plan # "canister",
                      chain'[q].pc \in {"hash", "dual", "strategy", "stamp"}
               PROVE  chain'[q].name \in disk' \cup unlinked'
    OBVIOUS
  <2>1. CASE q = p
    BY <2>1 DEF Turned, StorePcs, MakePcs
  <2>2. CASE q # p
    BY <1>1, <2>2 DEF KeptInv
  <2> QED
    BY <2>1, <2>2
<1>11. \A q \in FileCalls :
          chain'[q].pc \in StorePcs \ {"put", "announce", "create"} /\ chain'[q].file \notin deletedFiles' =>
              fileData'[chain'[q].file] # NoRecord
  <2> SUFFICES ASSUME NEW q \in FileCalls, chain'[q].file \notin deletedFiles',
                      chain'[q].pc \in StorePcs \ {"put", "announce", "create"}
               PROVE  fileData'[chain'[q].file] # NoRecord
    OBVIOUS
  <2>1. CASE q = p
    BY <2>1 DEF Turned
  <2>2. CASE q # p
    <3>1. chain'[q] = chain[q]
      BY <1>1, <2>2
    <3>2. chain[q].file \in FileIds
      BY <3>1, Kinds DEF WellInv, ChainsFit, FilesWell, Fits, May, StorePcs, MakePcs
    <3> QED
      BY <3>1, <3>2 DEF KeptInv
  <2> QED
    BY <2>1, <2>2
<1>12. \A e \in reported' :
          /\ e[1] \notin deletedFiles' => fileData'[e[1]] # NoRecord
          /\ e[2] # NoName => e[2] \in disk' \cup unlinked'
  <2> SUFFICES ASSUME NEW e \in reported'
               PROVE  /\ e[1] \notin deletedFiles' => fileData'[e[1]] # NoRecord
                      /\ e[2] # NoName => e[2] \in disk' \cup unlinked'
    OBVIOUS
  <2>1. CASE e \in reported
    <3>1. e[1] \in FileIds
      BY <2>1 DEF WellInv, FilesWell
    <3> QED
      BY <2>1, <3>1 DEF KeptInv
  <2>2. CASE e \notin reported
    BY <2>2
  <2> QED
    BY <2>1, <2>2
<1> QED
  BY <1>5, <1>8, <1>9, <1>10, <1>11, <1>12 DEF KeptInv

\* What a step of a chain may do to files that are deleted: only a holder of a
\* record writes or lists it again, and a delete takes its steps one after the
\* other.
CleanStep(p, pc, file, name, rec, plan) ==
    /\ fileCrashes' = fileCrashes /\ deletedFiles \subseteq deletedFiles'
    /\ \A g \in FileIds : fileData[g] = NoRecord /\ fileData'[g] # NoRecord => p \in Holders(g)
    /\ \A g \in (filesByUser' \ filesByUser) \cup (filesByJob' \ filesByJob) : p \in Holders(g)
    /\ \A q \in FileCalls : chain[q].pc \in {"put", "create"} /\ q # p =>
          /\ chain[q].file \notin filesByUser' \ filesByUser
          /\ chain[q].file \notin deletedFiles' \ deletedFiles
    /\ pc \in HoldingPcs => p \in Holders(file) \/ fileData[file] # NoRecord \/ file \notin cleanDeletes
    /\ p \in FileCalls =>
          /\ pc \in {"put", "create"} => file \notin filesByUser' \cup deletedFiles'
          /\ pc \in DeletePcs =>
                \/ chain[p].pc \in DeletePcs /\ file = chain[p].file
                \/ pc = "unlink" /\ chain[p].pc = "rest" /\ fileData[file] # NoRecord
          /\ pc = "unlistUser" => fileData'[file] = NoRecord
          /\ pc = "unlistJob" =>
                chain[p].pc = "unlistUser" /\ chain[p].file = file /\ file \notin filesByUser'
          /\ chain[p].pc \in DeletePcs /\ pc \notin DeletePcs =>
                chain[p].pc = "unlistJob" /\ chain[p].file \notin filesByJob'

\* Such a step keeps what is known of clean deletes.
LEMMA CleanByTurn ==
    ASSUME WellInv, WellInv', CleanInv, cleanDeletes' = CleanDeletes, NEW p \in Chains,
           NEW pc, NEW file, NEW name, NEW rec, NEW plan, Turned(p, pc, file, name, rec, plan),
           CleanStep(p, pc, file, name, rec, plan)
    PROVE  CleanInv'
<1> USE DEF CleanStep
<1>1. \A q \in FileCalls : q # p => chain'[q] = chain[q]
  BY Kinds DEF Turned, Others
<1>2. \A f : Deleting(f) <=> \E q \in FileCalls : chain[q].file = f /\ chain[q].pc \in DeletePcs
  BY DEF Deleting, DeletePcs
<1>3. \A f : Deleting(f)' <=> \E q \in FileCalls : chain'[q].file = f /\ chain'[q].pc \in DeletePcs
  BY DEF Deleting, DeletePcs
<1>4. \A f : Holders(f)' = {q \in Chains : chain'[q].file = f /\ chain'[q].pc \in HoldingPcs}
  BY DEF Holders, HoldingPcs
<1>5. \A f : Holders(f) = {q \in Chains : chain[q].file = f /\ chain[q].pc \in HoldingPcs}
  BY DEF Holders, HoldingPcs
<1>6. \A q \in FileCalls : chain'[q].pc \in {"put", "create"} =>
          chain'[q].file \notin filesByUser' \cup deletedFiles'
  <2> SUFFICES ASSUME NEW q \in FileCalls, chain'[q].pc \in {"put", "create"}
               PROVE  chain'[q].file \notin filesByUser' \cup deletedFiles'
    OBVIOUS
  <2>1. CASE q = p
    BY <2>1 DEF Turned
  <2>2. CASE q # p
    BY <1>1, <2>2 DEF CleanInv
  <2> QED
    BY <2>1, <2>2
<1>7. cleanDeletes' \subseteq deletedFiles'
  <2> SUFFICES ASSUME NEW f \in cleanDeletes', f \notin cleanDeletes PROVE f \in deletedFiles'
    BY DEF CleanInv
  <2>1. Deleting(f)'
    BY DEF CleanDeletes
  <2> QED
    BY <1>3, <2>1 DEF WellInv, FilesWell
<1>8. ASSUME NEW f \in cleanDeletes', f \in cleanDeletes, ~Deleting(f)
      PROVE  /\ Holders(f)' = {} /\ Gone(f)' /\ ~Deleting(f)'
  <2>1. f \in FileIds /\ Holders(f) = {} /\ Gone(f)
    BY <1>8 DEF CleanInv, WellInv, FilesWell
  <2>2. Gone(f)'
    BY <2>1 DEF Gone
  <2>3. Holders(f)' = {}
    <3> SUFFICES ASSUME NEW q \in Chains, chain'[q].file = f, chain'[q].pc \in HoldingPcs PROVE FALSE
      BY <1>4
    <3>1. CASE q = p
      BY <1>8, <2>1, <3>1 DEF Turned, Gone
    <3>2. CASE q # p /\ chain'[q] = chain[q]
      BY <1>5, <2>1, <3>2
    <3>3. CASE chain'[q].pc = "sync"
      BY <3>3 DEF HoldingPcs
    <3> QED
      BY <3>1, <3>2, <3>3 DEF Turned, Others
  <2>4. ~Deleting(f)'
    <3> SUFFICES ASSUME NEW q \in FileCalls, chain'[q].file = f, chain'[q].pc \in DeletePcs PROVE FALSE
      BY <1>3
    <3>1. CASE q = p
      BY <1>2, <1>8, <2>1, <3>1 DEF Turned, Gone
    <3>2. CASE q # p
      BY <1>1, <1>2, <1>8, <3>2
    <3> QED
      BY <3>1, <3>2
  <2> QED
    BY <2>2, <2>3, <2>4
<1>9. ASSUME NEW f \in cleanDeletes', f \notin cleanDeletes \/ Deleting(f)
      PROVE  /\ Holders(f)' = {}
             /\ ~Deleting(f)' => Gone(f)'
             /\ \A q \in FileCalls : chain'[q].file = f =>
                   /\ chain'[q].pc \in {"unlistUser", "unlistJob"} => fileData'[f] = NoRecord
                   /\ chain'[q].pc = "unlistJob" => f \notin filesByUser'
  <2>1. Holders(f)' = {} /\ f \in FileIds
    BY <1>9 DEF CleanDeletes
  <2>2. CASE f \notin cleanDeletes
    <3>1. Deleting(f)' /\ ~Deleting(f)
      BY <2>2 DEF CleanDeletes
    <3>2. ASSUME NEW q \in FileCalls, chain'[q].file = f, chain'[q].pc \in DeletePcs
          PROVE  chain'[q].pc = "unlink"
      <4>1. q = p
        BY <1>1, <1>2, <3>1, <3>2
      <4> QED
        BY <1>2, <3>1, <3>2, <4>1 DEF Turned
    <3>3. \A q \in FileCalls : chain'[q].file = f => chain'[q].pc \notin {"unlistUser", "unlistJob"}
      BY <3>2 DEF DeletePcs
    <3> QED
      BY <2>1, <3>1, <3>3
  <2>3. CASE f \in cleanDeletes /\ Deleting(f)
    <3>1. Holders(f) = {}
      BY <2>3 DEF CleanInv
    <3>2. fileData[f] = NoRecord => fileData'[f] = NoRecord
      BY <2>1, <3>1
    <3>3. f \notin filesByUser => f \notin filesByUser'
      BY <3>1
    <3>4. \A q \in FileCalls : chain[q].file = f =>
             /\ chain[q].pc \in {"unlistUser", "unlistJob"} => fileData[f] = NoRecord
             /\ chain[q].pc = "unlistJob" => f \notin filesByUser
      BY <2>3 DEF CleanInv
    <3>5. ASSUME NEW q \in FileCalls, chain'[q].file = f
          PROVE  /\ chain'[q].pc \in {"unlistUser", "unlistJob"} => fileData'[f] = NoRecord
                 /\ chain'[q].pc = "unlistJob" => f \notin filesByUser'
      <4>1. CASE q # p
        BY <1>1, <3>2, <3>3, <3>4, <3>5, <4>1
      <4>2. CASE q = p
        BY <3>2, <3>3, <3>4, <3>5, <4>2 DEF Turned
      <4> QED
        BY <4>1, <4>2
    <3>6. ASSUME ~Deleting(f)' PROVE Gone(f)'
      <4>1. PICK q \in FileCalls : chain[q].file = f /\ chain[q].pc \in DeletePcs
        BY <1>2, <2>3
      <4>2. q = p
        BY <1>1, <1>3, <3>6, <4>1
      <4>3. file = f => pc \notin DeletePcs
        BY <1>3, <3>6, <4>1, <4>2 DEF Turned
      <4>4. pc \notin DeletePcs
        <5> SUFFICES ASSUME pc \in DeletePcs, file # f PROVE FALSE
          BY <4>3
        <5> QED
          BY <4>1, <4>2 DEF DeletePcs
      <4>5. chain[p].pc = "unlistJob" /\ f \notin filesByJob'
        BY <4>1, <4>2, <4>4
      <4>6. fileData'[f] = NoRecord /\ f \notin filesByUser'
        BY <3>2, <3>3, <3>4, <4>1, <4>2, <4>5
      <4> QED
        BY <4>5, <4>6 DEF Gone
    <3> QED
      BY <2>1, <3>5, <3>6
  <2> QED
    BY <1>9, <2>2, <2>3
<1>10. ASSUME NEW f \in cleanDeletes'
       PROVE  /\ Holders(f)' = {}
              /\ ~Deleting(f)' => Gone(f)'
              /\ \A q \in FileCalls : chain'[q].file = f =>
                    /\ chain'[q].pc \in {"unlistUser", "unlistJob"} => fileData'[f] = NoRecord
                    /\ chain'[q].pc = "unlistJob" => f \notin filesByUser'
  <2>1. CASE f \in cleanDeletes /\ ~Deleting(f)
    <3>1. Holders(f)' = {} /\ Gone(f)' /\ ~Deleting(f)'
      BY <1>8, <2>1
    <3>2. \A q \in FileCalls : chain'[q].file = f => chain'[q].pc \notin {"unlistUser", "unlistJob"}
      BY <1>3, <3>1 DEF DeletePcs
    <3> QED
      BY <3>1, <3>2
  <2>2. CASE f \notin cleanDeletes \/ Deleting(f)
    BY <1>9, <2>2
  <2> QED
    BY <2>1, <2>2
<1> QED
  BY <1>6, <1>7, <1>10 DEF CleanInv

FInv == WellInv /\ SendInv /\ KeptInv /\ CleanInv

\* A call that stores, or deletes, has a file.
LEMMA CallFile ==
    ASSUME WellInv, NEW p \in FileCalls
    PROVE  /\ chain[p].pc # "rest" => chain[p].file \in fileIds /\ chain[p].file \in FileIds
           /\ chain[p].file \in fileIds \cup {NoFile} /\ p \in Chains
           /\ May(p, chain[p].pc, chain[p].file, chain[p].name, chain[p].rec, chain[p].plan, fileIds)
<1>1. p \in Chains /\ p \notin FileSweeps /\ chain[p].pc # "sweep"
  BY Kinds DEF WellInv, ChainsFit, Fits, May, StorePcs, MakePcs, UsePcs
<1>2. May(p, chain[p].pc, chain[p].file, chain[p].name, chain[p].rec, chain[p].plan, fileIds)
  BY <1>1 DEF WellInv, ChainsFit, Fits
<1>3. fileIds \subseteq FileIds
  BY DEF WellInv, FilesWell
<1> QED
  BY <1>1, <1>2, <1>3 DEF May

\* A call that may still send has a file.
LEMMA ToSendFiles ==
    ASSUME WellInv
    PROVE  \A q \in FileCalls : chain[q].pc \in ToSend => chain[q].file \in FileIds
BY CallFile DEF ToSend

\* The part of WellInv about the chains.
LEMMA WellChains == ASSUME WellInv PROVE ChainsFit
BY DEF WellInv

\* KeptInv, when a store begins with a new identifier.
LEMMA KeptByStart ==
    ASSUME WellInv, KeptInv, NEW p \in FileCalls, NEW pc \in {"put", "create"}, NEW f \in FileIds \ fileIds,
           NEW n \in FileNames, NEW plan, Turns(p, pc, f, n, NoRecord, plan),
           UNCHANGED <<fileData, disk, unlinked, deletedFiles, reported>>, canister \subseteq canister'
    PROVE  KeptInv'
<1>1. \A q \in Chains : q # p => chain'[q] = chain[q]
  BY DEF Turns
<1>2. \A q \in FileCalls : q # p => (Storing(q)' <=> Storing(q)) /\ LocalName(q)' = LocalName(q)
  BY <1>1, Kinds DEF Storing, LocalName
<1>3. p \in Chains /\ f # NoFile
  BY Kinds, FilesAssumption
<1>4. \A q \in Chains : q # p => chain[q].file # f
  BY <1>3 DEF WellInv, ChainsFit, Fits, May
<1>5. chain'[p].file = f /\ chain'[p].pc = pc
  BY DEF Turns
<1>6. \A e \in reported : e[1] # f
  BY DEF WellInv, FilesWell
<1>7. StoresAlone'
  <2> SUFFICES ASSUME NEW q \in FileCalls, Storing(q)'
               PROVE  /\ \A e \in reported : e[1] # chain'[q].file
                      /\ \A r \in FileCalls : Storing(r)' /\ chain'[r].file = chain'[q].file => r = q
    BY DEF StoresAlone
  <2>1. CASE q = p
    BY <1>1, <1>4, <1>5, <1>6, <2>1, Kinds
  <2>2. CASE q # p
    <3>1. Storing(q) /\ chain'[q] = chain[q]
      BY <1>1, <1>2, <2>2, Kinds
    <3>2. \A r \in FileCalls \ {p} : Storing(r)' /\ chain'[r].file = chain'[q].file => r = q
      BY <1>1, <1>2, <3>1, Kinds DEF KeptInv, StoresAlone
    <3>3. chain'[p].file # chain'[q].file
      BY <1>4, <1>5, <2>2, <3>1, Kinds
    <3> QED
      BY <3>1, <3>2, <3>3 DEF KeptInv, StoresAlone
  <2> QED
    BY <2>1, <2>2
<1>8. \A g, m : Owes(g, m)' => g = f \/ Owes(g, m)
  <2> SUFFICES ASSUME NEW g, NEW m, Owes(g, m)', g # f PROVE Owes(g, m)
    OBVIOUS
  <2>1. CASE <<g, m>> \in reported'
    BY <2>1 DEF Owes
  <2>2. CASE \E q \in FileCalls : Storing(q)' /\ chain'[q].file = g /\ LocalName(q)' = m
    <3>1. PICK q \in FileCalls : Storing(q)' /\ chain'[q].file = g /\ LocalName(q)' = m
      BY <2>2
    <3>2. q # p
      BY <1>5, <3>1
    <3> QED
      BY <1>1, <1>2, <3>1, <3>2, Kinds DEF Owes
  <2> QED
    BY <2>1, <2>2 DEF Owes
<1>9. \A r, m : Leads(r, m) => Leads(r, m)'
  BY DEF Leads
<1>10. ASSUME NEW g \in FileIds, NEW m \in FileNames \cup {NoName}, Owes(g, m)' PROVE CopiesLead(g, m)'
  <2>0. pc \notin CopyPcs
    BY DEF CopyPcs
  <2>1. CASE g = f
    <3>1. fileData'[g] = NoRecord
      BY <2>1 DEF WellInv, FilesWell
    <3>2. \A q \in Chains : chain'[q].file = g => q = p
      BY <1>1, <1>4, <2>1
    <3> QED
      BY <1>5, <2>0, <3>1, <3>2 DEF CopiesLead
  <2>2. CASE g # f
    <3>1. CopiesLead(g, m)
      BY <1>8, <1>10, <2>2 DEF KeptInv
    <3>2. fileData'[g] # NoRecord => Leads(fileData[g], m)'
      BY <1>9, <3>1 DEF CopiesLead
    <3>3. ASSUME NEW q \in Chains, chain'[q].file = g, chain'[q].pc \in CopyPcs
          PROVE  Leads(chain[q].rec, m)'
      <4>1. q # p
        BY <1>5, <2>2, <3>3
      <4> QED
        BY <1>1, <1>9, <3>1, <3>3, <4>1 DEF CopiesLead
    <3> QED
      BY <3>2, <3>3 DEF CopiesLead
  <2> QED
    BY <2>1, <2>2
<1>11. /\ \A q \in FileCalls : chain'[q].pc = "announce" => chain'[q].name \in canister'
       /\ \A q \in FileCalls :
            chain'[q].pc \in {"hash", "dual", "strategy", "stamp"} /\ chain'[q].plan # "canister" =>
              chain'[q].name \in disk' \cup unlinked'
  <2> SUFFICES ASSUME NEW q \in FileCalls
        PROVE  /\ chain'[q].pc = "announce" => chain'[q].name \in canister'
               /\ chain'[q].pc \in {"hash", "dual", "strategy", "stamp"} /\ chain'[q].plan # "canister" =>
                    chain'[q].name \in disk' \cup unlinked'
    OBVIOUS
  <2>1. CASE q = p
    BY <1>5, <2>1
  <2>2. CASE q # p
    BY <1>1, <2>2, Kinds DEF KeptInv
  <2> QED
    BY <2>1, <2>2
<1>12. \A q \in FileCalls :
          chain'[q].pc \in StorePcs \ {"put", "announce", "create"} /\ chain'[q].file \notin deletedFiles' =>
              fileData'[chain'[q].file] # NoRecord
  <2> SUFFICES ASSUME NEW q \in FileCalls, chain'[q].file \notin deletedFiles',
                      chain'[q].pc \in StorePcs \ {"put", "announce", "create"}
               PROVE  fileData'[chain'[q].file] # NoRecord
    OBVIOUS
  <2>1. q # p
    BY <1>5
  <2> QED
    BY <1>1, <2>1, Kinds DEF KeptInv
<1> QED
  BY <1>7, <1>10, <1>11, <1>12 DEF KeptInv

\* A call that is not amid a delete begins a store, and nothing is sent.
LEMMA StartStep ==
    ASSUME FInv, cleanDeletes' = CleanDeletes, NEW p \in FileCalls, NEW n \in FileNames,
           NEW plan \in {"upload", "plain", "local", "canister", "dual"}, Starts(p, n, plan),
           chain[p].pc \notin DeletePcs, canister \subseteq canister', canister' \subseteq FileNames,
           attempts' = attempts => syncQueue' = syncQueue,
           attempts' # attempts => SendInv',
           UNCHANGED <<fileData, filesByUser, filesByJob, disk, syncQueue, reported, unlinked,
                       deletedFiles, fileUses, fileCrashes>>
    PROVE  FInv'
<1> DEFINE pc == IF plan = "canister" THEN "put" ELSE "create"
<1>0. p \in Chains /\ plan \in Plans /\ ChainsFit
  BY Kinds, WellChains DEF Plans, FInv
<1>1. PICK f \in FileIds \ fileIds :
         fileIds' = fileIds \cup {f} /\ Turns(p, pc, f, n, NoRecord, plan)
  BY <1>0, StartsTurns
<1>2. May(p, pc, f, n, NoRecord, plan, fileIds')
  BY <1>1, Kinds DEF May, StorePcs, MakePcs, CopyPcs, SyncPcs
<1>3. pc \in {"put", "create"}
  OBVIOUS
<1> HIDE DEF pc
<1>4. ChainsFit'
  BY <1>0, <1>1, <1>2, TurnsFit
<1>5. WellInv'
  <2>1. ASSUME NEW q \in FileCalls, chain'[q].pc \in DeletePcs PROVE chain'[q].file \in deletedFiles'
    <3>1. q # p
      BY <1>1, <1>3, <2>1 DEF Turns, DeletePcs
    <3> QED
      BY <1>1, <2>1, <3>1, Kinds DEF Turns, FInv, WellInv, FilesWell
  <2>2. FilesWell'
    BY <1>1, <2>1 DEF FInv, WellInv, FilesWell
  <2> QED
    BY <1>4, <2>2 DEF WellInv
<1>6. SendInv'
  <2>1. CASE attempts' = attempts
    BY <1>1, <2>1, SendByStart, ToSendFiles DEF FInv
  <2> QED
    BY <2>1
<1>7. KeptInv'
  BY <1>1, <1>3, KeptByStart DEF FInv
<1>8. CleanStep(p, pc, f, n, NoRecord, plan)
  <2>1. f \notin cleanDeletes /\ f \notin filesByUser \cup deletedFiles
    BY DEF FInv, CleanInv, WellInv, FilesWell
  <2> QED
    BY <1>3, <2>1 DEF CleanStep, DeletePcs
<1>9. CleanInv'
  BY <1>0, <1>1, <1>5, <1>8, CleanByTurn, TurnsTurned DEF FInv
<1> QED
  BY <1>5, <1>6, <1>7, <1>9 DEF FInv

\* createFile, createFileFromJobResult: a store begins.
LEMMA StoreFileStep ==
    ASSUME FInv, cleanDeletes' = CleanDeletes, NEW p \in FileCalls, StoreFile(p)
    PROVE  FInv'
<1>1. PICK n \in FileNames, plan \in FilePlans : Starts(p, n, plan)
  BY DEF StoreFile
<1>2. plan \in {"upload", "plain", "local", "canister", "dual"}
  BY DEF FilePlans
<1>3. chain[p].pc \notin DeletePcs
  BY DEF StoreFile, At, DeletePcs
<1>4. canister' = canister /\ attempts' = attempts /\ canister' \subseteq FileNames
  BY DEF StoreFile, fileStores, FInv, WellInv, FilesWell
<1>5. UNCHANGED <<fileData, filesByUser, filesByJob, disk, syncQueue, reported, unlinked,
                  deletedFiles, fileUses, fileCrashes>>
  BY DEF StoreFile, fileStores
<1> QED
  BY <1>1, <1>2, <1>3, <1>4, <1>5, StartStep

\* What a step of a call may do to the stores.
WellStep(pc, file) ==
    /\ fileData' \in [FileIds -> FileRecords \cup {NoRecord}]
    /\ \A g \in FileIds : g \notin fileIds => fileData'[g] = NoRecord
    /\ filesByUser' \subseteq fileIds /\ filesByJob' \subseteq fileIds
    /\ disk' \subseteq FileNames /\ canister' \subseteq FileNames
    /\ reported' \subseteq fileIds \X (FileNames \cup {NoName})
    /\ unlinked' \subseteq FileNames \cup {NoName}
    /\ deletedFiles \subseteq deletedFiles' /\ deletedFiles' \subseteq fileIds
    /\ fileUses' \in 0 .. FileUses
    /\ pc \in DeletePcs => file \in deletedFiles'

\* WellInv, when a call goes on with the identifiers there are.
LEMMA WellByCall ==
    ASSUME WellInv, NEW p \in FileCalls, NEW pc, NEW file, NEW name, NEW rec, NEW plan,
           Turns(p, pc, file, name, rec, plan), May(p, pc, file, name, rec, plan, fileIds),
           fileIds' = fileIds, fileCrashes' = fileCrashes, WellStep(pc, file)
    PROVE  WellInv'
<1>1. ChainsFit'
  BY Kinds, WellChains, TurnsFit
<1>2. \A q \in FileCalls : chain'[q].pc \in DeletePcs => chain'[q].file \in deletedFiles'
  <2> SUFFICES ASSUME NEW q \in FileCalls, chain'[q].pc \in DeletePcs PROVE chain'[q].file \in deletedFiles'
    OBVIOUS
  <2>1. CASE q = p
    BY <2>1 DEF Turns, WellStep
  <2>2. CASE q # p
    BY <2>2, Kinds DEF Turns, WellStep, WellInv, FilesWell
  <2> QED
    BY <2>1, <2>2
<1>3. FilesWell'
  BY <1>2 DEF WellInv, FilesWell, WellStep
<1> QED
  BY <1>1, <1>3 DEF WellInv

\* A step of a call that sends nothing and takes no new identifier.
LEMMA CallGoesOn ==
    ASSUME FInv, cleanDeletes' = CleanDeletes, NEW p \in FileCalls,
           NEW pc, NEW file, NEW name, NEW rec, NEW plan,
           Turns(p, pc, file, name, rec, plan), May(p, pc, file, name, rec, plan, fileIds),
           attempts' = attempts, syncQueue' = syncQueue, fileIds' = fileIds,
           pc \in ToSend => chain[p].pc \in ToSend /\ file = chain[p].file,
           WellStep(pc, file), KeptStep(p, pc, file, name, rec, plan),
           CleanStep(p, pc, file, name, rec, plan)
    PROVE  FInv'
<1>0. p \in Chains /\ WellInv /\ SendInv /\ KeptInv /\ CleanInv /\ fileCrashes' = fileCrashes
  BY Kinds DEF FInv, CleanStep
<1>1. WellInv'
  BY <1>0, WellByCall
<1>2. SendInv'
  BY <1>0, SendByCall, ToSendFiles
<1>3. Turned(p, pc, file, name, rec, plan)
  BY TurnsTurned
<1>4. KeptInv'
  BY <1>0, <1>3, KeptByTurn
<1>5. CleanInv'
  BY <1>0, <1>1, <1>3, CleanByTurn
<1> QED
  BY <1>1, <1>2, <1>4, <1>5 DEF FInv

\* What FInv says of a call's file while its store is under way.
LEMMA StoreFacts ==
    ASSUME FInv, NEW p \in FileCalls, Storing(p)
    PROVE  /\ chain[p].file \in fileIds /\ chain[p].file \in FileIds /\ chain[p].name \in FileNames
           /\ \A n : Owes(chain[p].file, n) => n = LocalName(p)
           /\ \A q \in FileCalls : q # p /\ Storing(q) => chain[q].file # chain[p].file
           /\ \A q \in FileCalls : q # p /\ chain[q].pc \in {"put", "create"} => chain[q].file # chain[p].file
           /\ May(p, chain[p].pc, chain[p].file, chain[p].name, chain[p].rec, chain[p].plan, fileIds)
           /\ fileData \in [FileIds -> FileRecords \cup {NoRecord}]
           /\ LocalName(p) \in FileNames \cup {NoName}
<1>1. chain[p].pc # "rest"
  BY DEF Storing, StorePcs, MakePcs
<1>2. \A n : Owes(chain[p].file, n) => n = LocalName(p)
  BY OwedByStore DEF FInv, KeptInv
<1>3. \A q \in FileCalls : q # p /\ Storing(q) => chain[q].file # chain[p].file
  BY DEF FInv, KeptInv, StoresAlone
<1>4. \A q \in FileCalls : chain[q].pc \in {"put", "create"} => Storing(q)
  BY DEF Storing, StorePcs, MakePcs
<1>5. May(p, chain[p].pc, chain[p].file, chain[p].name, chain[p].rec, chain[p].plan, fileIds)
  BY CallFile DEF FInv
<1>6. chain[p].name \in FileNames
  BY <1>5 DEF May, Storing
<1>7. chain[p].file \in fileIds /\ chain[p].file \in FileIds
  BY <1>1, CallFile DEF FInv
<1>8. LocalName(p) \in FileNames \cup {NoName}
  BY <1>6 DEF LocalName
<1> QED
  BY <1>2, <1>3, <1>4, <1>5, <1>6, <1>7, <1>8 DEF FInv, WellInv, FilesWell

\* The stores stay as they are but for the record of one file.
LEMMA WellSame ==
    ASSUME WellInv
    PROVE  /\ fileData \in [FileIds -> FileRecords \cup {NoRecord}]
           /\ \A g \in FileIds : g \notin fileIds => fileData[g] = NoRecord
           /\ filesByUser \subseteq fileIds /\ filesByJob \subseteq fileIds
           /\ disk \subseteq FileNames /\ canister \subseteq FileNames
           /\ reported \subseteq fileIds \X (FileNames \cup {NoName})
           /\ unlinked \subseteq FileNames \cup {NoName}
           /\ deletedFiles \subseteq fileIds /\ fileIds \subseteq FileIds
           /\ fileUses \in 0 .. FileUses
BY DEF WellInv, FilesWell

\* The chain of a call holds the record it makes.
LEMMA MakingHolds ==
    ASSUME NEW p \in FileCalls, chain[p].pc \in HoldingPcs
    PROVE  p \in Holders(chain[p].file)
BY Kinds DEF Holders, HoldingPcs

-----------------------------------------------------------------------------
\* createFile: the record, then the listings.
LEMMA CreateFileStep ==
    ASSUME FInv, cleanDeletes' = CleanDeletes, NEW p \in FileCalls, CreateFile(p),
           UNCHANGED <<disk, canister, fileIds, reported, syncQueue, unlinked, deletedFiles,
                       attempts, fileUses, fileCrashes>>
    PROVE  FInv'
<1> DEFINE f == chain[p].file
           n == chain[p].name
<1>0. chain[p].pc \in {"create", "listUser", "listJob"}
  BY DEF CreateFile, At
<1>1. Storing(p) /\ p \in Chains /\ ChainsFit /\ p \in Holders(f)
  BY <1>0, Kinds, MakingHolds, WellChains DEF Storing, StorePcs, MakePcs, HoldingPcs, FInv
<1>2. chain[p].plan \in {"upload", "plain", "local", "dual"} /\ LocalName(p) = n
  BY <1>0, <1>1, StoreFacts DEF May, MakePcs, LocalName
<1>3. \A m : Owes(f, m) => m = n
  BY <1>1, <1>2, StoreFacts
<1>4. f \in fileIds /\ f \in FileIds /\ n \in FileNames /\ n # NoName
  BY <1>1, StoreFacts, FilesAssumption
<1>5. ASSUME NEW pc \in {"listUser", "listJob", "write"}
      PROVE  May(p, pc, f, n, chain[p].rec, chain[p].plan, fileIds)
  BY <1>2, <1>4, <1>5, Kinds DEF May, StorePcs, MakePcs, CopyPcs, SyncPcs
<1>6. CASE chain[p].pc = "create"
  <2>1. /\ fileData' = [fileData EXCEPT ![f] = PlainRecord(n)] /\ Goes(p, "listUser")
        /\ filesByUser' = filesByUser /\ filesByJob' = filesByJob
    BY <1>6 DEF CreateFile, At
  <2>2. Stays(p, "listUser")
    BY <1>1, <2>1, GoesTurns DEF AllPcs, StorePcs, MakePcs
  <2>3. PlainRecord(n) \in FileRecords /\ PlainRecord(n).path = n /\ PlainRecord(n) # NoRecord
    BY <1>4, MadeRecords, RecordFields
  <2>4. WellStep("listUser", f)
    BY <1>4, <2>1, <2>3, WellSame DEF FInv, WellStep, DeletePcs
  <2>6. fileData'[f] = PlainRecord(n) /\ \A g \in FileIds : g # f => fileData'[g] = fileData[g]
    BY <1>4, <2>1, WellSame DEF FInv
  <2>7. KeptStep(p, "listUser", f, n, chain[p].rec, chain[p].plan)
    <3>1. \A g \in FileIds : \A m : fileData'[g] # NoRecord /\ fileData'[g] # fileData[g] /\ Owes(g, m) =>
             Leads(fileData[g], m)'
      <4> SUFFICES ASSUME NEW g \in FileIds, NEW m, fileData'[g] # fileData[g], Owes(g, m)
                   PROVE  Leads(fileData[g], m)'
        OBVIOUS
      <4>1. g = f
        BY <2>6
      <4>2. m # NoName
        BY <1>3, <1>4, <4>1
      <4>3. fileData'[g].path # NoName
        BY <1>4, <2>3, <2>6, <4>1
      <4> QED
        BY <4>2, <4>3 DEF Leads
    <3> QED
      BY <1>1, <1>2, <2>3, <2>6, <3>1 DEF KeptStep, LocalName, CopyPcs
  <2>8. CleanStep(p, "listUser", f, n, chain[p].rec, chain[p].plan)
    BY <1>1, <1>6, <2>1, <2>6 DEF CleanStep, DeletePcs, HoldingPcs
  <2> QED
    BY <1>5, <1>6, <2>2, <2>4, <2>7, <2>8, CallGoesOn DEF Stays, ToSend
<1>7. CASE chain[p].pc = "listUser"
  <2>1. /\ fileData' = fileData /\ Goes(p, "listJob")
        /\ filesByUser' = filesByUser \cup {f} /\ filesByJob' = filesByJob
    BY <1>7 DEF CreateFile, At
  <2>2. Stays(p, "listJob")
    BY <1>1, <2>1, GoesTurns DEF AllPcs, StorePcs, MakePcs
  <2>4. WellStep("listJob", f)
    BY <1>4, <2>1, WellSame DEF FInv, WellStep, DeletePcs
  <2>5. f \notin deletedFiles => fileData[f] # NoRecord
    BY <1>7 DEF FInv, KeptInv, StorePcs, MakePcs
  <2>7. KeptStep(p, "listJob", f, n, chain[p].rec, chain[p].plan)
    BY <1>1, <1>2, <2>1, <2>5 DEF KeptStep, LocalName, CopyPcs
  <2>8. CleanStep(p, "listJob", f, n, chain[p].rec, chain[p].plan)
    BY <1>1, <1>7, <2>1, StoreFacts DEF CleanStep, DeletePcs, HoldingPcs
  <2> QED
    BY <1>5, <1>7, <2>2, <2>4, <2>7, <2>8, CallGoesOn DEF Stays, ToSend
<1>8. CASE chain[p].pc = "listJob"
  <2>1. /\ fileData' = fileData /\ Goes(p, "write")
        /\ filesByUser' = filesByUser /\ filesByJob' = filesByJob \cup {f}
    BY <1>8 DEF CreateFile, At
  <2>2. Stays(p, "write")
    BY <1>1, <2>1, GoesTurns DEF AllPcs, StorePcs, MakePcs
  <2>4. WellStep("write", f)
    BY <1>4, <2>1, WellSame DEF FInv, WellStep, DeletePcs
  <2>5. f \notin deletedFiles => fileData[f] # NoRecord
    BY <1>8 DEF FInv, KeptInv, StorePcs, MakePcs
  <2>7. KeptStep(p, "write", f, n, chain[p].rec, chain[p].plan)
    BY <1>1, <1>2, <2>1, <2>5 DEF KeptStep, LocalName, CopyPcs
  <2>8. CleanStep(p, "write", f, n, chain[p].rec, chain[p].plan)
    BY <1>1, <1>8, <2>1 DEF CleanStep, DeletePcs, HoldingPcs
  <2> QED
    BY <1>5, <1>8, <2>2, <2>4, <2>7, <2>8, CallGoesOn DEF Stays, ToSend
<1> QED
  BY <1>0, <1>6, <1>7, <1>8

\* A call under way, from the pc it has on.
LEMMA WriteFacts ==
    ASSUME FInv, NEW p \in FileCalls, chain[p].pc = "write"
    PROVE  /\ Storing(p) /\ p \in Chains /\ ChainsFit
           /\ chain[p].plan \in {"upload", "plain", "local", "dual"} /\ LocalName(p) = chain[p].name
           /\ chain[p].file \in fileIds /\ chain[p].file \in FileIds
           /\ chain[p].name \in FileNames /\ chain[p].name # NoName
           /\ chain[p].file \notin deletedFiles => fileData[chain[p].file] # NoRecord
<1>1. Storing(p) /\ p \in Chains /\ ChainsFit
  BY Kinds, WellChains DEF FInv, Storing, StorePcs, MakePcs
<1>2. chain[p].plan \in {"upload", "plain", "local", "dual"} /\ LocalName(p) = chain[p].name
  BY <1>1, StoreFacts DEF May, MakePcs, LocalName
<1>3. chain[p].file \notin deletedFiles => fileData[chain[p].file] # NoRecord
  BY DEF FInv, KeptInv, StorePcs, MakePcs
<1> QED
  BY <1>1, <1>2, <1>3, StoreFacts, FilesAssumption

\* The content is on the disk, and the store ends or goes on.
LEMMA WrittenStep ==
    ASSUME FInv, cleanDeletes' = CleanDeletes, NEW p \in FileCalls, chain[p].pc = "write",
           Written(p), chain[p].plan # "dual",
           UNCHANGED <<fileData, filesByUser, filesByJob, canister, syncQueue, unlinked, deletedFiles,
                       attempts, fileUses, fileCrashes>>
    PROVE  FInv'
<1> DEFINE f == chain[p].file
           n == chain[p].name
<1>1. /\ Storing(p) /\ p \in Chains /\ ChainsFit
      /\ chain[p].plan \in {"upload", "plain", "local"} /\ LocalName(p) = n
      /\ f \in fileIds /\ f \in FileIds /\ n \in FileNames /\ n # NoName
      /\ f \notin deletedFiles => fileData[f] # NoRecord
  BY WriteFacts
<1>2. disk' = disk \cup {n} /\ fileIds' = fileIds
  BY DEF Written
<1>3. CASE chain[p].plan = "upload"
  <2>1. Ends(p) /\ reported' = reported \cup {<<f, n>>}
    BY <1>1, <1>3 DEF Written
  <2>2. Rests(p)
    BY <1>1, <2>1, EndsTurns
  <2>3. May(p, "rest", NoFile, NoName, NoRecord, "none", fileIds)
    BY Kinds DEF May, StorePcs, MakePcs, CopyPcs, SyncPcs
  <2>4. WellStep("rest", NoFile)
    BY <1>1, <1>2, <2>1, WellSame DEF FInv, WellStep, DeletePcs
  <2>5. KeptStep(p, "rest", NoFile, NoName, NoRecord, "none")
    BY <1>1, <1>2, <2>1 DEF KeptStep, CopyPcs, StorePcs, MakePcs
  <2>6. CleanStep(p, "rest", NoFile, NoName, NoRecord, "none")
    BY <1>1 DEF CleanStep, DeletePcs, HoldingPcs
  <2> QED
    BY <1>2, <2>2, <2>3, <2>4, <2>5, <2>6, CallGoesOn DEF Rests, ToSend
<1>4. ASSUME NEW pc \in {"strategy", "hash"}, Goes(p, pc), reported' = reported,
             pc = "strategy" => chain[p].plan = "local", pc = "hash" => chain[p].plan = "plain"
      PROVE  FInv'
  <2>1. pc \in StorePcs /\ pc \in AllPcs /\ pc \notin ToSend /\ pc \notin DeletePcs /\ pc \notin CopyPcs
    BY <1>4 DEF AllPcs, StorePcs, MakePcs, ToSend, DeletePcs, CopyPcs
  <2>2. Stays(p, pc)
    BY <1>1, <1>4, <2>1, GoesTurns
  <2>3. May(p, pc, f, n, chain[p].rec, chain[p].plan, fileIds)
    BY <1>1, <1>4, <2>1, Kinds DEF May, StorePcs, MakePcs, SyncPcs
  <2>4. WellStep(pc, f)
    BY <1>1, <1>2, <1>4, <2>1, WellSame DEF FInv, WellStep
  <2>5. KeptStep(p, pc, f, n, chain[p].rec, chain[p].plan)
    BY <1>1, <1>2, <1>4, <2>1 DEF KeptStep, LocalName
  <2>6. p \in Holders(f)
    BY MakingHolds DEF HoldingPcs
  <2>7. CleanStep(p, pc, f, n, chain[p].rec, chain[p].plan)
    BY <1>4, <2>1, <2>6 DEF CleanStep, DeletePcs
  <2> QED
    BY <1>2, <2>1, <2>2, <2>3, <2>4, <2>5, <2>7, CallGoesOn DEF Stays
<1>5. CASE chain[p].plan = "local"
  <2>1. Goes(p, "strategy") /\ reported' = reported
    BY <1>5 DEF Written
  <2> QED
    BY <1>4, <1>5, <2>1
<1>6. CASE chain[p].plan = "plain"
  <2>1. Goes(p, "hash") /\ reported' = reported
    BY <1>6 DEF Written
  <2> QED
    BY <1>4, <1>6, <2>1
<1> QED
  BY <1>1, <1>3, <1>5, <1>6

\* storeDually goes on, and the synchronisation of its file begins.
LEMMA WrittenDually ==
    ASSUME FInv, cleanDeletes' = CleanDeletes, NEW p \in FileCalls, chain[p].pc = "write",
           Written(p), chain[p].plan = "dual",
           UNCHANGED <<fileData, filesByUser, filesByJob, canister, syncQueue, unlinked, deletedFiles,
                       attempts, fileUses, fileCrashes>>
    PROVE  FInv'
<1>0. PICK f : f = chain[p].file
  OBVIOUS
<1>00. PICK n : n = chain[p].name
  OBVIOUS
<1>1. /\ Storing(p) /\ p \in Chains /\ ChainsFit /\ LocalName(p) = n
      /\ f \in fileIds /\ f \in FileIds /\ f \in Chains /\ n \in FileNames /\ n # NoName /\ f # p
      /\ f \notin deletedFiles => fileData[f] # NoRecord
  BY <1>0, <1>00, WriteFacts, Kinds
<1> DEFINE d == [AtRest EXCEPT !.pc = "sync", !.file = f, !.name = n]
<1>2. /\ disk' = disk \cup {n} /\ fileIds' = fileIds /\ reported' = reported
      /\ chain' = [[chain EXCEPT ![p].pc = "dual"] EXCEPT ![f] = d]
  BY <1>0, <1>00 DEF Written
<1>3. /\ d \in ChainRecords /\ d.pc = "sync" /\ d.file = f /\ d.name = n /\ d.rec = NoRecord
      /\ d.plan = "none"
  BY <1>1, AtRestFields DEF AtRest, ChainRecords
<1> HIDE DEF d
<1>4. /\ DOMAIN chain' = Chains /\ chain'[p] = [chain[p] EXCEPT !.pc = "dual"] /\ chain'[f] = d
      /\ \A q \in Chains : q # p /\ q # f => chain'[q] = chain[q]
  BY <1>1, <1>2 DEF ChainsFit
<1>5. /\ chain'[p] \in ChainRecords /\ chain'[p].pc = "dual" /\ chain'[p].file = f
      /\ chain'[p].name = n /\ chain'[p].rec = chain[p].rec /\ chain'[p].plan = "dual"
  <2>1. chain[p] \in ChainRecords
    BY <1>1, ChainIs
  <2> QED
    BY <1>0, <1>00, <1>4, <2>1 DEF ChainRecords, StorePcs
<1>6. Unsent(f) /\ chain[f].pc = "rest"
  BY <1>0 DEF FInv, SendInv, ToSend
<1>7. Turned(p, "dual", f, n, chain[p].rec, "dual")
  BY <1>1, <1>3, <1>4, <1>5, <1>6 DEF Turned, Others
<1>8. ChainsFit'
  <2>1. Fits(p, chain'[p], fileIds)
    BY <1>1, <1>5, Kinds DEF Fits, May, StorePcs, MakePcs, CopyPcs, SyncPcs
  <2>2. Fits(f, chain'[f], fileIds)
    BY <1>1, <1>3, <1>4, Kinds DEF Fits, May, StorePcs, MakePcs, CopyPcs, SyncPcs
  <2>3. \A q \in Chains : q # p /\ q # f => Fits(q, chain'[q], fileIds)
    BY <1>1, <1>4 DEF ChainsFit
  <2> QED
    BY <1>2, <1>4, <2>1, <2>2, <2>3 DEF ChainsFit
<1>9. WellInv'
  <2>1. \A q \in FileCalls : chain'[q].pc \in DeletePcs => chain'[q].file \in deletedFiles'
    <3> SUFFICES ASSUME NEW q \in FileCalls, chain'[q].pc \in DeletePcs
                 PROVE  chain'[q].file \in deletedFiles'
      OBVIOUS
    <3>1. q # p /\ q # f
      BY <1>1, <1>5, Kinds DEF DeletePcs
    <3> QED
      BY <1>4, <3>1, Kinds DEF FInv, WellInv, FilesWell
  <2>2. FilesWell'
    BY <1>1, <1>2, <2>1, WellSame DEF FInv, WellInv, FilesWell
  <2> QED
    BY <1>8, <2>2 DEF WellInv
<1>10. SendInv'
  <2>1. \A q \in FileSweeps : chain'[q] = chain[q]
    BY <1>1, <1>4, Kinds
  <2>2. \A q \in FileIds : q # f => chain'[q] = chain[q]
    BY <1>4, Kinds
  <2>3. \A g : Resending(g)' = Resending(g)
    BY <2>1 DEF Resending
  <2>4. \A g : (Unsent(g) => Unsent(g)') /\ (SentOnce(g) => SentOnce(g)')
    BY <2>3 DEF Unsent, SentOnce
  <2>5. ASSUME NEW q \in FileCalls, chain'[q].pc \in ToSend
        PROVE  Unsent(chain[q].file)' /\ chain'[chain'[q].file].pc = "rest"
    <3>1. q # p
      BY <1>5, <2>5 DEF ToSend
    <3>2. chain'[q] = chain[q]
      BY <1>1, <1>4, <3>1, Kinds
    <3>3. PICK g : g = chain[q].file
      OBVIOUS
    <3>4. Storing(q)
      BY <2>5, <3>2 DEF Storing, ToSend, StorePcs, MakePcs
    <3>5. g # f /\ g \in FileIds
      BY <1>0, <1>1, <3>1, <3>3, <3>4, StoreFacts
    <3>6. Unsent(g) /\ chain[g].pc = "rest"
      BY <2>5, <3>2, <3>3 DEF FInv, SendInv
    <3>7. Unsent(g)' /\ chain'[g].pc = "rest"
      BY <2>2, <2>4, <3>5, <3>6
    <3> QED
      BY <3>2, <3>3, <3>7 DEF Unsent, Resending
  <2>6. \A g \in FileIds : g \notin fileIds' => Unsent(g)' /\ chain'[g].pc = "rest"
    BY <1>1, <1>2, <2>2, <2>4 DEF FInv, SendInv
  <2>7. \A g \in FileIds : chain'[g].pc = "sync" => Unsent(g)'
    <3>1. Unsent(f)'
      BY <1>6, <2>4
    <3> QED
      BY <2>2, <2>4, <3>1 DEF FInv, SendInv
  <2>8. \A g \in FileIds : chain'[g].pc \in SyncPcs /\ chain'[g].plan = "sync_failed" => SentOnce(g)'
    <3>1. chain'[f].pc \notin SyncPcs
      BY <1>3, <1>4 DEF SyncPcs
    <3> QED
      BY <2>2, <2>4, <3>1 DEF FInv, SendInv
  <2> QED
    BY <1>2, <2>3, <2>5, <2>6, <2>7, <2>8 DEF FInv, SendInv
<1>11. KeptInv'
  <2>1. KeptStep(p, "dual", f, n, chain[p].rec, "dual")
    BY <1>0, <1>1, <1>2 DEF KeptStep, CopyPcs
  <2> QED
    BY <1>1, <1>7, <2>1, KeptByTurn DEF FInv
<1>12. CleanInv'
  <2>1. p \in Holders(f)
    BY <1>0, MakingHolds DEF HoldingPcs
  <2>2. CleanStep(p, "dual", f, n, chain[p].rec, "dual")
    BY <2>1 DEF CleanStep, DeletePcs
  <2> QED
    BY <1>1, <1>7, <1>9, <2>2, CleanByTurn DEF FInv
<1> QED
  BY <1>9, <1>10, <1>11, <1>12 DEF FInv

\* A call that ends where it has nothing left to do.
LEMMA EndStep ==
    ASSUME FInv, cleanDeletes' = CleanDeletes, NEW p \in FileCalls, chain[p].pc \notin DeletePcs, Ends(p),
           UNCHANGED <<fileStores, fileIds, reported, syncQueue, unlinked, deletedFiles, attempts,
                       fileUses, fileCrashes>>
    PROVE  FInv'
<1>1. p \in Chains /\ ChainsFit
  BY Kinds, WellChains DEF FInv
<1>2. Rests(p)
  BY <1>1, EndsTurns
<1>3. May(p, "rest", NoFile, NoName, NoRecord, "none", fileIds)
  BY Kinds DEF May, StorePcs, MakePcs, CopyPcs, SyncPcs
<1>4. WellStep("rest", NoFile)
  BY WellSame DEF FInv, WellStep, DeletePcs, fileStores
<1>5. KeptStep(p, "rest", NoFile, NoName, NoRecord, "none")
  BY DEF KeptStep, CopyPcs, StorePcs, MakePcs, fileStores
<1>6. CleanStep(p, "rest", NoFile, NoName, NoRecord, "none")
  BY DEF CleanStep, DeletePcs, HoldingPcs, fileStores
<1> QED
  BY <1>2, <1>3, <1>4, <1>5, <1>6, CallGoesOn DEF Rests, ToSend

\* writeFileData, whether it succeeds or fails.
LEMMA WriteStep ==
    ASSUME FInv, cleanDeletes' = CleanDeletes, NEW p \in FileCalls, WriteFileData(p),
           UNCHANGED <<syncQueue, unlinked, deletedFiles, attempts, fileUses, fileCrashes>>
    PROVE  FInv'
<1>1. chain[p].pc = "write" /\ UNCHANGED <<fileData, filesByUser, filesByJob, canister>>
  BY DEF WriteFileData, At
<1>2. CASE Written(p)
  BY <1>1, <1>2, WrittenStep, WrittenDually
<1>3. CASE Failed(p)
  <2>1. chain[p].pc \notin DeletePcs /\ disk' = disk /\ reported' = reported
    BY <1>1, <1>3 DEF DeletePcs, Failed
  <2>2. CASE Ends(p) /\ UNCHANGED fileIds
    BY <1>1, <2>1, <2>2, EndStep DEF fileStores
  <2>3. CASE Starts(p, chain[p].name, "plain")
    <3>1. PICK n : n = chain[p].name
      OBVIOUS
    <3>2. n \in FileNames
      BY <1>1, <3>1, WriteFacts
    <3>3. Starts(p, n, "plain")
      BY <2>3, <3>1
    <3>4. canister' = canister /\ canister' \subseteq FileNames
      BY <1>1, WellSame DEF FInv
    <3> QED
      BY <1>1, <2>1, <3>2, <3>3, <3>4, StartStep
  <2> QED
    BY <1>3, <2>2, <2>3 DEF Failed
<1> QED
  BY <1>2, <1>3 DEF WriteFileData

\* The last write of a plain store.
LEMMA SetHashStep ==
    ASSUME FInv, cleanDeletes' = CleanDeletes, NEW p \in FileCalls, SetHash(p),
           UNCHANGED <<syncQueue, unlinked, deletedFiles, attempts, fileUses, fileCrashes>>
    PROVE  FInv'
<1> DEFINE f == chain[p].file
           n == chain[p].name
<1>1. /\ chain[p].pc = "hash" /\ fileData' = [fileData EXCEPT ![f] = PlainRecord(n)]
      /\ Ends(p) /\ UNCHANGED <<filesByUser, filesByJob, disk, canister, fileIds>>
  BY DEF SetHash, At
<1>2. Storing(p) /\ p \in Chains /\ ChainsFit /\ p \in Holders(f)
  BY <1>1, Kinds, MakingHolds, WellChains DEF Storing, StorePcs, MakePcs, HoldingPcs, FInv
<1>3. chain[p].plan = "plain" /\ LocalName(p) = n /\ f \in fileIds /\ f \in FileIds /\ n \in FileNames
  BY <1>1, <1>2, StoreFacts DEF May, LocalName
<1>4. \A m : Owes(f, m) => m = n
  BY <1>2, <1>3, StoreFacts
<1>5. n # NoName /\ n \in disk \cup unlinked
  BY <1>1, <1>3, FilesAssumption DEF FInv, KeptInv
<1>6. reported' = reported \cup {<<f, n>>}
  BY <1>3 DEF SetHash
<1>7. Rests(p)
  BY <1>1, <1>2, EndsTurns
<1>8. PlainRecord(n) \in FileRecords /\ PlainRecord(n).path = n /\ PlainRecord(n) # NoRecord
  BY <1>3, MadeRecords, RecordFields
<1>9. fileData'[f] = PlainRecord(n) /\ \A g \in FileIds : g # f => fileData'[g] = fileData[g]
  BY <1>1, <1>3, WellSame DEF FInv
<1>10. May(p, "rest", NoFile, NoName, NoRecord, "none", fileIds)
  BY Kinds DEF May, StorePcs, MakePcs, CopyPcs, SyncPcs
<1>11. WellStep("rest", NoFile)
  BY <1>1, <1>3, <1>6, <1>8, WellSame DEF FInv, WellStep, DeletePcs
<1>12. \A g \in FileIds : \A m : fileData'[g] # NoRecord /\ fileData'[g] # fileData[g] /\ Owes(g, m) =>
             Leads(fileData[g], m)'
  <2> SUFFICES ASSUME NEW g \in FileIds, NEW m, fileData'[g] # fileData[g], Owes(g, m)
               PROVE  Leads(fileData[g], m)'
    OBVIOUS
  <2>1. g = f
    BY <1>9
  <2>2. m # NoName
    BY <1>4, <1>5, <2>1
  <2>3. fileData'[g].path # NoName
    BY <1>5, <1>8, <1>9, <2>1
  <2> QED
    BY <2>2, <2>3 DEF Leads
<1>13. KeptStep(p, "rest", NoFile, NoName, NoRecord, "none")
  BY <1>1, <1>2, <1>3, <1>5, <1>6, <1>8, <1>9, <1>12 DEF KeptStep, CopyPcs, StorePcs, MakePcs
<1>14. CleanStep(p, "rest", NoFile, NoName, NoRecord, "none")
  BY <1>1, <1>2, <1>9 DEF CleanStep, DeletePcs, HoldingPcs
<1> QED
  BY <1>1, <1>7, <1>10, <1>11, <1>13, <1>14, CallGoesOn DEF Rests, ToSend

\* Every step of a plain store.
LEMMA StoreStepStep ==
    ASSUME FInv, cleanDeletes' = CleanDeletes, NEW p \in FileCalls, StoreStep(p)
    PROVE  FInv'
BY CreateFileStep, WriteStep, SetHashStep DEF StoreStep

\* There is at least one sweep.
LEMMA SomeSweep ==
    /\ Cardinality(FileSweeps) \in Nat /\ Cardinality(FileSweeps) >= 1 /\ FileRetries \in Nat
    /\ Cardinality({}) = 0
<1>1. IsFiniteSet(FileSweeps) /\ FileSweeps # {} /\ FileRetries \in Nat
  BY FilesAssumption
<1>2. Cardinality(FileSweeps) \in Nat /\ Cardinality(FileSweeps) # 0
  BY <1>1, FS_CardinalityType, FS_EmptySet
<1> QED
  BY <1>1, <1>2, FS_EmptySet

\* SendInv, when a call sends the content of a file that is not synchronised.
LEMMA SendByPut ==
    ASSUME FInv, NEW p \in FileCalls, chain[p].pc = "put", NEW f, f = chain[p].file,
           NEW pc, NEW file, NEW name, NEW rec, NEW plan, Turns(p, pc, file, name, rec, plan),
           attempts' = [attempts EXCEPT ![f] = @ + 1], syncQueue' = syncQueue,
           \/ fileIds' = fileIds /\ pc \notin ToSend
           \/ file \in FileIds \ fileIds /\ fileIds' = fileIds \cup {file}
    PROVE  SendInv'
<1>1. p \notin FileSweeps /\ p \notin FileIds /\ p \in Chains
  BY Kinds
<1>2. \A q \in FileSweeps \cup FileIds : chain'[q] = chain[q]
  BY <1>1, Kinds DEF Turns
<1>3. \A g : Resending(g)' = Resending(g)
  BY <1>2 DEF Resending
<1>4. Storing(p) /\ f \in FileIds /\ f \in fileIds
  BY StoreFacts DEF Storing, StorePcs
<1>5. Unsent(f) /\ chain[f].pc = "rest"
  BY DEF FInv, SendInv, ToSend
<1>6. attempts \in [FileIds -> Nat]
  BY DEF FInv, SendInv
<1>7. attempts' \in [FileIds -> Nat] /\ attempts'[f] = 1 /\ \A g \in FileIds : g # f => attempts'[g] = attempts[g]
  BY <1>4, <1>5, <1>6 DEF Unsent
<1>8. \A g \in FileIds : g # f => (Unsent(g) => Unsent(g)') /\ (SentOnce(g) => SentOnce(g)')
  BY <1>3, <1>7 DEF Unsent, SentOnce
<1>9. \A q \in FileCalls : chain'[q].pc \in ToSend =>
         Unsent(chain[q].file)' /\ chain'[chain'[q].file].pc = "rest"
  <2> SUFFICES ASSUME NEW q \in FileCalls, chain'[q].pc \in ToSend
               PROVE  Unsent(chain[q].file)' /\ chain'[chain'[q].file].pc = "rest"
    OBVIOUS
  <2>1. PICK g : g = chain'[q].file
    OBVIOUS
  <2>2. Unsent(g) /\ chain[g].pc = "rest" /\ g \in FileIds /\ g # f
    <3>1. CASE q = p
      BY <1>4, <2>1, <3>1 DEF Turns, FInv, SendInv
    <3>2. CASE q # p
      <4>1. chain'[q] = chain[q]
        BY <3>2, Kinds DEF Turns
      <4>2. Storing(q)
        BY <4>1 DEF Storing, ToSend, StorePcs, MakePcs
      <4>3. g # f /\ g \in FileIds
        BY <1>4, <2>1, <3>2, <4>1, <4>2, StoreFacts
      <4> QED
        BY <2>1, <4>1, <4>3 DEF FInv, SendInv
    <3> QED
      BY <3>1, <3>2
  <2>3. Unsent(g)' /\ chain'[g].pc = "rest"
    BY <1>2, <1>8, <2>2
  <2> QED
    BY <2>1, <2>3 DEF Unsent, Resending
<1>10. \A g \in FileIds : g \notin fileIds' => Unsent(g)' /\ chain'[g].pc = "rest"
  BY <1>2, <1>4, <1>8 DEF FInv, SendInv
<1>11. /\ \A g \in FileIds : chain'[g].pc = "sync" => Unsent(g)'
       /\ \A g \in FileIds : chain'[g].pc \in SyncPcs /\ chain'[g].plan = "sync_failed" => SentOnce(g)'
  BY <1>2, <1>5, <1>8 DEF FInv, SendInv, SyncPcs
<1>12. \A g \in DOMAIN syncQueue' : syncQueue'[g] \in Nat /\ attempts'[g] = syncQueue'[g] + 1
  <2> SUFFICES ASSUME NEW g \in DOMAIN syncQueue
               PROVE  syncQueue[g] \in Nat /\ attempts'[g] = syncQueue[g] + 1
    OBVIOUS
  <2>1. g # f /\ g \in FileIds
    BY <1>5 DEF Unsent, FInv, SendInv, WellInv, FilesWell
  <2> QED
    BY <1>7, <2>1 DEF FInv, SendInv
<1>13. \A g \in FileIds :
          attempts'[g] + Cardinality(Resending(g)') <= FileRetries + Cardinality(FileSweeps)
  <2> SUFFICES ASSUME NEW g \in FileIds
               PROVE  attempts'[g] + Cardinality(Resending(g)) <= FileRetries + Cardinality(FileSweeps)
    BY <1>3
  <2>1. CASE g # f
    BY <1>7, <2>1 DEF FInv, SendInv
  <2>2. CASE g = f
    <3>1. Cardinality(Resending(g)) = 0
      BY <1>5, <2>2, SomeSweep DEF Unsent
    <3> QED
      BY <1>7, <2>2, <3>1, SomeSweep
  <2> QED
    BY <2>1, <2>2
<1>14. DOMAIN syncQueue' \subseteq fileIds'
  BY DEF FInv, SendInv
<1> QED
  BY <1>7, <1>9, <1>10, <1>11, <1>12, <1>13, <1>14 DEF SendInv

\* storeInCanister: the canister has the content, or the result is stored
\* again.
LEMMA StoreInCanisterStep ==
    ASSUME FInv, cleanDeletes' = CleanDeletes, NEW p \in FileCalls, StoreInCanister(p),
           UNCHANGED <<filesByUser, filesByJob, disk, syncQueue, unlinked, deletedFiles,
                       fileUses, fileCrashes>>
    PROVE  FInv'
<1>0. PICK f : f = chain[p].file
  OBVIOUS
<1>00. PICK n : n = chain[p].name
  OBVIOUS
<1>1. /\ chain[p].pc = "put" /\ fileData' = fileData /\ reported' = reported
      /\ attempts' = [attempts EXCEPT ![f] = @ + 1]
      /\ \/ Goes(p, "announce") /\ fileIds' = fileIds /\ canister' = canister \cup {n}
         \/ Starts(p, n, "plain") /\ canister' = canister
  BY <1>0, <1>00 DEF StoreInCanister, At, Sends
<1>2. Storing(p) /\ p \in Chains /\ ChainsFit
  BY <1>1, Kinds, WellChains DEF Storing, StorePcs, MakePcs, FInv
<1>3. chain[p].plan = "canister" /\ f \in fileIds /\ f \in FileIds /\ n \in FileNames
  BY <1>0, <1>00, <1>1, <1>2, StoreFacts DEF May
<1>4. CASE Goes(p, "announce") /\ fileIds' = fileIds /\ canister' = canister \cup {n}
  <2>1. Stays(p, "announce")
    BY <1>2, <1>4, GoesTurns DEF AllPcs, StorePcs
  <2>2. Turns(p, "announce", f, n, chain[p].rec, "canister")
    BY <1>0, <1>00, <1>3, <2>1 DEF Stays
  <2>3. May(p, "announce", f, n, chain[p].rec, "canister", fileIds)
    BY <1>3, Kinds DEF May, StorePcs, MakePcs, CopyPcs, SyncPcs
  <2>4. WellStep("announce", f)
    BY <1>1, <1>3, <1>4, WellSame DEF FInv, WellStep, DeletePcs
  <2>5. WellInv'
    BY <1>4, <2>2, <2>3, <2>4, WellByCall DEF FInv
  <2>6. SendInv'
    BY <1>0, <1>1, <1>4, <2>2, SendByPut DEF ToSend
  <2>7. KeptStep(p, "announce", f, n, chain[p].rec, "canister")
    BY <1>0, <1>1, <1>2, <1>3, <1>4 DEF KeptStep, CopyPcs, LocalName
  <2>8. f \notin cleanDeletes
    BY <1>0, <1>1 DEF FInv, CleanInv
  <2>9. CleanStep(p, "announce", f, n, chain[p].rec, "canister")
    BY <1>1, <2>8 DEF CleanStep, DeletePcs
  <2>10. Turned(p, "announce", f, n, chain[p].rec, "canister")
    BY <2>2, TurnsTurned
  <2>11. KeptInv'
    BY <1>2, <2>7, <2>10, KeptByTurn DEF FInv
  <2>12. CleanInv'
    BY <1>2, <2>5, <2>9, <2>10, CleanByTurn DEF FInv
  <2> QED
    BY <2>5, <2>6, <2>11, <2>12 DEF FInv
<1>5. CASE Starts(p, n, "plain") /\ canister' = canister
  <2>1. PICK g \in FileIds \ fileIds :
           fileIds' = fileIds \cup {g} /\ Turns(p, "create", g, n, NoRecord, "plain")
    BY <1>2, <1>3, <1>5, StartsTurns DEF Plans
  <2>2. SendInv'
    BY <1>0, <1>1, <2>1, SendByPut
  <2>3. chain[p].pc \notin DeletePcs /\ canister' \subseteq FileNames
    BY <1>1, <1>5, WellSame DEF DeletePcs, FInv
  <2> QED
    BY <1>1, <1>3, <1>5, <2>2, <2>3, StartStep
<1> QED
  BY <1>1, <1>4, <1>5

\* updateFileMetadata writes the copy the call made.
LEMMA UpdateMetadataStep ==
    ASSUME FInv, cleanDeletes' = CleanDeletes, NEW p \in FileCalls, UpdateFileMetadata(p),
           UNCHANGED <<filesByUser, filesByJob, disk, syncQueue, unlinked, deletedFiles,
                       fileUses, fileCrashes>>
    PROVE  FInv'
<1> DEFINE f == chain[p].file
           n == chain[p].name
           r == IF chain[p].pc = "dual" THEN DualRecord(n) ELSE CanisterRecord(n)
<1>1. /\ chain[p].pc \in {"announce", "dual"} /\ fileData' = [fileData EXCEPT ![f] = r]
      /\ Goes(p, "strategy") /\ UNCHANGED <<canister, fileIds, reported, attempts>>
  BY DEF UpdateFileMetadata, At
<1>2. Storing(p) /\ p \in Chains /\ ChainsFit /\ p \in Holders(f)
  BY <1>1, Kinds, MakingHolds, WellChains DEF Storing, StorePcs, MakePcs, HoldingPcs, FInv
<1>3. /\ f \in fileIds /\ f \in FileIds /\ n \in FileNames /\ n # NoName
      /\ chain[p].pc = "dual" => chain[p].plan = "dual"
      /\ chain[p].pc = "announce" => chain[p].plan = "canister"
  BY <1>1, <1>2, StoreFacts, FilesAssumption DEF May
<1>4. \A m : Owes(f, m) => m = LocalName(p)
  BY <1>2, StoreFacts
<1>5. Stays(p, "strategy")
  BY <1>1, <1>2, GoesTurns DEF AllPcs, StorePcs
<1>6. /\ r \in FileRecords /\ r # NoRecord
      /\ chain[p].pc = "dual" => r.path = n
      /\ chain[p].pc = "announce" => r.path = NoName /\ r.key = n
  BY <1>1, <1>3, MadeRecords, RecordFields
<1> HIDE DEF r
<1>7. fileData'[f] = r /\ \A g \in FileIds : g # f => fileData'[g] = fileData[g]
  BY <1>1, <1>3, WellSame DEF FInv
<1>8. May(p, "strategy", f, n, chain[p].rec, chain[p].plan, fileIds)
  BY <1>1, <1>3, Kinds DEF May, StorePcs, MakePcs, CopyPcs, SyncPcs
<1>9. WellStep("strategy", f)
  BY <1>1, <1>3, <1>6, WellSame DEF FInv, WellStep, DeletePcs
<1>10. /\ chain[p].pc = "announce" => n \in canister
       /\ chain[p].pc = "dual" => n \in disk \cup unlinked
  BY <1>3 DEF FInv, KeptInv
<1>11. \A g \in FileIds : \A m : fileData'[g] # NoRecord /\ fileData'[g] # fileData[g] /\ Owes(g, m) =>
             Leads(fileData[g], m)'
  <2> SUFFICES ASSUME NEW g \in FileIds, NEW m, fileData'[g] # fileData[g], Owes(g, m)
               PROVE  Leads(fileData[g], m)'
    OBVIOUS
  <2>1. g = f /\ fileData'[g] = r
    BY <1>7
  <2>2. m = LocalName(p)
    BY <1>4, <2>1
  <2>3. CASE chain[p].pc = "announce"
    <3>1. m = NoName /\ fileData'[g].path = NoName /\ fileData'[g].key \in canister'
      BY <1>1, <1>3, <1>6, <1>10, <2>1, <2>2, <2>3 DEF LocalName
    <3> QED
      BY <3>1 DEF Leads
  <2>4. CASE chain[p].pc = "dual"
    <3>1. m # NoName /\ fileData'[g].path # NoName
      BY <1>3, <1>6, <2>1, <2>2, <2>4 DEF LocalName
    <3> QED
      BY <3>1 DEF Leads
  <2> QED
    BY <1>1, <2>3, <2>4
<1>12. KeptStep(p, "strategy", f, n, chain[p].rec, chain[p].plan)
  BY <1>1, <1>2, <1>3, <1>6, <1>7, <1>10, <1>11 DEF KeptStep, CopyPcs, StorePcs, MakePcs, LocalName
<1>13. CleanStep(p, "strategy", f, n, chain[p].rec, chain[p].plan)
  BY <1>1, <1>2, <1>7 DEF CleanStep, DeletePcs, HoldingPcs
<1> QED
  BY <1>1, <1>5, <1>8, <1>9, <1>12, <1>13, CallGoesOn DEF Stays, ToSend

\* updateStorageStrategy reads the record and writes it back, and the store
\* has succeeded.
LEMMA StrategyStep ==
    ASSUME FInv, cleanDeletes' = CleanDeletes, NEW p \in FileCalls, UpdateStorageStrategy(p),
           UNCHANGED <<filesByUser, filesByJob, disk, syncQueue, unlinked, deletedFiles,
                       fileUses, fileCrashes>>
    PROVE  FInv'
<1> DEFINE f == chain[p].file
           n == chain[p].name
<1>1. chain[p].pc \in {"strategy", "stamp"} /\ UNCHANGED <<canister, fileIds, attempts>>
  BY DEF UpdateStorageStrategy, At
<1>2. Storing(p) /\ p \in Chains /\ ChainsFit
  BY <1>1, Kinds, WellChains DEF Storing, StorePcs, MakePcs, FInv
<1>3. /\ f \in fileIds /\ f \in FileIds /\ n \in FileNames /\ n # NoName
      /\ chain[p].plan \in {"local", "canister", "dual"}
      /\ chain[p].pc = "stamp" => chain[p].rec \in FileRecords
      /\ LocalName(p) \in FileNames \cup {NoName}
  BY <1>1, <1>2, StoreFacts, FilesAssumption DEF May, CopyPcs
<1>4. \A m : Owes(f, m) => m = LocalName(p)
  BY <1>2, StoreFacts
<1>5. /\ LocalName(p) # NoName => LocalName(p) = n /\ n \in disk \cup unlinked
      /\ f \notin deletedFiles => fileData[f] # NoRecord
  BY <1>1 DEF FInv, KeptInv, LocalName, StorePcs, MakePcs
<1>6. \A m : Owes(f, m) => CopiesLead(f, m)
  BY <1>3, <1>4 DEF FInv, KeptInv
<1>7. May(p, "rest", NoFile, NoName, NoRecord, "none", fileIds)
  BY Kinds DEF May, StorePcs, MakePcs, CopyPcs, SyncPcs
<1>8. CASE chain[p].pc = "strategy" /\ fileData[f] # NoRecord /\ reported' = reported /\ fileData' = fileData
           /\ Moves(p, [chain[p] EXCEPT !.pc = "stamp", !.rec = fileData[f]])
  <2>1. PICK r : r = fileData[f]
    OBVIOUS
  <2>2. r \in FileRecords
    BY <1>3, <1>8, <2>1, WellSame DEF FInv
  <2>3. Turns(p, "stamp", f, n, r, chain[p].plan)
    BY <1>2, <1>8, <2>1, <2>2, ReadTurns DEF AllPcs, StorePcs
  <2>4. May(p, "stamp", f, n, r, chain[p].plan, fileIds)
    BY <1>3, <2>2, Kinds DEF May, StorePcs, MakePcs, CopyPcs, SyncPcs
  <2>5. WellStep("stamp", f)
    BY <1>1, <1>3, <1>8, WellSame DEF FInv, WellStep, DeletePcs
  <2>6. \A m : Owes(f, m) => Leads(r, m)
    BY <1>6, <1>8, <2>1 DEF CopiesLead
  <2>7. KeptStep(p, "stamp", f, n, r, chain[p].plan)
    <3>1. /\ (IF chain[p].plan = "canister" THEN NoName ELSE n) = LocalName(p)
          /\ chain[p].plan # "canister" => n \in disk \cup unlinked
      BY <1>3, <1>5 DEF LocalName
    <3>2. fileData' = fileData /\ reported' = reported /\ canister' = canister
      BY <1>1, <1>8
    <3> QED
      BY <1>2, <1>5, <2>6, <3>1, <3>2 DEF KeptStep
  <2>8. CleanStep(p, "stamp", f, n, r, chain[p].plan)
    BY <1>1, <1>8 DEF CleanStep, DeletePcs
  <2> QED
    BY <1>1, <2>3, <2>4, <2>5, <2>7, <2>8, CallGoesOn DEF ToSend
<1>9. CASE /\ reported' = reported \cup {<<f, LocalName(p)>>} /\ Ends(p)
           /\ chain[p].pc = "strategy" /\ fileData[f] = NoRecord /\ fileData' = fileData
  <2>1. Rests(p)
    BY <1>2, <1>9, EndsTurns
  <2>2. WellStep("rest", NoFile)
    BY <1>1, <1>3, <1>9, WellSame DEF FInv, WellStep, DeletePcs
  <2>3. KeptStep(p, "rest", NoFile, NoName, NoRecord, "none")
    BY <1>1, <1>2, <1>5, <1>9 DEF KeptStep, CopyPcs, StorePcs, MakePcs
  <2>4. CleanStep(p, "rest", NoFile, NoName, NoRecord, "none")
    BY <1>1, <1>9 DEF CleanStep, DeletePcs, HoldingPcs
  <2> QED
    BY <1>1, <1>7, <2>1, <2>2, <2>3, <2>4, CallGoesOn DEF Rests, ToSend
<1>10. CASE /\ reported' = reported \cup {<<f, LocalName(p)>>} /\ Ends(p) /\ chain[p].pc = "stamp"
            /\ fileData' = [fileData EXCEPT ![f] = [chain[p].rec EXCEPT !.strategy = chain[p].plan]]
  <2>1. Rests(p)
    BY <1>2, <1>10, EndsTurns
  <2>2. PICK r : r = [chain[p].rec EXCEPT !.strategy = chain[p].plan]
    OBVIOUS
  <2>3. r \in FileRecords /\ r # NoRecord /\ r.path = chain[p].rec.path /\ r.key = chain[p].rec.key
    <3>1. PICK o \in FileRecords : o = chain[p].rec
      BY <1>3, <1>10
    <3>2. PICK x \in {"local", "canister", "dual"} : x = chain[p].plan
      BY <1>3
    <3>3. r = [o EXCEPT !.strategy = x]
      BY <2>2, <3>1, <3>2
    <3>4. /\ [o EXCEPT !.strategy = x] \in FileRecords
          /\ [o EXCEPT !.strategy = x].path = o.path /\ [o EXCEPT !.strategy = x].key = o.key
      BY ChangedRecords
    <3> QED
      BY <3>1, <3>3, <3>4, RecordFields
  <2>4. fileData'[f] = r /\ \A g \in FileIds : g # f => fileData'[g] = fileData[g]
    BY <1>3, <1>10, <2>2, WellSame DEF FInv
  <2>5. WellStep("rest", NoFile)
    BY <1>1, <1>3, <1>10, <2>2, <2>3, WellSame DEF FInv, WellStep, DeletePcs
  <2>6. \A g \in FileIds : \A m : fileData'[g] # NoRecord /\ fileData'[g] # fileData[g] /\ Owes(g, m) =>
             Leads(fileData[g], m)'
    <3> SUFFICES ASSUME NEW g \in FileIds, NEW m, fileData'[g] # fileData[g], Owes(g, m)
                 PROVE  Leads(fileData[g], m)'
      OBVIOUS
    <3>1. g = f /\ fileData'[g] = r
      BY <2>4
    <3>2. Leads(chain[p].rec, m)
      BY <1>2, <1>6, <1>10, <3>1 DEF CopiesLead, CopyPcs
    <3> QED
      BY <1>1, <2>3, <3>1, <3>2 DEF Leads
  <2>7. KeptStep(p, "rest", NoFile, NoName, NoRecord, "none")
    BY <1>1, <1>2, <1>5, <1>10, <2>3, <2>4, <2>6 DEF KeptStep, CopyPcs, StorePcs, MakePcs
  <2>8. p \in Holders(f)
    BY <1>10, MakingHolds DEF HoldingPcs
  <2>9. CleanStep(p, "rest", NoFile, NoName, NoRecord, "none")
    BY <1>1, <1>10, <2>4, <2>8 DEF CleanStep, DeletePcs, HoldingPcs
  <2> QED
    BY <1>1, <1>7, <2>1, <2>5, <2>7, <2>9, CallGoesOn DEF Rests, ToSend
<1> QED
  BY <1>8, <1>9, <1>10 DEF UpdateStorageStrategy, At

\* Every step of a store that the dual storage manager makes.
LEMMA DualStepStep ==
    ASSUME FInv, cleanDeletes' = CleanDeletes, NEW p \in FileCalls, DualStep(p)
    PROVE  FInv'
BY StoreInCanisterStep, UpdateMetadataStep, StrategyStep DEF DualStep

\* A chain that synchronises, or a sweep, has a file that was given out.
LEMMA SyncFile ==
    ASSUME WellInv, NEW p \in FileSweeps \cup FileIds
    PROVE  /\ p \in Chains /\ p \notin FileCalls
           /\ chain[p].pc \notin {"rest", "sweep"} => chain[p].file \in fileIds /\ chain[p].file \in FileIds
           /\ p \in FileIds /\ chain[p].pc # "rest" => chain[p].file = p
           /\ chain[p].pc = "sync" => p \in FileIds /\ p \notin FileSweeps
           /\ chain[p].pc \in {"sweep", "resend"} => p \in FileSweeps /\ p \notin FileIds
           /\ chain[p].pc \in {"sync", "resend"} => chain[p].name \in FileNames
           /\ chain[p].pc \in SyncPcs => chain[p].plan \in Results
           /\ chain[p].pc = "mark" => chain[p].rec \in FileRecords
           /\ chain[p].pc \notin StorePcs
<1>1. p \in Chains /\ p \notin FileCalls /\ (p \in FileIds <=> p \notin FileSweeps)
  BY Kinds
<1>2. May(p, chain[p].pc, chain[p].file, chain[p].name, chain[p].rec, chain[p].plan, fileIds)
  BY <1>1 DEF WellInv, ChainsFit, Fits
<1>3. fileIds \subseteq FileIds /\ NoFile \notin FileIds
  BY FilesAssumption DEF WellInv, FilesWell
<1> HIDE DEF May
<1>4. /\ chain[p].pc \notin {"rest", "sweep"} => chain[p].file \in fileIds
      /\ p \in FileSweeps => chain[p].pc \in {"rest", "sweep", "resend"} \cup SyncPcs
      /\ p \in FileIds => chain[p].pc \in {"rest", "sync"} \cup SyncPcs /\ chain[p].file \in {p, NoFile}
      /\ chain[p].pc \in {"sync", "resend"} => chain[p].name \in FileNames
      /\ chain[p].pc = "mark" => chain[p].rec \in FileRecords
      /\ chain[p].pc \in SyncPcs => chain[p].plan \in Results
  BY <1>2 DEF May, CopyPcs
<1> QED
  BY <1>1, <1>3, <1>4 DEF SyncPcs, StorePcs, MakePcs

\* SendInv, when a step is about the sending of one file that was given out.
LEMMA SendBySync ==
    ASSUME WellInv, SendInv, NEW p \in FileSweeps \cup FileIds,
           NEW pc, NEW file, NEW name, NEW rec, NEW plan, Turns(p, pc, file, name, rec, plan),
           NEW f \in fileIds, p \in FileIds => p = f, fileIds' = fileIds,
           attempts' \in [FileIds -> Nat], DOMAIN syncQueue' \subseteq fileIds,
           \A g \in FileIds : g # f =>
              /\ attempts'[g] = attempts[g] /\ Resending(g)' = Resending(g)
              /\ g \in DOMAIN syncQueue' <=> g \in DOMAIN syncQueue
              /\ g \in DOMAIN syncQueue => syncQueue'[g] = syncQueue[g],
           ~ (Unsent(f) /\ chain[f].pc = "rest"),
           chain'[f].pc = "sync" => Unsent(f)',
           chain'[f].pc \in SyncPcs /\ chain'[f].plan = "sync_failed" => SentOnce(f)',
           f \in DOMAIN syncQueue' => syncQueue'[f] \in Nat /\ attempts'[f] = syncQueue'[f] + 1,
           attempts'[f] + Cardinality(Resending(f)') <= FileRetries + Cardinality(FileSweeps)
    PROVE  SendInv'
<1>1. p \notin FileCalls /\ p \in Chains /\ f \in FileIds
  BY Kinds DEF WellInv, FilesWell
<1>2. /\ \A q \in FileCalls : chain'[q] = chain[q]
      /\ \A g \in FileIds : g # f => chain'[g] = chain[g]
  BY <1>1, Kinds DEF Turns
<1>3. \A g \in FileIds : g # f => (Unsent(g) => Unsent(g)') /\ (SentOnce(g) => SentOnce(g)')
  BY DEF Unsent, SentOnce
<1>4. ASSUME NEW q \in FileCalls, chain'[q].pc \in ToSend
      PROVE  Unsent(chain[q].file)' /\ chain'[chain'[q].file].pc = "rest"
  <2>1. PICK g : g = chain[q].file
    OBVIOUS
  <2>2. Unsent(g) /\ chain[g].pc = "rest" /\ chain'[q].file = g
    BY <1>2, <1>4, <2>1 DEF SendInv
  <2>3. g # f /\ g \in FileIds
    BY <1>2, <1>4, <2>1, <2>2, ToSendFiles
  <2>4. Unsent(g)' /\ chain'[g].pc = "rest"
    BY <1>2, <1>3, <2>2, <2>3
  <2> QED
    BY <2>2, <2>4 DEF Unsent, Resending
<1>5. \A g \in FileIds : g \notin fileIds' => Unsent(g)' /\ chain'[g].pc = "rest"
  BY <1>2, <1>3 DEF SendInv
<1>6. /\ \A g \in FileIds : chain'[g].pc = "sync" => Unsent(g)'
      /\ \A g \in FileIds : chain'[g].pc \in SyncPcs /\ chain'[g].plan = "sync_failed" => SentOnce(g)'
  <2>1. \A g \in FileIds : g # f =>
          /\ chain'[g].pc = "sync" => Unsent(g)'
          /\ chain'[g].pc \in SyncPcs /\ chain'[g].plan = "sync_failed" => SentOnce(g)'
    BY <1>2, <1>3 DEF SendInv
  <2> QED
    BY <2>1
<1>7. \A g \in DOMAIN syncQueue' : syncQueue'[g] \in Nat /\ attempts'[g] = syncQueue'[g] + 1
  <2> SUFFICES ASSUME NEW g \in DOMAIN syncQueue', g # f
               PROVE  syncQueue'[g] \in Nat /\ attempts'[g] = syncQueue'[g] + 1
    OBVIOUS
  <2>1. g \in FileIds
    BY DEF WellInv, FilesWell
  <2>2. g \in DOMAIN syncQueue /\ syncQueue'[g] = syncQueue[g] /\ attempts'[g] = attempts[g]
    BY <2>1
  <2> QED
    BY <2>2 DEF SendInv
<1>8. \A g \in FileIds : attempts'[g] + Cardinality(Resending(g)') <= FileRetries + Cardinality(FileSweeps)
  BY DEF SendInv
<1>9. DOMAIN syncQueue' \subseteq fileIds'
  OBVIOUS
<1> QED
  BY <1>4, <1>5, <1>6, <1>7, <1>8, <1>9 DEF SendInv

\* SendInv, when a chain that synchronises goes on and nothing is sent.
LEMMA SendSame ==
    ASSUME WellInv, SendInv, NEW p \in FileSweeps \cup FileIds,
           NEW pc, NEW file, NEW name, NEW rec, NEW plan, Turns(p, pc, file, name, rec, plan),
           fileIds' = fileIds, attempts' = attempts, syncQueue' = syncQueue,
           pc # "resend", chain[p].pc # "resend",
           p \in FileIds =>
              /\ chain[p].pc # "rest" /\ pc # "sync"
              /\ pc \in SyncPcs => chain[p].pc \in SyncPcs /\ plan = chain[p].plan
    PROVE  SendInv'
<1>1. p \notin FileCalls /\ p \in Chains
  BY Kinds
<1>2. \A q \in Chains : q # p => chain'[q] = chain[q]
  BY DEF Turns
<1>3. \A g : Resending(g)' = Resending(g)
  BY <1>1, <1>2, Kinds DEF Resending, Turns
<1>4. \A g : (Unsent(g) => Unsent(g)') /\ (SentOnce(g) => SentOnce(g)')
  BY <1>3 DEF Unsent, SentOnce
<1>5. \A g \in FileIds : chain[g].pc = "rest" => chain'[g].pc = "rest"
  BY <1>2, Kinds
<1>6. ASSUME NEW q \in FileCalls, chain'[q].pc \in ToSend
      PROVE  Unsent(chain[q].file)' /\ chain'[chain'[q].file].pc = "rest"
  <2>1. PICK g : g = chain[q].file
    OBVIOUS
  <2>2. Unsent(g) /\ chain[g].pc = "rest" /\ chain'[q].file = g /\ g \in FileIds
    BY <1>1, <1>2, <1>6, <2>1, Kinds, ToSendFiles DEF SendInv
  <2>3. Unsent(g)' /\ chain'[g].pc = "rest"
    BY <1>4, <1>5, <2>2
  <2> QED
    BY <2>2, <2>3 DEF Unsent, Resending
<1>7. \A g \in FileIds : g \notin fileIds' => Unsent(g)' /\ chain'[g].pc = "rest"
  BY <1>4, <1>5 DEF SendInv
<1>8. \A g \in FileIds : chain'[g].pc = "sync" => Unsent(g)'
  BY <1>2, <1>4, Kinds DEF SendInv, Turns
<1>9. \A g \in FileIds : chain'[g].pc \in SyncPcs /\ chain'[g].plan = "sync_failed" => SentOnce(g)'
  BY <1>2, <1>4, Kinds DEF SendInv, Turns
<1> QED
  BY <1>3, <1>6, <1>7, <1>8, <1>9 DEF SendInv

\* A step of a synchronisation or a sweep.
LEMMA SyncChainStep ==
    ASSUME FInv, cleanDeletes' = CleanDeletes, NEW p \in FileSweeps \cup FileIds,
           NEW pc, NEW file, NEW name, NEW rec, NEW plan,
           Turns(p, pc, file, name, rec, plan), May(p, pc, file, name, rec, plan, fileIds),
           UNCHANGED <<filesByUser, filesByJob, disk, fileIds, reported, unlinked, deletedFiles,
                       fileUses, fileCrashes>>,
           canister \subseteq canister', canister' \subseteq FileNames,
           fileData' \in [FileIds -> FileRecords \cup {NoRecord}],
           \A g \in FileIds : fileData'[g] = NoRecord => fileData[g] = NoRecord,
           \A g \in FileIds : fileData[g] = NoRecord /\ fileData'[g] # NoRecord => p \in Holders(g),
           \A g \in FileIds : g \notin fileIds => fileData'[g] = NoRecord,
           pc \in CopyPcs => \A n : Owes(file, n) => Leads(rec, n),
           \A g \in FileIds : \A n : fileData'[g] # fileData[g] /\ Owes(g, n) => Leads(fileData[g], n)',
           pc \in HoldingPcs => p \in Holders(file) \/ fileData[file] # NoRecord,
           SendInv'
    PROVE  FInv'
<1>0. p \in Chains /\ p \notin FileCalls /\ WellInv /\ KeptInv /\ CleanInv
  BY Kinds DEF FInv
<1>1. ChainsFit'
  BY <1>0, WellChains, TurnsFit
<1>2. \A q \in FileCalls : chain'[q] = chain[q]
  BY <1>0, Kinds DEF Turns
<1>3. WellInv'
  BY <1>0, <1>1, <1>2 DEF WellInv, FilesWell
<1>4. Turned(p, pc, file, name, rec, plan)
  BY TurnsTurned
<1>5. KeptStep(p, pc, file, name, rec, plan)
  BY <1>0 DEF KeptStep
<1>6. CleanStep(p, pc, file, name, rec, plan)
  BY <1>0 DEF CleanStep
<1>7. KeptInv'
  BY <1>0, <1>4, <1>5, KeptByTurn
<1>8. CleanInv'
  BY <1>0, <1>3, <1>4, <1>6, CleanByTurn
<1> QED
  BY <1>3, <1>7, <1>8 DEF FInv

\* The same while the records stay as they are.
LEMMA SyncOnly ==
    ASSUME FInv, cleanDeletes' = CleanDeletes, NEW p \in FileSweeps \cup FileIds,
           NEW pc, NEW file, NEW name, NEW rec, NEW plan,
           Turns(p, pc, file, name, rec, plan), May(p, pc, file, name, rec, plan, fileIds),
           UNCHANGED <<filesByUser, filesByJob, disk, fileIds, reported, unlinked, deletedFiles,
                       fileUses, fileCrashes>>,
           fileData' = fileData, canister \subseteq canister', canister' \subseteq FileNames,
           pc \notin CopyPcs, pc \notin HoldingPcs, SendInv'
    PROVE  FInv'
<1>1. /\ fileData' \in [FileIds -> FileRecords \cup {NoRecord}]
      /\ \A g \in FileIds : g \notin fileIds => fileData'[g] = NoRecord
  BY WellSame DEF FInv
<1> QED
  BY <1>1, SyncChainStep

\* A sweep joins those about to send a file, or leaves them.
LEMMA Resenders ==
    ASSUME NEW f
    PROVE  /\ IsFiniteSet(Resending(f)) /\ Cardinality(Resending(f)) \in Nat
           /\ \A p \in FileSweeps : p \notin Resending(f) =>
                 /\ Cardinality(Resending(f) \cup {p}) = Cardinality(Resending(f)) + 1
                 /\ Cardinality(Resending(f)) + 1 <= Cardinality(FileSweeps)
           /\ \A p \in Resending(f) : Cardinality(Resending(f) \ {p}) = Cardinality(Resending(f)) - 1
<1> DEFINE R == Resending(f)
<1>1. R \subseteq FileSweeps /\ IsFiniteSet(FileSweeps)
  BY FilesAssumption DEF Resending
<1>2. IsFiniteSet(R) /\ Cardinality(R) \in Nat
  BY <1>1, FS_Subset, FS_CardinalityType
<1> HIDE DEF R
<1>3. ASSUME NEW p \in FileSweeps, p \notin R
      PROVE  /\ Cardinality(R \cup {p}) = Cardinality(R) + 1
             /\ Cardinality(R) + 1 <= Cardinality(FileSweeps)
  <2>1. Cardinality(R \cup {p}) = Cardinality(R) + 1
    BY <1>2, <1>3, FS_AddElement
  <2>2. R \cup {p} \subseteq FileSweeps
    BY <1>1, <1>3
  <2>3. Cardinality(R \cup {p}) <= Cardinality(FileSweeps)
    BY <1>1, <2>2, FS_Subset
  <2> QED
    BY <2>1, <2>3
<1>4. \A p \in R : Cardinality(R \ {p}) = Cardinality(R) - 1
  BY <1>2, FS_RemoveElement
<1> QED
  BY <1>2, <1>3, <1>4 DEF R

\* storeInCanisterAsync sends the content once.
LEMMA SyncSendsStep ==
    ASSUME FInv, cleanDeletes' = CleanDeletes, NEW p \in FileSweeps \cup FileIds, SyncSends(p),
           UNCHANGED <<filesByUser, filesByJob, disk, fileIds, reported, unlinked, deletedFiles,
                       fileUses, fileCrashes>>
    PROVE  FInv'
<1>1. /\ chain[p].pc = "sync" /\ fileData' = fileData /\ syncQueue' = syncQueue
      /\ attempts' = [attempts EXCEPT ![p] = @ + 1]
      /\ \E x \in {"synced", "sync_failed"} : Moves(p, WithStatus(p, x))
      /\ canister' = canister \/ canister' = canister \cup {chain[p].name}
  BY DEF SyncSends, Sends, At
<1>2. /\ p \in Chains /\ p \in FileIds /\ p \notin FileSweeps /\ p \in fileIds /\ chain[p].file = p
      /\ chain[p].name \in FileNames /\ ChainsFit
  BY <1>1, SyncFile, WellChains DEF FInv
<1>3. PICK x \in {"synced", "sync_failed"} : Moves(p, WithStatus(p, x))
  BY <1>1
<1>4. Turns(p, "status", p, NoName, chain[p].rec, x)
  BY <1>2, <1>3, StatusTurns DEF Results
<1>5. May(p, "status", p, NoName, chain[p].rec, x, fileIds)
  BY <1>2, Kinds DEF May, SyncPcs, StorePcs, MakePcs, CopyPcs, Results
<1>6. Unsent(p)
  BY <1>1, <1>2 DEF FInv, SendInv
<1>7. \A g : Resending(g)' = Resending(g)
  <2>1. \A q \in FileSweeps : chain'[q] = chain[q]
    BY <1>2, <1>4, Kinds DEF Turns
  <2> QED
    BY <2>1 DEF Resending
<1>8. attempts \in [FileIds -> Nat]
  BY DEF FInv, SendInv
<1>9. SentOnce(p)'
  BY <1>1, <1>2, <1>6, <1>7, <1>8 DEF Unsent, SentOnce
<1>10. SendInv'
  <2>1. Cardinality(Resending(p)') = 0 /\ attempts'[p] = 1 /\ p \notin DOMAIN syncQueue'
    BY <1>9, SomeSweep DEF SentOnce
  <2>2. attempts'[p] + Cardinality(Resending(p)') <= FileRetries + Cardinality(FileSweeps)
    BY <2>1, SomeSweep
  <2>3. chain'[p].pc = "status"
    BY <1>4 DEF Turns
  <2>4. attempts' \in [FileIds -> Nat] /\ \A g \in FileIds : g # p => attempts'[g] = attempts[g]
    BY <1>1, <1>2, <1>8
  <2>5. DOMAIN syncQueue' \subseteq fileIds
    BY <1>1 DEF FInv, SendInv
  <2>6. ~ (Unsent(p) /\ chain[p].pc = "rest")
    BY <1>1
  <2> QED
    BY <1>1, <1>2, <1>4, <1>7, <1>9, <2>1, <2>2, <2>3, <2>4, <2>5, <2>6, SendBySync DEF FInv
<1>11. canister \subseteq canister' /\ canister' \subseteq FileNames
  BY <1>1, <1>2, WellSame DEF FInv
<1> QED
  BY <1>1, <1>4, <1>5, <1>10, <1>11, SyncOnly DEF CopyPcs, HoldingPcs

\* updateSyncStatus found no record, or has written it; then a failed
\* synchronisation is queued.
LEMMA QueuesAndContinues ==
    ASSUME FInv, NEW p \in FileSweeps \cup FileIds, chain[p].pc \in SyncPcs, Requeue(p), Continues(p),
           fileIds' = fileIds, attempts' = attempts
    PROVE  /\ SendInv'
           /\ \E pc \in {"rest", "sweep"} :
                 /\ Turns(p, pc, NoFile, NoName, NoRecord, "none")
                 /\ May(p, pc, NoFile, NoName, NoRecord, "none", fileIds)
<1>1. /\ p \in Chains /\ p \notin FileCalls /\ ChainsFit /\ (p \in FileIds <=> p \notin FileSweeps)
      /\ chain[p].pc \notin {"rest", "sync", "resend"}
  BY SyncFile, WellChains, Kinds DEF FInv, SyncPcs
<1>2. PICK pc \in {"rest", "sweep"} :
         /\ Turns(p, pc, NoFile, NoName, NoRecord, "none")
         /\ pc = "sweep" => p \in FileSweeps
  BY <1>1, ContinuesTurns DEF Rests
<1>3. May(p, pc, NoFile, NoName, NoRecord, "none", fileIds)
  BY <1>1, <1>2, Kinds DEF May, SyncPcs, StorePcs, MakePcs, CopyPcs
<1>4. CASE p \in FileIds /\ chain[p].plan = "sync_failed"
  <2>1. syncQueue' = [f \in DOMAIN syncQueue \cup {p} |-> IF f = p THEN 0 ELSE syncQueue[f]]
    BY <1>4 DEF Requeue
  <2>2. SentOnce(p) /\ p \in fileIds
    BY <1>1, <1>4, SyncFile DEF FInv, SendInv
  <2>3. \A g : Resending(g)' = Resending(g)
    <3>1. \A q \in FileSweeps : chain'[q] = chain[q]
      BY <1>1, <1>2, <1>4, Kinds DEF Turns
    <3> QED
      BY <3>1 DEF Resending
  <2>4. attempts'[p] + Cardinality(Resending(p)') <= FileRetries + Cardinality(FileSweeps)
    BY <1>4, <2>3 DEF FInv, SendInv
  <2>5. DOMAIN syncQueue' = DOMAIN syncQueue \cup {p} /\ syncQueue'[p] = 0
    BY <2>1
  <2>6. DOMAIN syncQueue' \subseteq fileIds
    BY <2>2, <2>5 DEF FInv, SendInv
  <2>7. \A g \in FileIds : g # p =>
              /\ attempts'[g] = attempts[g] /\ Resending(g)' = Resending(g)
              /\ g \in DOMAIN syncQueue' <=> g \in DOMAIN syncQueue
              /\ g \in DOMAIN syncQueue => syncQueue'[g] = syncQueue[g]
    BY <2>1, <2>3
  <2>8. chain'[p].pc \notin SyncPcs \cup {"sync"}
    BY <1>2 DEF Turns, SyncPcs
  <2>9. attempts' \in [FileIds -> Nat] /\ attempts'[p] = syncQueue'[p] + 1 /\ syncQueue'[p] \in Nat
    BY <2>2, <2>5 DEF FInv, SendInv, SentOnce
  <2>10. ~ (Unsent(p) /\ chain[p].pc = "rest")
    BY <1>1
  <2>11. SendInv'
    BY <1>2, <2>2, <2>4, <2>6, <2>7, <2>8, <2>9, <2>10, SendBySync DEF FInv
  <2> QED
    BY <1>2, <1>3, <2>11
<1>5. CASE ~ (p \in FileIds /\ chain[p].plan = "sync_failed")
  <2>1. syncQueue' = syncQueue
    BY <1>5 DEF Requeue
  <2>2. SendInv'
    BY <1>1, <1>2, <2>1, SendSame DEF FInv, SyncPcs
  <2> QED
    BY <1>2, <1>3, <2>2
<1> QED
  BY <1>4, <1>5

\* updateSyncStatus reads the record and writes it back with the status.
LEMMA UpdateSyncStatusStep ==
    ASSUME FInv, cleanDeletes' = CleanDeletes, NEW p \in FileSweeps \cup FileIds, UpdateSyncStatus(p),
           UNCHANGED <<filesByUser, filesByJob, disk, fileIds, reported, unlinked, deletedFiles,
                       fileUses, fileCrashes>>
    PROVE  FInv'
<1> DEFINE f == chain[p].file
<1>1. chain[p].pc \in SyncPcs /\ canister' = canister /\ attempts' = attempts
  BY DEF UpdateSyncStatus, At, SyncPcs
<1>2. /\ p \in Chains /\ p \notin FileCalls /\ ChainsFit /\ f \in fileIds /\ f \in FileIds
      /\ p \in FileIds => f = p
      /\ chain[p].plan \in Results /\ chain[p].pc \notin {"rest", "sync", "resend", "sweep"}
  BY <1>1, SyncFile, WellChains DEF FInv, SyncPcs
<1>3. canister \subseteq canister' /\ canister' \subseteq FileNames
  BY <1>1, WellSame DEF FInv
<1>4. CASE /\ chain[p].pc = "status" /\ fileData[f] # NoRecord
           /\ Moves(p, [chain[p] EXCEPT !.pc = "mark", !.rec = fileData[f]])
           /\ fileData' = fileData /\ syncQueue' = syncQueue
  <2>1. PICK r : r = fileData[f]
    OBVIOUS
  <2>2. r \in FileRecords
    BY <1>2, <1>4, <2>1, WellSame DEF FInv
  <2>3. Turns(p, "mark", f, chain[p].name, r, chain[p].plan)
    BY <1>2, <1>4, <2>1, <2>2, ReadTurns DEF AllPcs, SyncPcs
  <2>4. May(p, "mark", f, chain[p].name, r, chain[p].plan, fileIds)
    BY <1>2, <2>2, Kinds DEF May, StorePcs, MakePcs, SyncPcs
  <2>5. SendInv'
    BY <1>1, <1>2, <1>4, <2>3, SendSame DEF FInv
  <2>6. \A m : Owes(f, m) => Leads(r, m)
    <3>1. \A m : Owes(f, m) => m \in FileNames \cup {NoName}
      <4>1. reported \subseteq fileIds \X (FileNames \cup {NoName})
        BY WellSame DEF FInv
      <4>2. \A q \in FileCalls : Storing(q) => LocalName(q) \in FileNames \cup {NoName}
        BY StoreFacts
      <4> QED
        BY <4>1, <4>2 DEF Owes
    <3> QED
      BY <1>2, <1>4, <2>1, <3>1 DEF FInv, KeptInv, CopiesLead
  <2>7. fileData' \in [FileIds -> FileRecords \cup {NoRecord}] /\
        \A g \in FileIds : g \notin fileIds => fileData'[g] = NoRecord
    BY <1>4, WellSame DEF FInv
  <2> QED
    BY <1>3, <1>4, <2>3, <2>4, <2>5, <2>6, <2>7, SyncChainStep
<1>5. CASE /\ chain[p].pc = "status" /\ fileData' = fileData /\ Requeue(p) /\ Continues(p)
  <2>1. PICK pc \in {"rest", "sweep"} :
           /\ Turns(p, pc, NoFile, NoName, NoRecord, "none")
           /\ May(p, pc, NoFile, NoName, NoRecord, "none", fileIds)
    BY <1>1, <1>5, QueuesAndContinues
  <2>2. SendInv'
    BY <1>1, <1>5, QueuesAndContinues
  <2> QED
    BY <1>3, <1>5, <2>1, <2>2, SyncOnly DEF CopyPcs, HoldingPcs
<1>6. CASE /\ chain[p].pc = "mark" /\ Requeue(p) /\ Continues(p)
           /\ fileData' = [fileData EXCEPT ![f] = Marked(chain[p].rec, chain[p].plan)]
  <2>1. PICK pc \in {"rest", "sweep"} :
           /\ Turns(p, pc, NoFile, NoName, NoRecord, "none")
           /\ May(p, pc, NoFile, NoName, NoRecord, "none", fileIds)
    BY <1>1, <1>6, QueuesAndContinues
  <2>2. SendInv'
    BY <1>1, <1>6, QueuesAndContinues
  <2>3. PICK r \in FileRecords : r = chain[p].rec
    BY <1>6, SyncFile DEF FInv
  <2>4. PICK x \in Results : x = chain[p].plan
    BY <1>2
  <2>5. PICK m : m = Marked(r, x)
    OBVIOUS
  <2>6. m \in FileRecords /\ m.path = r.path /\ m.key = r.key /\ m # NoRecord
    <3>1. m \in FileRecords /\ m.path = r.path /\ m.key = r.key
      BY <2>5, ChangedRecords
    <3> QED
      BY <3>1, RecordFields
  <2>7. fileData' = [fileData EXCEPT ![f] = m]
    BY <1>6, <2>3, <2>4, <2>5
  <2>8. fileData'[f] = m /\ \A g \in FileIds : g # f => fileData'[g] = fileData[g]
    BY <1>2, <2>7, WellSame DEF FInv
  <2>9. fileData' \in [FileIds -> FileRecords \cup {NoRecord}] /\
        \A g \in FileIds : g \notin fileIds => fileData'[g] = NoRecord
    BY <1>2, <2>6, <2>7, WellSame DEF FInv
  <2>10. p \in Holders(f)
    BY <1>2, <1>6 DEF Holders
  <2>11. \A g \in FileIds : \A n : fileData'[g] # fileData[g] /\ Owes(g, n) => Leads(fileData[g], n)'
    <3> SUFFICES ASSUME NEW g \in FileIds, NEW n, fileData'[g] # fileData[g], Owes(g, n)
                 PROVE  Leads(fileData[g], n)'
      OBVIOUS
    <3>1. g = f /\ fileData'[g] = m
      BY <2>8
    <3>2. n \in FileNames \cup {NoName}
      <4>1. reported \subseteq fileIds \X (FileNames \cup {NoName})
        BY WellSame DEF FInv
      <4>2. \A q \in FileCalls : Storing(q) => LocalName(q) \in FileNames \cup {NoName}
        BY StoreFacts
      <4> QED
        BY <4>1, <4>2 DEF Owes
    <3>3. Leads(r, n)
      BY <1>2, <1>6, <2>3, <3>1, <3>2 DEF FInv, KeptInv, CopiesLead, CopyPcs
    <3> QED
      BY <1>1, <2>6, <3>1, <3>3 DEF Leads
  <2>12. /\ \A g \in FileIds : fileData'[g] = NoRecord => fileData[g] = NoRecord
         /\ \A g \in FileIds : fileData[g] = NoRecord /\ fileData'[g] # NoRecord => p \in Holders(g)
    BY <2>6, <2>8, <2>10
  <2> QED
    BY <1>3, <2>1, <2>2, <2>9, <2>11, <2>12, SyncChainStep DEF CopyPcs, HoldingPcs
<1> QED
  BY <1>4, <1>5, <1>6 DEF UpdateSyncStatus, At

\* A sweep goes on without sending.
LEMMA SweepGoes ==
    ASSUME FInv, cleanDeletes' = CleanDeletes, NEW p \in FileSweeps, chain[p].pc # "resend",
           NEW pc \in {"rest", "sweep", "status"}, NEW file, NEW name, NEW rec, NEW plan,
           Turns(p, pc, file, name, rec, plan), May(p, pc, file, name, rec, plan, fileIds),
           SendInv' \/ syncQueue' = syncQueue,
           UNCHANGED <<fileStores, fileIds, reported, unlinked, deletedFiles, attempts,
                       fileUses, fileCrashes>>
    PROVE  FInv'
<1>1. p \notin FileIds /\ p \in FileSweeps \cup FileIds
  BY Kinds
<1>2. SendInv'
  BY <1>1, SendSame DEF FInv
<1>3. canister' = canister /\ canister' \subseteq FileNames
  BY WellSame DEF FInv, fileStores
<1> QED
  BY <1>1, <1>2, <1>3, SyncOnly DEF CopyPcs, HoldingPcs, fileStores

\* processRetryQueue begins.
LEMMA SweepStartsStep ==
    ASSUME FInv, cleanDeletes' = CleanDeletes, NEW p \in FileSweeps \cup FileIds, SweepStarts(p),
           UNCHANGED <<filesByUser, filesByJob, disk, fileIds, reported, unlinked, deletedFiles,
                       fileUses, fileCrashes>>
    PROVE  FInv'
<1>1. /\ p \in FileSweeps /\ chain[p].pc = "rest" /\ Goes(p, "sweep")
      /\ UNCHANGED <<fileStores, syncQueue, attempts>>
  BY DEF SweepStarts, At, fileStores
<1>2. p \in Chains /\ ChainsFit /\ p \notin FileIds /\ p \notin FileCalls /\ chain[p].file \in fileIds \cup {NoFile}
  BY <1>1, Kinds DEF FInv, WellInv, ChainsFit, Fits, May
<1>3. Stays(p, "sweep")
  BY <1>1, <1>2, GoesTurns DEF AllPcs
<1>4. May(p, "sweep", chain[p].file, chain[p].name, chain[p].rec, chain[p].plan, fileIds)
  BY <1>2 DEF May, StorePcs, MakePcs, CopyPcs, SyncPcs
<1> QED
  BY <1>1, <1>3, <1>4, SweepGoes DEF Stays

\* Dropping an entry from the queue keeps what is known of sending.
LEMMA SendDropped ==
    ASSUME WellInv, SendInv, NEW p \in FileSweeps, chain[p].pc # "resend", NEW pc, pc # "resend",
           NEW file, NEW name, NEW rec, NEW plan, Turns(p, pc, file, name, rec, plan),
           NEW f \in DOMAIN syncQueue, syncQueue' = Dequeued(f), fileIds' = fileIds, attempts' = attempts
    PROVE  SendInv'
<1>1. \A g : Resending(g)' = Resending(g)
  BY Kinds DEF Resending, Turns
<1>2. DOMAIN syncQueue' = DOMAIN syncQueue \ {f} /\ \A g \in DOMAIN syncQueue \ {f} : syncQueue'[g] = syncQueue[g]
  BY DEF Dequeued
<1>3. f \in fileIds /\ f \in FileIds /\ p \notin FileIds /\ p \in Chains /\ f \in Chains /\ p # f
  BY Kinds DEF SendInv, WellInv, FilesWell
<1>4. chain'[f] = chain[f]
  BY <1>3 DEF Turns
<1>5. ~ Unsent(f) /\ ~ SentOnce(f)
  BY DEF Unsent, SentOnce
<1>6. attempts'[f] + Cardinality(Resending(f)') <= FileRetries + Cardinality(FileSweeps)
  BY <1>1, <1>3 DEF SendInv
<1>7. chain'[f].pc # "sync" /\ ~ (chain'[f].pc \in SyncPcs /\ chain'[f].plan = "sync_failed")
  BY <1>3, <1>4, <1>5 DEF SendInv
<1>8. /\ attempts' \in [FileIds -> Nat] /\ DOMAIN syncQueue' \subseteq fileIds
      /\ f \notin DOMAIN syncQueue'
  BY <1>2 DEF SendInv
<1>9. \A g \in FileIds : g # f =>
              /\ attempts'[g] = attempts[g] /\ Resending(g)' = Resending(g)
              /\ g \in DOMAIN syncQueue' <=> g \in DOMAIN syncQueue
              /\ g \in DOMAIN syncQueue => syncQueue'[g] = syncQueue[g]
  BY <1>1, <1>2
<1>10. ~ (Unsent(f) /\ chain[f].pc = "rest")
  BY <1>5
<1> QED
  BY <1>3, <1>6, <1>7, <1>8, <1>9, <1>10, SendBySync

\* The loop comes to an entry: it sends the file again, gives up on it, or
\* passes over it.
LEMMA SweepVisitsStep ==
    ASSUME FInv, cleanDeletes' = CleanDeletes, NEW p \in FileSweeps \cup FileIds, SweepVisits(p),
           UNCHANGED <<filesByUser, filesByJob, disk, fileIds, reported, unlinked, deletedFiles,
                       fileUses, fileCrashes>>
    PROVE  FInv'
<1>1. chain[p].pc = "sweep" /\ UNCHANGED <<fileStores, attempts>>
  BY DEF SweepVisits, At, fileStores
<1>2. p \in Chains /\ p \in FileSweeps /\ p \notin FileIds /\ p \notin FileCalls /\ ChainsFit
  BY <1>1, SyncFile, WellChains DEF FInv
<1>3. chain[p] \in ChainRecords
  BY <1>2, ChainIs
<1>4. CASE Ends(p) /\ syncQueue' = syncQueue
  <2>1. Rests(p)
    BY <1>2, <1>4, EndsTurns
  <2>2. May(p, "rest", NoFile, NoName, NoRecord, "none", fileIds)
    BY <1>2 DEF May, StorePcs, MakePcs, CopyPcs, SyncPcs
  <2> QED
    BY <1>1, <1>2, <1>4, <2>1, <2>2, SweepGoes DEF Rests
<1>5. ASSUME NEW f \in DOMAIN syncQueue \ chain[p].seen
      PROVE  LET next == [chain[p] EXCEPT !.file = f, !.seen = @ \cup {f}] IN
             (IF TriesAgain(f)
              THEN /\ Moves(p, IF fileData[f] = NoRecord THEN [next EXCEPT !.file = NoFile]
                               ELSE [next EXCEPT !.pc = "resend", !.name = fileData[f].name])
                   /\ UNCHANGED syncQueue
              ELSE /\ Moves(p, [next EXCEPT !.pc = "status", !.plan = "sync_failed_permanently"])
                   /\ syncQueue' = Dequeued(f))
             => FInv'
  <2>0. f \in fileIds /\ f \in FileIds
    BY DEF FInv, SendInv, WellInv, FilesWell
  <2>1. PICK next : next = [chain[p] EXCEPT !.file = f, !.seen = @ \cup {f}]
    OBVIOUS
  <2>2. /\ next \in ChainRecords /\ next.pc = "sweep" /\ next.file = f
        /\ next.name = chain[p].name /\ next.rec = chain[p].rec /\ next.plan = chain[p].plan
    BY <1>1, <1>3, <2>0, <2>1 DEF ChainRecords
  <2>3. CASE TriesAgain(f) /\ fileData[f] = NoRecord /\ Moves(p, [next EXCEPT !.file = NoFile])
             /\ syncQueue' = syncQueue
    <3>1. PICK d : d = [next EXCEPT !.file = NoFile]
      OBVIOUS
    <3>2. d \in ChainRecords /\ d.pc = "sweep" /\ d.file = NoFile
      BY <2>2, <3>1 DEF ChainRecords
    <3>3. Turns(p, "sweep", NoFile, d.name, d.rec, d.plan)
      BY <1>2, <2>3, <3>1, <3>2, MovesTurns
    <3>4. May(p, "sweep", NoFile, d.name, d.rec, d.plan, fileIds)
      BY <1>2 DEF May, StorePcs, MakePcs, CopyPcs, SyncPcs
    <3> QED
      BY <1>1, <1>2, <2>3, <3>3, <3>4, SweepGoes
  <2>4. CASE /\ TriesAgain(f) /\ fileData[f] # NoRecord /\ syncQueue' = syncQueue
             /\ Moves(p, [next EXCEPT !.pc = "resend", !.name = fileData[f].name])
    <3>0. PICK n : n = fileData[f].name
      OBVIOUS
    <3>1. n \in FileNames
      BY <2>0, <2>4, <3>0, WellSame, RecordFields DEF FInv
    <3>2. PICK d : d = [next EXCEPT !.pc = "resend", !.name = n]
      OBVIOUS
    <3>3. d \in ChainRecords /\ d.pc = "resend" /\ d.file = f /\ d.name = n
      BY <2>2, <3>1, <3>2 DEF ChainRecords
    <3>4. Turns(p, "resend", f, n, d.rec, d.plan)
      BY <1>2, <2>4, <3>0, <3>2, <3>3, MovesTurns
    <3>5. May(p, "resend", f, n, d.rec, d.plan, fileIds)
      BY <1>2, <2>0, <3>1 DEF May, StorePcs, MakePcs, CopyPcs, SyncPcs
    <3>6. /\ p \notin Resending(f) /\ Resending(f)' = Resending(f) \cup {p}
          /\ \A g : g # f => Resending(g)' = Resending(g)
      BY <1>1, <1>2, <3>4, Kinds DEF Resending, Turns
    <3>7. /\ Cardinality(Resending(f)') = Cardinality(Resending(f)) + 1
          /\ Cardinality(Resending(f)) + 1 <= Cardinality(FileSweeps)
          /\ Cardinality(Resending(f)) \in Nat
      BY <1>2, <3>6, Resenders
    <3>8. attempts[f] = syncQueue[f] + 1 /\ syncQueue[f] \in Nat /\ syncQueue[f] < FileRetries
      BY <2>4 DEF FInv, SendInv, TriesAgain
    <3>9. attempts'[f] + Cardinality(Resending(f)') <= FileRetries + Cardinality(FileSweeps)
      BY <1>1, <3>7, <3>8, SomeSweep
    <3>10. ~ Unsent(f) /\ ~ SentOnce(f) /\ chain'[f] = chain[f]
      BY <1>2, <2>0, <3>4, Kinds DEF Unsent, SentOnce, Turns
    <3>11. chain'[f].pc # "sync" /\ ~ (chain'[f].pc \in SyncPcs /\ chain'[f].plan = "sync_failed")
      BY <2>0, <3>10 DEF FInv, SendInv
    <3>12. /\ attempts' \in [FileIds -> Nat] /\ DOMAIN syncQueue' \subseteq fileIds
           /\ f \in DOMAIN syncQueue' => syncQueue'[f] \in Nat /\ attempts'[f] = syncQueue'[f] + 1
           /\ ~ (Unsent(f) /\ chain[f].pc = "rest")
      BY <1>1, <2>4, <3>8, <3>10 DEF FInv, SendInv
    <3>13. \A g \in FileIds : g # f =>
              /\ attempts'[g] = attempts[g] /\ Resending(g)' = Resending(g)
              /\ g \in DOMAIN syncQueue' <=> g \in DOMAIN syncQueue
              /\ g \in DOMAIN syncQueue => syncQueue'[g] = syncQueue[g]
      BY <1>1, <2>4, <3>6
    <3>14. SendInv'
      BY <1>2, <2>0, <3>4, <3>9, <3>11, <3>12, <3>13, SendBySync DEF FInv
    <3>15. canister' = canister /\ canister' \subseteq FileNames
      BY <1>1, WellSame DEF FInv, fileStores
    <3> QED
      BY <1>1, <1>2, <3>4, <3>5, <3>14, <3>15, SyncOnly DEF CopyPcs, HoldingPcs, fileStores
  <2>5. CASE /\ ~ TriesAgain(f) /\ syncQueue' = Dequeued(f)
             /\ Moves(p, [next EXCEPT !.pc = "status", !.plan = "sync_failed_permanently"])
    <3>1. PICK d : d = [next EXCEPT !.pc = "status", !.plan = "sync_failed_permanently"]
      OBVIOUS
    <3>2. d \in ChainRecords /\ d.pc = "status" /\ d.file = f /\ d.plan = "sync_failed_permanently"
      BY <2>2, <3>1 DEF ChainRecords, SyncPcs, Plans, Results
    <3>3. Turns(p, "status", f, d.name, d.rec, d.plan)
      BY <1>2, <2>5, <3>1, <3>2, MovesTurns
    <3>4. May(p, "status", f, d.name, d.rec, d.plan, fileIds)
      BY <1>2, <2>0, <3>2 DEF May, StorePcs, MakePcs, CopyPcs, SyncPcs, Results
    <3>5. SendInv'
      BY <1>1, <1>2, <2>5, <3>3, SendDropped DEF FInv
    <3> QED
      BY <1>1, <1>2, <3>3, <3>4, <3>5, SweepGoes
  <2> QED
    BY <2>1, <2>3, <2>4, <2>5
<1> QED
  BY <1>4, <1>5 DEF SweepVisits

\* A sweep sends the file again, and drops the entry or counts it.
LEMMA SweepSendsStep ==
    ASSUME FInv, cleanDeletes' = CleanDeletes, NEW p \in FileSweeps \cup FileIds, SweepSends(p),
           UNCHANGED <<filesByUser, filesByJob, disk, fileIds, reported, unlinked, deletedFiles,
                       fileUses, fileCrashes>>
    PROVE  FInv'
<1>0. PICK f : f = chain[p].file
  OBVIOUS
<1>1. /\ chain[p].pc = "resend" /\ fileData' = fileData
      /\ attempts' = [attempts EXCEPT ![f] = @ + 1]
      /\ canister' = canister \/ canister' = canister \cup {chain[p].name}
      /\ \/ Moves(p, WithStatus(p, "synced")) /\ syncQueue' = Dequeued(f)
         \/ Continues(p) /\ syncQueue' = Counted(f)
  BY <1>0 DEF SweepSends, Sends, At
<1>2. /\ p \in Chains /\ p \in FileSweeps /\ p \notin FileIds /\ p \notin FileCalls /\ ChainsFit
      /\ f \in fileIds /\ f \in FileIds /\ f # p /\ f \in Chains /\ chain[p].name \in FileNames
  BY <1>0, <1>1, SyncFile, WellChains, Kinds DEF FInv
<1>30. PICK pc \in {"status", "sweep"} : \E file, name, rec, plan :
          Turns(p, pc, file, name, rec, plan) /\ May(p, pc, file, name, rec, plan, fileIds)
  <2>1. CASE Moves(p, WithStatus(p, "synced"))
    <3>1. Turns(p, "status", f, NoName, chain[p].rec, "synced")
      BY <1>0, <1>2, <2>1, StatusTurns DEF Results
    <3>2. May(p, "status", f, NoName, chain[p].rec, "synced", fileIds)
      BY <1>2 DEF May, StorePcs, MakePcs, CopyPcs, SyncPcs, Results
    <3> QED
      BY <3>1, <3>2
  <2>2. CASE Continues(p)
    <3>1. Turns(p, "sweep", NoFile, NoName, NoRecord, "none")
      BY <1>2, <2>2, ContinuesTurns
    <3>2. May(p, "sweep", NoFile, NoName, NoRecord, "none", fileIds)
      BY <1>2 DEF May, StorePcs, MakePcs, CopyPcs, SyncPcs
    <3> QED
      BY <3>1, <3>2
  <2> QED
    BY <1>1, <2>1, <2>2
<1>3. PICK file, name, rec, plan :
         Turns(p, pc, file, name, rec, plan) /\ May(p, pc, file, name, rec, plan, fileIds)
  BY <1>30
<1>4. /\ p \in Resending(f) /\ Resending(f)' = Resending(f) \ {p}
      /\ \A g : g # f => Resending(g)' = Resending(g)
  BY <1>0, <1>1, <1>2, <1>3, Kinds DEF Resending, Turns
<1>5. Cardinality(Resending(f)') = Cardinality(Resending(f)) - 1 /\ Cardinality(Resending(f)) \in Nat
  BY <1>4, Resenders
<1>6. /\ attempts \in [FileIds -> Nat] /\ attempts' \in [FileIds -> Nat] /\ attempts'[f] = attempts[f] + 1
      /\ \A g \in FileIds : g # f => attempts'[g] = attempts[g]
  BY <1>1, <1>2 DEF FInv, SendInv
<1>7. attempts'[f] + Cardinality(Resending(f)') <= FileRetries + Cardinality(FileSweeps)
  <2>1. attempts[f] + Cardinality(Resending(f)) <= FileRetries + Cardinality(FileSweeps) /\ attempts[f] \in Nat
    BY <1>2, <1>6 DEF FInv, SendInv
  <2> QED
    BY <1>5, <1>6, <2>1, SomeSweep
<1>8. ~ Unsent(f) /\ ~ SentOnce(f) /\ chain'[f] = chain[f]
  BY <1>2, <1>3, <1>4 DEF Unsent, SentOnce, Turns
<1>9. chain'[f].pc # "sync" /\ ~ (chain'[f].pc \in SyncPcs /\ chain'[f].plan = "sync_failed")
  BY <1>2, <1>8 DEF FInv, SendInv
<1>10. /\ DOMAIN syncQueue' \subseteq DOMAIN syncQueue
       /\ \A g : g # f => /\ g \in DOMAIN syncQueue' <=> g \in DOMAIN syncQueue
                          /\ g \in DOMAIN syncQueue => syncQueue'[g] = syncQueue[g]
       /\ f \in DOMAIN syncQueue' => f \in DOMAIN syncQueue /\ syncQueue'[f] = syncQueue[f] + 1
  BY <1>1 DEF Dequeued, Counted
<1>11. /\ DOMAIN syncQueue' \subseteq fileIds
       /\ f \in DOMAIN syncQueue' => syncQueue'[f] \in Nat /\ attempts'[f] = syncQueue'[f] + 1
  BY <1>6, <1>10 DEF FInv, SendInv
<1>12. \A g \in FileIds : g # f =>
              /\ attempts'[g] = attempts[g] /\ Resending(g)' = Resending(g)
              /\ g \in DOMAIN syncQueue' <=> g \in DOMAIN syncQueue
              /\ g \in DOMAIN syncQueue => syncQueue'[g] = syncQueue[g]
  BY <1>4, <1>6, <1>10
<1>13. ~ (Unsent(f) /\ chain[f].pc = "rest")
  BY <1>8
<1>14. SendInv'
  BY <1>2, <1>3, <1>6, <1>7, <1>9, <1>11, <1>12, <1>13, SendBySync DEF FInv
<1>15. canister \subseteq canister' /\ canister' \subseteq FileNames
  BY <1>1, <1>2, WellSame DEF FInv
<1>16. pc \notin CopyPcs /\ pc \notin HoldingPcs
  BY DEF CopyPcs, HoldingPcs
<1> QED
  BY <1>1, <1>3, <1>14, <1>15, <1>16, SyncOnly

\* Every step of a synchronisation or a sweep.
LEMMA SyncStepStep ==
    ASSUME FInv, cleanDeletes' = CleanDeletes, NEW p \in FileSweeps \cup FileIds, SyncStep(p)
    PROVE  FInv'
BY SyncSendsStep, UpdateSyncStatusStep, SweepStartsStep, SweepVisitsStep, SweepSendsStep DEF SyncStep

-----------------------------------------------------------------------------
\* What is owed is a place a store can leave its content at.
LEMMA OwedIsAPlace ==
    ASSUME FInv, NEW f, NEW n, Owes(f, n)
    PROVE  n \in FileNames \cup {NoName}
<1>1. reported \subseteq fileIds \X (FileNames \cup {NoName})
  BY WellSame DEF FInv
<1>2. \A q \in FileCalls : Storing(q) => LocalName(q) \in FileNames \cup {NoName}
  BY StoreFacts
<1> QED
  BY <1>1, <1>2 DEF Owes

\* What a call that reads, completes or deletes a file holds.
LEMMA UseFacts ==
    ASSUME FInv, NEW p \in FileCalls, chain[p].pc \in UsePcs
    PROVE  /\ p \in Chains /\ ChainsFit
           /\ chain[p].file \in fileIds /\ chain[p].file \in FileIds
           /\ May(p, chain[p].pc, chain[p].file, chain[p].name, chain[p].rec, chain[p].plan, fileIds)
           /\ chain[p].pc \in CopyPcs =>
                 /\ chain[p].rec \in FileRecords
                 /\ \A n : Owes(chain[p].file, n) => Leads(chain[p].rec, n)
           /\ chain[p].pc \in DeletePcs => chain[p].file \in deletedFiles
<1>1. chain[p].pc # "rest" /\ p \in Chains /\ ChainsFit
  BY Kinds, WellChains DEF UsePcs, FInv
<1>2. May(p, chain[p].pc, chain[p].file, chain[p].name, chain[p].rec, chain[p].plan, fileIds)
  BY CallFile DEF FInv
<1>3. chain[p].file \in fileIds /\ chain[p].file \in FileIds
  BY <1>1, CallFile DEF FInv
<1>4. ASSUME chain[p].pc \in CopyPcs, NEW n, Owes(chain[p].file, n) PROVE Leads(chain[p].rec, n)
  BY <1>1, <1>3, <1>4, OwedIsAPlace DEF FInv, KeptInv, CopiesLead
<1>5. chain[p].pc \in CopyPcs => chain[p].rec \in FileRecords
  BY <1>2 DEF May
<1>6. chain[p].pc \in DeletePcs => chain[p].file \in deletedFiles
  BY DEF FInv, WellInv, FilesWell
<1> QED
  BY <1>1, <1>2, <1>3, <1>4, <1>5, <1>6

\* Where such a call may be.
LEMMA UseMay ==
    ASSUME NEW p \in FileCalls, NEW pc \in {"rest"} \cup UsePcs, NEW file, NEW name, NEW rec, NEW plan,
           file \in fileIds \cup {NoFile}, pc # "rest" => file \in fileIds,
           pc \in CopyPcs => rec \in FileRecords
    PROVE  May(p, pc, file, name, rec, plan, fileIds)
BY Kinds DEF May, UsePcs, StorePcs, MakePcs, SyncPcs, CopyPcs

\* A step of such a call: it lists nothing, and takes away content or a record
\* only as part of a delete.
LEMMA UseChainStep ==
    ASSUME FInv, cleanDeletes' = CleanDeletes, NEW p \in FileCalls,
           NEW pc \in {"rest"} \cup UsePcs, NEW file, NEW name, NEW rec, NEW plan,
           Turns(p, pc, file, name, rec, plan),
           file \in fileIds \cup {NoFile}, pc # "rest" => file \in fileIds,
           pc \in CopyPcs => rec \in FileRecords /\ \A n : Owes(file, n) => Leads(rec, n),
           UNCHANGED <<canister, syncQueue, fileIds, reported, attempts, fileCrashes>>,
           fileUses' \in 0 .. FileUses,
           disk' \subseteq FileNames, unlinked' \subseteq FileNames \cup {NoName},
           disk \cup unlinked \subseteq disk' \cup unlinked',
           filesByUser' \subseteq filesByUser, filesByJob' \subseteq filesByJob,
           deletedFiles \subseteq deletedFiles', deletedFiles' \subseteq fileIds,
           fileData' \in [FileIds -> FileRecords \cup {NoRecord}],
           \A g \in FileIds : g \notin fileIds => fileData'[g] = NoRecord,
           \A g \in FileIds : fileData'[g] = NoRecord => fileData[g] = NoRecord \/ g \in deletedFiles',
           \A g \in FileIds : fileData[g] = NoRecord /\ fileData'[g] # NoRecord => p \in Holders(g),
           \A g \in FileIds : \A n : fileData'[g] # NoRecord /\ fileData'[g] # fileData[g] /\ Owes(g, n) =>
              Leads(fileData[g], n)',
           pc \in HoldingPcs => p \in Holders(file) \/ fileData[file] # NoRecord,
           \A q \in FileCalls : chain[q].pc \in {"put", "create"} =>
              chain[q].file \notin deletedFiles' \ deletedFiles,
           pc \in DeletePcs =>
              /\ file \in deletedFiles'
              /\ \/ chain[p].pc \in DeletePcs /\ file = chain[p].file
                 \/ pc = "unlink" /\ chain[p].pc = "rest" /\ fileData[file] # NoRecord,
           pc = "unlistUser" => fileData'[file] = NoRecord,
           pc = "unlistJob" =>
              chain[p].pc = "unlistUser" /\ chain[p].file = file /\ file \notin filesByUser',
           chain[p].pc \in DeletePcs /\ pc \notin DeletePcs =>
              chain[p].pc = "unlistJob" /\ chain[p].file \notin filesByJob'
    PROVE  FInv'
<1>1. pc \notin StorePcs /\ pc \notin ToSend /\ pc \notin {"put", "create"}
  BY DEF UsePcs, StorePcs, MakePcs, ToSend
<1>2. May(p, pc, file, name, rec, plan, fileIds)
  BY UseMay
<1>3. WellStep(pc, file)
  BY WellSame DEF WellStep, FInv
<1>4. KeptStep(p, pc, file, name, rec, plan)
  BY <1>1 DEF KeptStep
<1>5. CleanStep(p, pc, file, name, rec, plan)
  BY <1>1 DEF CleanStep
<1> QED
  BY <1>1, <1>2, <1>3, <1>4, <1>5, CallGoesOn

\* A step that leaves the records and the listings alone, and is no part of a
\* delete.
LEMMA UseOnly ==
    ASSUME FInv, cleanDeletes' = CleanDeletes, NEW p \in FileCalls, chain[p].pc \in UsePcs \ DeletePcs,
           NEW pc \in {"rest", "open", "join", "access", "resolve", "fetch", "restore"},
           NEW file, NEW name, NEW rec, NEW plan, Turns(p, pc, file, name, rec, plan),
           pc # "rest" => file = chain[p].file, pc = "rest" => file = NoFile,
           pc \in CopyPcs => chain[p].pc \in CopyPcs \cap HoldingPcs,
           pc \in CopyPcs => rec \in FileRecords /\ (rec = chain[p].rec \/ (rec.path # NoName /\ chain[p].rec.path # NoName)),
           UNCHANGED <<fileData, filesByUser, filesByJob, canister, syncQueue, fileIds, reported,
                       unlinked, deletedFiles, attempts, fileUses, fileCrashes>>,
           disk \subseteq disk', disk' \subseteq FileNames
    PROVE  FInv'
<1>1. pc \in {"rest"} \cup UsePcs /\ pc \notin DeletePcs
  BY DEF UsePcs, DeletePcs
<1>2. /\ chain[p].file \in fileIds
      /\ chain[p].pc \in CopyPcs => \A n : Owes(chain[p].file, n) => Leads(chain[p].rec, n)
  BY UseFacts
<1>3. file \in fileIds \cup {NoFile} /\ (pc # "rest" => file \in fileIds)
  BY <1>2
<1>4. pc \in CopyPcs => rec \in FileRecords /\ \A n : Owes(file, n) => Leads(rec, n)
  <2> SUFFICES ASSUME pc \in CopyPcs, NEW n, Owes(file, n) PROVE Leads(rec, n)
    OBVIOUS
  <2>1. Leads(chain[p].rec, n)
    BY <1>2 DEF CopyPcs
  <2> QED
    BY <2>1 DEF Leads
<1>5. pc \in HoldingPcs => p \in Holders(file)
  BY MakingHolds DEF HoldingPcs, CopyPcs
<1>6. /\ fileData' \in [FileIds -> FileRecords \cup {NoRecord}]
      /\ \A g \in FileIds : g \notin fileIds => fileData'[g] = NoRecord
      /\ deletedFiles' \subseteq fileIds /\ fileUses' \in 0 .. FileUses
      /\ unlinked' \subseteq FileNames \cup {NoName}
  BY WellSame DEF FInv
<1>7. chain[p].pc \notin DeletePcs /\ pc \notin {"unlistUser", "unlistJob"}
  OBVIOUS
<1> QED
  BY <1>1, <1>3, <1>4, <1>5, <1>6, <1>7, UseChainStep

\* A step that ends a call, after it wrote the record it holds.
LEMMA UseWrites ==
    ASSUME FInv, cleanDeletes' = CleanDeletes, NEW p \in FileCalls, chain[p].pc \in {"join", "resolve"},
           Rests(p), fileData' = [fileData EXCEPT ![chain[p].file] = chain[p].rec],
           UNCHANGED <<filesByUser, filesByJob, disk, canister, syncQueue, fileIds, reported,
                       unlinked, deletedFiles, attempts, fileUses, fileCrashes>>
    PROVE  FInv'
<1>1. PICK f : f = chain[p].file
  OBVIOUS
<1>2. PICK r : r = chain[p].rec
  OBVIOUS
<1>3. chain[p].pc \in UsePcs /\ chain[p].pc \in CopyPcs /\ chain[p].pc \in HoldingPcs /\ chain[p].pc \notin DeletePcs
  BY DEF UsePcs, CopyPcs, HoldingPcs, DeletePcs
<1>4. f \in fileIds /\ f \in FileIds /\ r \in FileRecords /\ r # NoRecord /\ \A n : Owes(f, n) => Leads(r, n)
  BY <1>1, <1>2, <1>3, UseFacts, RecordFields
<1>5. p \in Holders(f)
  BY <1>1, <1>3, MakingHolds
<1>6. fileData'[f] = r /\ \A g \in FileIds : g # f => fileData'[g] = fileData[g]
  BY <1>1, <1>2, <1>4, WellSame DEF FInv
<1>7. /\ fileData' \in [FileIds -> FileRecords \cup {NoRecord}]
      /\ \A g \in FileIds : g \notin fileIds => fileData'[g] = NoRecord
      /\ deletedFiles' \subseteq fileIds /\ fileUses' \in 0 .. FileUses
      /\ unlinked' \subseteq FileNames \cup {NoName} /\ disk' \subseteq FileNames
  BY <1>1, <1>2, <1>4, <1>6, WellSame DEF FInv
<1>8. \A g \in FileIds : \A n : fileData'[g] # NoRecord /\ fileData'[g] # fileData[g] /\ Owes(g, n) =>
         Leads(fileData[g], n)'
  BY <1>4, <1>6 DEF Leads
<1>9. /\ \A g \in FileIds : fileData'[g] = NoRecord => fileData[g] = NoRecord \/ g \in deletedFiles'
      /\ \A g \in FileIds : fileData[g] = NoRecord /\ fileData'[g] # NoRecord => p \in Holders(g)
  BY <1>4, <1>5, <1>6
<1>10. "rest" \notin CopyPcs /\ "rest" \notin HoldingPcs /\ "rest" \notin DeletePcs
  BY DEF CopyPcs, HoldingPcs, DeletePcs
<1> QED
  BY <1>3, <1>7, <1>8, <1>9, <1>10, UseChainStep DEF Rests

\* getFile: the record that a call completes, reads or deletes.
LEMMA GetFileStep ==
    ASSUME FInv, cleanDeletes' = CleanDeletes, NEW p \in FileCalls, GetFile(p),
           UNCHANGED <<syncQueue, fileIds, reported, attempts, fileCrashes>>
    PROVE  FInv'
<1>1. PICK f \in Known, pc \in {"open", "access", "unlink"} :
         /\ fileData[f] # NoRecord
         /\ Moves(p, [AtRest EXCEPT !.pc = pc, !.file = f, !.rec = fileData[f]])
         /\ deletedFiles' = IF pc = "unlink" THEN deletedFiles \cup {f} ELSE deletedFiles
  BY DEF GetFile
<1>2. /\ chain[p].pc = "rest" /\ fileUses < FileUses /\ fileUses' = fileUses + 1
      /\ UNCHANGED <<fileData, filesByUser, filesByJob, disk, canister, unlinked>>
  BY DEF GetFile, At, fileStores
<1>3. f \in fileIds /\ f \in FileIds
  BY WellSame DEF Known, FInv
<1>4. PICK r \in FileRecords : r = fileData[f]
  BY <1>1, <1>3, WellSame DEF FInv
<1>5. PICK d : d = [AtRest EXCEPT !.pc = pc, !.file = f, !.rec = r]
  OBVIOUS
<1>6. pc \in UsePcs /\ pc \in AllPcs
  BY DEF UsePcs, AllPcs
<1>7. /\ d \in ChainRecords /\ d.pc = pc /\ d.file = f /\ d.name = NoName /\ d.rec = r /\ d.plan = "none"
  BY <1>3, <1>5, <1>6, AtRestFields DEF AtRest, ChainRecords
<1>8. Turns(p, pc, f, NoName, r, "none")
  <2>1. Moves(p, d)
    BY <1>1, <1>4, <1>5
  <2>2. ChainsFit /\ p \in Chains
    BY Kinds, WellChains DEF FInv
  <2> QED
    BY <1>7, <2>1, <2>2, MovesTurns
<1>9. \A n : Owes(f, n) => Leads(r, n)
  BY <1>1, <1>3, <1>4, OwedIsAPlace DEF FInv, KeptInv, CopiesLead
<1>10. \A q \in FileCalls : chain[q].pc \in {"put", "create"} => chain[q].file # f
  <2> SUFFICES ASSUME NEW q \in FileCalls, chain[q].pc \in {"put", "create"}, chain[q].file = f PROVE FALSE
    OBVIOUS
  <2>1. f \notin filesByUser
    BY DEF FInv, CleanInv
  <2>2. \A e \in reported : e[1] # f
    BY DEF FInv, KeptInv, StoresAlone, Storing, StorePcs, MakePcs
  <2> QED
    BY <2>1, <2>2 DEF Known
<1>11. fileUses' \in 0 .. FileUses
  BY <1>2, WellSame, FilesAssumption DEF FInv
<1>12. /\ deletedFiles \subseteq deletedFiles' /\ deletedFiles' \subseteq fileIds
       /\ \A q \in FileCalls : chain[q].pc \in {"put", "create"} =>
             chain[q].file \notin deletedFiles' \ deletedFiles
       /\ pc \in DeletePcs => f \in deletedFiles' /\ pc = "unlink"
  BY <1>1, <1>3, <1>10, WellSame DEF FInv, DeletePcs
<1>13. /\ fileData' \in [FileIds -> FileRecords \cup {NoRecord}]
       /\ \A g \in FileIds : g \notin fileIds => fileData'[g] = NoRecord
       /\ unlinked' \subseteq FileNames \cup {NoName} /\ disk' \subseteq FileNames
  BY <1>2, WellSame DEF FInv
<1>14. chain[p].pc \notin DeletePcs /\ pc \notin {"unlistUser", "unlistJob"}
  BY <1>2 DEF DeletePcs
<1>15. /\ UNCHANGED <<canister, fileData>> /\ disk \cup unlinked \subseteq disk' \cup unlinked'
       /\ filesByUser' \subseteq filesByUser /\ filesByJob' \subseteq filesByJob
       /\ fileData[f] # NoRecord
  BY <1>1, <1>2
<1> QED
  BY <1>2, <1>3, <1>6, <1>8, <1>9, <1>11, <1>12, <1>13, <1>14, <1>15, UseChainStep

\* completeFileUpload opens the file, joins the chunks and writes its copy.
LEMMA CompleteStep ==
    ASSUME FInv, cleanDeletes' = CleanDeletes, NEW p \in FileCalls, CompleteFileUpload(p),
           UNCHANGED <<filesByUser, filesByJob, canister, unlinked, deletedFiles, fileUses,
                       syncQueue, fileIds, reported, attempts, fileCrashes>>
    PROVE  FInv'
<1>1. CASE chain[p].pc = "open"
  <2>1. /\ chain[p].pc \in UsePcs \ DeletePcs /\ chain[p].pc \in CopyPcs \cap HoldingPcs
        /\ p \in Chains /\ ChainsFit /\ chain[p].rec \in FileRecords
    BY <1>1, UseFacts DEF UsePcs, DeletePcs, CopyPcs, HoldingPcs
  <2>2. fileData' = fileData
    BY <1>1 DEF CompleteFileUpload, At
  <2>3. disk \subseteq FileNames
    BY WellSame DEF FInv
  <2>4. CASE chain[p].rec.path = NoName
    <3>1. Ends(p) /\ disk' = disk
      BY <1>1, <2>4 DEF CompleteFileUpload, At
    <3>2. Rests(p)
      BY <2>1, <3>1, EndsTurns
    <3> QED
      BY <2>1, <2>2, <2>3, <3>1, <3>2, UseOnly DEF Rests, CopyPcs
  <2>5. CASE chain[p].rec.path # NoName
    <3>1. Goes(p, "join") /\ disk' = disk \cup {chain[p].rec.path}
      BY <1>1, <2>5 DEF CompleteFileUpload, At
    <3>2. Stays(p, "join")
      BY <2>1, <3>1, GoesTurns DEF AllPcs, UsePcs
    <3>3. chain[p].rec.path \in FileNames
      BY <2>1, <2>5, RecordFields
    <3> QED
      BY <2>1, <2>2, <2>3, <3>1, <3>2, <3>3, UseOnly DEF Stays
  <2> QED
    BY <2>4, <2>5
<1>2. CASE chain[p].pc = "join"
  <2>1. Ends(p) /\ fileData' = [fileData EXCEPT ![chain[p].file] = chain[p].rec] /\ disk' = disk
    BY <1>2 DEF CompleteFileUpload, At
  <2>2. Rests(p)
    BY <1>2, <2>1, EndsTurns, UseFacts DEF UsePcs
  <2> QED
    BY <1>2, <2>1, <2>2, UseWrites
<1> QED
  BY <1>1, <1>2 DEF CompleteFileUpload, At

\* getFileContent: the disk, another name of the stem, the canister.
LEMMA GetContentStep ==
    ASSUME FInv, cleanDeletes' = CleanDeletes, NEW p \in FileCalls, GetFileContent(p),
           UNCHANGED <<filesByUser, filesByJob, canister, unlinked, deletedFiles, fileUses,
                       syncQueue, fileIds, reported, attempts, fileCrashes>>
    PROVE  FInv'
<1>0. disk \subseteq FileNames /\ fileData \in [FileIds -> FileRecords \cup {NoRecord}]
  BY WellSame DEF FInv
<1>1. chain[p].pc \in {"access", "resolve", "fetch", "restore"}
  BY DEF GetFileContent, At
<1>2. /\ chain[p].pc \in UsePcs \ DeletePcs /\ p \in Chains /\ ChainsFit
      /\ chain[p].file \in fileIds /\ chain[p].file \in FileIds
  BY <1>1, UseFacts DEF UsePcs, DeletePcs
<1>3. ASSUME Ends(p), fileData' = fileData, disk \subseteq disk', disk' \subseteq FileNames PROVE FInv'
  <2>1. Rests(p)
    BY <1>2, <1>3, EndsTurns
  <2> QED
    BY <1>2, <1>3, <2>1, UseOnly DEF Rests, CopyPcs
<1>4. CASE chain[p].pc = "access"
  <2>1. fileData' = fileData /\ disk' = disk
    BY <1>4 DEF GetFileContent, At
  <2>2. PICK r \in FileRecords : r = chain[p].rec
    BY <1>2, <1>4, UseFacts DEF CopyPcs
  <2>3. CASE Moves(p, [chain[p] EXCEPT !.pc = "fetch", !.rec = NoRecord])
    <3>1. Turns(p, "fetch", chain[p].file, chain[p].name, NoRecord, chain[p].plan)
      BY <1>2, <2>3, ReadTurns DEF AllPcs, UsePcs
    <3> QED
      BY <1>0, <1>2, <2>1, <3>1, UseOnly DEF CopyPcs
  <2>4. ASSUME NEW n \in Alternatives(r),
               Moves(p, [chain[p] EXCEPT !.pc = "resolve",
                                         !.rec = [@ EXCEPT !.path = n, !.name = n]])
        PROVE  FInv'
    <3>1. n \in FileNames /\ r.path # NoName /\ n # NoName
      BY <1>0, <2>4, FilesAssumption DEF Alternatives
    <3>2. PICK s : s = [r EXCEPT !.path = n, !.name = n]
      OBVIOUS
    <3>3. s \in FileRecords /\ s.path = n
      BY <3>1, <3>2, ChangedRecords
    <3>4. PICK d : d = [chain[p] EXCEPT !.pc = "resolve", !.rec = s]
      OBVIOUS
    <3>5. d = [chain[p] EXCEPT !.pc = "resolve", !.rec = [@ EXCEPT !.path = n, !.name = n]]
      <4>1. chain[p] \in ChainRecords
        BY <1>2, ChainIs
      <4> QED
        BY <2>2, <3>2, <3>4, <4>1 DEF ChainRecords
    <3>6. Moves(p, [chain[p] EXCEPT !.pc = "resolve", !.rec = s])
      BY <2>4, <3>4, <3>5
    <3>7. Turns(p, "resolve", chain[p].file, chain[p].name, s, chain[p].plan)
      BY <1>2, <3>3, <3>6, ReadTurns DEF AllPcs, UsePcs
    <3>8. chain[p].pc \in CopyPcs \cap HoldingPcs
      BY <1>4 DEF CopyPcs, HoldingPcs
    <3> QED
      BY <1>0, <1>2, <2>1, <2>2, <3>1, <3>3, <3>7, <3>8, UseOnly
  <2>5. \/ Ends(p) 
        \/ Moves(p, [chain[p] EXCEPT !.pc = "fetch", !.rec = NoRecord])
        \/ \E n \in Alternatives(r) :
              Moves(p, [chain[p] EXCEPT !.pc = "resolve", !.rec = [@ EXCEPT !.path = n,
                                                                            !.name = n]])
    BY <1>4, <2>2 DEF GetFileContent, At
  <2> QED
    BY <1>0, <1>3, <2>1, <2>3, <2>4, <2>5
<1>5. CASE chain[p].pc = "resolve"
  <2>1. Ends(p) /\ fileData' = [fileData EXCEPT ![chain[p].file] = chain[p].rec] /\ disk' = disk
    BY <1>5 DEF GetFileContent, At
  <2>2. Rests(p)
    BY <1>2, <2>1, EndsTurns
  <2> QED
    BY <1>5, <2>1, <2>2, UseWrites
<1>6. CASE chain[p].pc = "fetch"
  <2>1. fileData' = fileData /\ disk' = disk /\ (Goes(p, "restore") \/ Ends(p))
    BY <1>6 DEF GetFileContent, At
  <2>2. CASE Goes(p, "restore")
    <3>1. Stays(p, "restore")
      BY <1>2, <2>2, GoesTurns DEF AllPcs, UsePcs
    <3> QED
      BY <1>0, <1>2, <2>1, <3>1, UseOnly DEF Stays, CopyPcs
  <2> QED
    BY <1>0, <1>3, <2>1, <2>2
<1>7. CASE chain[p].pc = "restore"
  <2>1. /\ fileData' = fileData /\ Ends(p)
        /\ disk' = IF fileData[chain[p].file] # NoRecord /\ fileData[chain[p].file].path # NoName
                   THEN disk \cup {fileData[chain[p].file].path} ELSE disk
    BY <1>7 DEF GetFileContent, At
  <2>2. fileData[chain[p].file] # NoRecord => fileData[chain[p].file].path \in FileNames \cup {NoName}
    BY <1>0, <1>2, RecordFields
  <2>3. disk \subseteq disk' /\ disk' \subseteq FileNames
    BY <1>0, <2>1, <2>2
  <2> QED
    BY <1>3, <2>1, <2>3
<1> QED
  BY <1>1, <1>4, <1>5, <1>6, <1>7

\* deleteFile: the content, the record, the two listings.
LEMMA DeleteFileStep ==
    ASSUME FInv, cleanDeletes' = CleanDeletes, NEW p \in FileCalls, DeleteFile(p),
           UNCHANGED <<canister, deletedFiles, fileUses, syncQueue, fileIds, reported, attempts,
                       fileCrashes>>
    PROVE  FInv'
<1>0. PICK f : f = chain[p].file
  OBVIOUS
<1>1. chain[p].pc \in DeletePcs
  BY DEF DeleteFile, At, DeletePcs
<1>2. /\ chain[p].pc \in UsePcs /\ p \in Chains /\ ChainsFit /\ f \in fileIds /\ f \in FileIds
      /\ f \in deletedFiles
  BY <1>0, <1>1, UseFacts DEF UsePcs, DeletePcs
<1>3. /\ fileData \in [FileIds -> FileRecords \cup {NoRecord}] /\ disk \subseteq FileNames
      /\ \A g \in FileIds : g \notin fileIds => fileData[g] = NoRecord
      /\ unlinked \subseteq FileNames \cup {NoName} /\ deletedFiles' \subseteq fileIds
      /\ fileUses' \in 0 .. FileUses
  BY WellSame DEF FInv
<1>4. CASE chain[p].pc = "unlink"
  <2>1. /\ disk' = disk \ {chain[p].rec.path} /\ unlinked' = unlinked \cup {chain[p].rec.path}
        /\ Moves(p, [chain[p] EXCEPT !.pc = "del", !.rec = NoRecord])
        /\ UNCHANGED <<fileData, filesByUser, filesByJob>>
    BY <1>4 DEF DeleteFile, At
  <2>2. Turns(p, "del", f, chain[p].name, NoRecord, chain[p].plan)
    BY <1>0, <1>2, <2>1, ReadTurns DEF AllPcs, UsePcs
  <2>3. chain[p].rec.path \in FileNames \cup {NoName}
    BY <1>2, <1>4, UseFacts, RecordFields DEF CopyPcs
  <2>4. disk' \subseteq FileNames /\ unlinked' \subseteq FileNames \cup {NoName}
        /\ disk \cup unlinked \subseteq disk' \cup unlinked'
    BY <1>3, <2>1, <2>3
  <2>5. "del" \in UsePcs /\ "del" \notin CopyPcs /\ "del" \notin HoldingPcs /\ "del" \in DeletePcs
    BY DEF UsePcs, CopyPcs, HoldingPcs, DeletePcs
  <2> QED
    BY <1>0, <1>1, <1>2, <1>3, <2>1, <2>2, <2>4, <2>5, UseChainStep
<1>5. CASE chain[p].pc = "del"
  <2>1. /\ fileData' = [fileData EXCEPT ![f] = NoRecord] /\ Goes(p, "unlistUser")
        /\ UNCHANGED <<filesByUser, filesByJob, disk, unlinked>>
    BY <1>0, <1>5 DEF DeleteFile, At
  <2>2. Stays(p, "unlistUser")
    BY <1>2, <2>1, GoesTurns DEF AllPcs, UsePcs
  <2>3. /\ fileData' \in [FileIds -> FileRecords \cup {NoRecord}] /\ fileData'[f] = NoRecord
        /\ \A g \in FileIds : g # f => fileData'[g] = fileData[g]
    BY <1>2, <1>3, <2>1
  <2>4. /\ \A g \in FileIds : g \notin fileIds => fileData'[g] = NoRecord
        /\ \A g \in FileIds : fileData'[g] = NoRecord => fileData[g] = NoRecord \/ g \in deletedFiles'
        /\ \A g \in FileIds : fileData'[g] # NoRecord => fileData'[g] = fileData[g]
    BY <1>2, <1>3, <2>3
  <2>5. /\ "unlistUser" \in UsePcs /\ "unlistUser" \notin CopyPcs /\ "unlistUser" \notin HoldingPcs
        /\ "unlistUser" \in DeletePcs
    BY DEF UsePcs, CopyPcs, HoldingPcs, DeletePcs
  <2> QED
    BY <1>0, <1>1, <1>2, <1>3, <2>1, <2>2, <2>3, <2>4, <2>5, UseChainStep DEF Stays
<1>6. CASE chain[p].pc = "unlistUser"
  <2>1. /\ filesByUser' = filesByUser \ {f} /\ Goes(p, "unlistJob")
        /\ UNCHANGED <<fileData, filesByJob, disk, unlinked>>
    BY <1>0, <1>6 DEF DeleteFile, At
  <2>2. Stays(p, "unlistJob")
    BY <1>2, <2>1, GoesTurns DEF AllPcs, UsePcs
  <2>5. /\ "unlistJob" \in UsePcs /\ "unlistJob" \notin CopyPcs /\ "unlistJob" \notin HoldingPcs
        /\ "unlistJob" \in DeletePcs
    BY DEF UsePcs, CopyPcs, HoldingPcs, DeletePcs
  <2> QED
    BY <1>0, <1>1, <1>2, <1>3, <1>6, <2>1, <2>2, <2>5, UseChainStep DEF Stays
<1>7. CASE chain[p].pc = "unlistJob"
  <2>1. /\ filesByJob' = filesByJob \ {f} /\ Ends(p)
        /\ UNCHANGED <<fileData, filesByUser, disk, unlinked>>
    BY <1>0, <1>7 DEF DeleteFile, At
  <2>2. Rests(p)
    BY <1>2, <2>1, EndsTurns
  <2>5. "rest" \notin CopyPcs /\ "rest" \notin HoldingPcs /\ "rest" \notin DeletePcs
    BY DEF CopyPcs, HoldingPcs, DeletePcs
  <2> QED
    BY <1>0, <1>2, <1>3, <1>7, <2>1, <2>2, <2>5, UseChainStep DEF Rests
<1> QED
  BY <1>1, <1>4, <1>5, <1>6, <1>7 DEF DeletePcs

\* Every step of a call that completes, reads or deletes a file.
LEMMA UseStepStep ==
    ASSUME FInv, cleanDeletes' = CleanDeletes, NEW p \in FileCalls, UseStep(p)
    PROVE  FInv'
BY GetFileStep, CompleteStep, GetContentStep, DeleteFileStep DEF UseStep

-----------------------------------------------------------------------------
\* A crash ends every chain; the records, the listings and the disk stay.
LEMMA CrashStep ==
    ASSUME FInv, cleanDeletes' = CleanDeletes, FileCrash
    PROVE  FInv'
<1>1. /\ fileCrashes < FileCrashes /\ fileCrashes' = fileCrashes + 1
      /\ chain' = [p \in Chains |-> AtRest] /\ syncQueue' = [f \in {} |-> 0]
      /\ UNCHANGED <<fileData, filesByUser, filesByJob, disk, canister, fileIds, reported, unlinked,
                     deletedFiles, attempts, fileUses>>
  BY DEF FileCrash, fileStores
<1>2. \A p \in Chains : chain'[p] = AtRest
  BY <1>1
<1>3. /\ \A p \in FileCalls : chain'[p] = AtRest
      /\ \A p \in FileSweeps : chain'[p] = AtRest
      /\ \A p \in FileIds : chain'[p] = AtRest
  BY <1>2, Kinds
<1>4. ASSUME NEW p \in Chains PROVE Fits(p, AtRest, fileIds')
  BY AtRestFields DEF Fits, May, StorePcs, MakePcs, SyncPcs, CopyPcs
<1>5. WellInv'
  <2>1. ChainsFit'
    BY <1>1, <1>2, <1>4 DEF ChainsFit
  <2>2. fileCrashes' \in 0 .. FileCrashes
    BY <1>1, FilesAssumption DEF FInv, WellInv, FilesWell
  <2>3. \A p \in FileCalls : chain'[p].pc \notin DeletePcs
    BY <1>3, AtRestFields DEF DeletePcs
  <2>4. FilesWell'
    BY <1>1, <2>2, <2>3 DEF FInv, WellInv, FilesWell
  <2> QED
    BY <2>1, <2>4 DEF WellInv
<1>6. SendInv'
  <2>1. \A f : Resending(f)' = {}
    BY <1>3, AtRestFields DEF Resending
  <2>2. DOMAIN syncQueue' = {}
    BY <1>1
  <2>3. \A f \in FileIds : Unsent(f) => Unsent(f)'
    BY <1>1, <2>1, <2>2 DEF Unsent
  <2>4. \A f \in FileIds : attempts'[f] + Cardinality(Resending(f)') <= FileRetries + Cardinality(FileSweeps)
    <3> SUFFICES ASSUME NEW f \in FileIds
                 PROVE  attempts'[f] + Cardinality(Resending(f)') <= FileRetries + Cardinality(FileSweeps)
      OBVIOUS
    <3>1. attempts[f] + Cardinality(Resending(f)) <= FileRetries + Cardinality(FileSweeps)
      BY DEF FInv, SendInv
    <3>2. Cardinality(Resending(f)) \in Nat /\ attempts[f] \in Nat
      BY Resenders DEF FInv, SendInv
    <3>3. attempts'[f] = attempts[f] /\ Cardinality(Resending(f)') = 0
      BY <1>1, <2>1, SomeSweep
    <3> QED
      BY <3>1, <3>2, <3>3, SomeSweep
  <2>5. \A p \in FileCalls : chain'[p].pc \notin ToSend
    BY <1>3, AtRestFields DEF ToSend
  <2>6. \A f \in FileIds : chain'[f].pc = "rest" /\ chain'[f].pc \notin SyncPcs
    BY <1>3, AtRestFields DEF SyncPcs
  <2>7. attempts' \in [FileIds -> Nat] /\ \A f \in FileIds : f \notin fileIds' => Unsent(f)'
    BY <1>1, <2>3 DEF FInv, SendInv
  <2> QED
    BY <2>2, <2>4, <2>5, <2>6, <2>7 DEF SendInv
<1>7. KeptInv'
  <2>1. \A p \in FileCalls : ~Storing(p)' /\ chain'[p].pc \notin StorePcs
    BY <1>3, AtRestFields DEF Storing, StorePcs, MakePcs
  <2>2. \A p \in Chains : chain'[p].pc \notin CopyPcs
    BY <1>2, AtRestFields DEF CopyPcs
  <2>3. \A g, n : Owes(g, n)' => Owes(g, n)
    BY <1>1, <2>1 DEF Owes
  <2>4. \A g \in FileIds, n \in FileNames \cup {NoName} : Owes(g, n)' => CopiesLead(g, n)'
    <3> SUFFICES ASSUME NEW g \in FileIds, NEW n \in FileNames \cup {NoName}, Owes(g, n)
                 PROVE  CopiesLead(g, n)'
      BY <2>3
    <3>1. CopiesLead(g, n)
      BY DEF FInv, KeptInv
    <3>2. fileData'[g] # NoRecord => Leads(fileData[g], n)'
      BY <1>1, <3>1 DEF CopiesLead, Leads
    <3> QED
      BY <2>2, <3>2 DEF CopiesLead
  <2>5. StoresAlone'
    BY <2>1 DEF StoresAlone
  <2>6. /\ \A p \in FileCalls : chain'[p].pc # "announce"
        /\ \A p \in FileCalls : chain'[p].pc \notin {"hash", "dual", "strategy", "stamp"}
    BY <1>3, AtRestFields
  <2>7. \A e \in reported' :
          /\ e[1] \notin deletedFiles' => fileData'[e[1]] # NoRecord
          /\ e[2] # NoName => e[2] \in disk' \cup unlinked'
    BY <1>1 DEF FInv, KeptInv
  <2> QED
    BY <2>1, <2>4, <2>5, <2>6, <2>7 DEF KeptInv
<1>8. CleanInv'
  <2>1. \A f \in cleanDeletes' : f \in cleanDeletes /\ ~Deleting(f)
    <3> SUFFICES ASSUME NEW f \in cleanDeletes', fileCrashes' = fileCrashes PROVE FALSE
      BY DEF CleanDeletes
    <3> QED
      BY <1>1, FilesAssumption DEF FInv, WellInv, FilesWell
  <2>2. \A f : Holders(f)' = {}
    BY <1>2, AtRestFields DEF Holders
  <2>3. \A f : Gone(f) => Gone(f)'
    BY <1>1 DEF Gone
  <2>4. \A p \in FileCalls : chain'[p].pc \notin {"put", "create", "unlistUser", "unlistJob"}
    BY <1>3, AtRestFields
  <2> QED
    BY <1>1, <2>1, <2>2, <2>3, <2>4 DEF FInv, CleanInv
<1> QED
  BY <1>5, <1>6, <1>7, <1>8 DEF FInv

\* At first nothing is stored and every chain rests.
LEMMA FilesBegin == FileInit => FInv
<1> SUFFICES ASSUME FileInit PROVE FInv
  OBVIOUS
<1>1. /\ fileData = [f \in FileIds |-> NoRecord] /\ chain = [p \in Chains |-> AtRest]
      /\ syncQueue = [f \in {} |-> 0] /\ attempts = [f \in FileIds |-> 0]
      /\ filesByUser = {} /\ filesByJob = {} /\ disk = {} /\ canister = {} /\ fileIds = {}
      /\ reported = {} /\ unlinked = {} /\ deletedFiles = {} /\ cleanDeletes = {}
      /\ fileUses = 0 /\ fileCrashes = 0
  BY DEF FileInit, FileInitWith
<1>2. /\ \A p \in FileCalls : chain[p] = AtRest
      /\ \A p \in FileSweeps : chain[p] = AtRest
      /\ \A p \in FileIds : chain[p] = AtRest
  BY <1>1, Kinds
<1>3. WellInv
  <2>1. \A p \in Chains : Fits(p, AtRest, fileIds)
    BY AtRestFields DEF Fits, May, StorePcs, MakePcs, SyncPcs, CopyPcs
  <2>2. ChainsFit
    BY <1>1, <2>1 DEF ChainsFit
  <2>3. \A p \in FileCalls : chain[p].pc \notin DeletePcs
    BY <1>2, AtRestFields DEF DeletePcs
  <2>4. fileUses \in 0 .. FileUses /\ fileCrashes \in 0 .. FileCrashes
    BY <1>1, FilesAssumption
  <2>5. FilesWell
    BY <1>1, <2>3, <2>4 DEF FilesWell
  <2> QED
    BY <2>2, <2>5 DEF WellInv
<1>4. SendInv
  <2>1. \A f : Resending(f) = {}
    BY <1>2, AtRestFields DEF Resending
  <2>2. DOMAIN syncQueue = {} /\ attempts \in [FileIds -> Nat] /\ \A f \in FileIds : attempts[f] = 0
    BY <1>1
  <2>3. \A f \in FileIds : Unsent(f)
    BY <2>1, <2>2 DEF Unsent
  <2>4. \A f \in FileIds : attempts[f] + Cardinality(Resending(f)) <= FileRetries + Cardinality(FileSweeps)
    <3>1. \A f \in FileIds : Cardinality(Resending(f)) = 0
      BY <2>1, SomeSweep
    <3>2. 0 <= FileRetries + Cardinality(FileSweeps)
      BY SomeSweep
    <3> QED
      BY <2>2, <3>1, <3>2
  <2>5. /\ \A p \in FileCalls : chain[p].pc \notin ToSend
        /\ \A f \in FileIds : chain[f].pc = "rest" /\ chain[f].pc \notin SyncPcs
    BY <1>2, AtRestFields DEF ToSend, SyncPcs
  <2> QED
    BY <2>2, <2>3, <2>4, <2>5 DEF SendInv
<1>5. KeptInv
  <2>1. \A p \in FileCalls : ~Storing(p) /\ chain[p].pc \notin StorePcs
    BY <1>2, AtRestFields DEF Storing, StorePcs, MakePcs
  <2>2. \A g, n : ~Owes(g, n)
    BY <1>1, <2>1 DEF Owes
  <2>3. \A p \in FileCalls : chain[p].pc \notin {"announce", "hash", "dual", "strategy", "stamp"}
    BY <1>2, AtRestFields
  <2> QED
    BY <1>1, <2>1, <2>2, <2>3 DEF KeptInv, StoresAlone
<1>6. CleanInv
  <2>1. \A p \in FileCalls : chain[p].pc \notin {"put", "create"}
    BY <1>2, AtRestFields
  <2> QED
    BY <1>1, <2>1 DEF CleanInv
<1> QED
  BY <1>3, <1>4, <1>5, <1>6 DEF FInv

\* Nothing happens.
LEMMA FilesStutter == FInv /\ UNCHANGED fileVars => FInv'
<1> SUFFICES ASSUME FInv, UNCHANGED fileVars PROVE FInv'
  OBVIOUS
<1>0. UNCHANGED <<fileData, filesByUser, filesByJob, disk, canister, syncQueue, chain, fileIds, reported,
                  unlinked, deletedFiles, cleanDeletes, attempts, fileUses, fileCrashes>>
  BY DEF fileVars, fileStores
<1>1. WellInv'
  BY <1>0 DEF FInv, WellInv, ChainsFit, FilesWell
<1>2. SendInv'
  BY <1>0 DEF FInv, SendInv, Unsent, SentOnce, Resending
<1>3. KeptInv'
  BY <1>0 DEF FInv, KeptInv, StoresAlone, Storing, Owes, LocalName, CopiesLead, Leads
<1>4. CleanInv'
  BY <1>0 DEF FInv, CleanInv, Gone, Holders, Deleting
<1> QED
  BY <1>1, <1>2, <1>3, <1>4 DEF FInv

\* Every step of the stores, the retries and the calls keeps the invariant.
LEMMA FilesStep == FInv /\ [FileNext]_fileVars => FInv'
<1> SUFFICES ASSUME FInv, [FileNext]_fileVars PROVE FInv'
  OBVIOUS
<1>1. CASE FileNext
  <2>1. cleanDeletes' = CleanDeletes
    BY <1>1 DEF FileNext
  <2>2. ASSUME NEW p \in FileCalls, StoreFile(p) PROVE FInv'
    BY <2>1, <2>2, StoreFileStep
  <2>3. ASSUME NEW p \in FileCalls, StoreStep(p) PROVE FInv'
    BY <2>1, <2>3, StoreStepStep
  <2>4. ASSUME NEW p \in FileCalls, DualStep(p) PROVE FInv'
    BY <2>1, <2>4, DualStepStep
  <2>5. ASSUME NEW p \in FileCalls, UseStep(p) PROVE FInv'
    BY <2>1, <2>5, UseStepStep
  <2>6. ASSUME NEW p \in FileSweeps \cup FileIds, SyncStep(p) PROVE FInv'
    BY <2>1, <2>6, SyncStepStep
  <2>7. CASE FileCrash
    BY <2>1, <2>7, CrashStep
  <2> QED
    BY <1>1, <2>2, <2>3, <2>4, <2>5, <2>6, <2>7 DEF FileNext, FileStep
<1>2. CASE UNCHANGED fileVars
  BY <1>2, FilesStutter
<1> QED
  BY <1>1, <1>2

\* So it holds throughout.
LEMMA FilesInv == FileSpec => []FInv
BY FilesBegin, FilesStep, PTL DEF FileSpec

-----------------------------------------------------------------------------
\* The type invariant: the content of a file is sent once, once per retry and
\* once more for each sweep that overlaps another, whatever chains overlap and
\* wherever the server crashes.
THEOREM FilesTypeCorrect == FileSpec => []FileTypeOK
<1>1. FInv => FileTypeOK
  <2> SUFFICES ASSUME FInv PROVE FileTypeOK
    OBVIOUS
  <2>1. ASSUME NEW p \in Chains PROVE chain[p].file \in fileIds \cup {NoFile}
    BY DEF FInv, WellInv, ChainsFit, Fits, May
  <2>2. ASSUME NEW f \in FileIds
        PROVE  /\ attempts[f] \in 0 .. FileRetries + Cardinality(FileSweeps)
               /\ f \in DOMAIN syncQueue => syncQueue[f] \in 0 .. FileRetries + Cardinality(FileSweeps) - 1
    <3>1. Cardinality(Resending(f)) \in Nat /\ attempts[f] \in Nat
      BY Resenders DEF FInv, SendInv
    <3>2. attempts[f] + Cardinality(Resending(f)) <= FileRetries + Cardinality(FileSweeps)
      BY DEF FInv, SendInv
    <3>3. f \in DOMAIN syncQueue => syncQueue[f] \in Nat /\ attempts[f] = syncQueue[f] + 1
      BY DEF FInv, SendInv
    <3> QED
      BY <3>1, <3>2, <3>3, SomeSweep
  <2>3. DOMAIN syncQueue \subseteq FileIds
    BY DEF FInv, SendInv, WellInv, FilesWell
  <2>4. \A f \in DOMAIN syncQueue : syncQueue[f] \in 0 .. FileRetries + Cardinality(FileSweeps) - 1
    BY <2>2, <2>3
  <2>5. reported \subseteq FileIds \X (FileNames \cup {NoName}) /\ DOMAIN chain = Chains
    BY DEF FInv, WellInv, FilesWell, ChainsFit
  <2>6. cleanDeletes \subseteq deletedFiles
    BY DEF FInv, CleanInv
  <2> QED
    BY <2>1, <2>2, <2>3, <2>4, <2>5, <2>6 DEF FileTypeOK, FInv, WellInv, FilesWell
<1> QED
  BY <1>1, FilesInv, PTL

\* A file whose store reported success can be read until it is deleted or its
\* name is: every copy of its record, in the store or in a chain that will
\* write it back, leads to the content.
THEOREM StoredStaysReadable == FileSpec => []StoredIsReadable
<1>1. FInv => StoredIsReadable
  <2> SUFFICES ASSUME FInv, NEW f \in FileIds, NEW n \in FileNames \cup {NoName},
                      <<f, n>> \in reported, f \notin deletedFiles, n \notin unlinked
               PROVE  /\ fileData[f] # NoRecord
                      /\ Readable(fileData[f])
                      /\ n \in disk \cup {NoName}
    BY DEF StoredIsReadable
  <2>1. fileData[f] # NoRecord /\ (n # NoName => n \in disk)
    <3>1. PICK e \in reported : e = <<f, n>>
      OBVIOUS
    <3>2. e[1] = f /\ e[2] = n
      BY <3>1
    <3> QED
      BY <3>2 DEF FInv, KeptInv
  <2>2. Leads(fileData[f], n)
    BY <2>1 DEF FInv, KeptInv, CopiesLead, Owes
  <2>3. CASE n = NoName
    <3>1. fileData[f].path = NoName /\ fileData[f].key \in canister
      BY <2>2, <2>3 DEF Leads
    <3>2. fileData[f].key # NoName
      BY <3>1, FilesAssumption, WellSame DEF FInv
    <3> QED
      BY <2>1, <2>3, <3>1, <3>2 DEF Readable, CanisterKey
  <2>4. CASE n # NoName
    <3>1. fileData[f].path # NoName /\ n \in disk
      BY <2>1, <2>2, <2>4 DEF Leads
    <3>2. Alternatives(fileData[f]) # {}
      BY <3>1 DEF Alternatives
    <3> QED
      BY <2>1, <3>1, <3>2 DEF Readable
  <2> QED
    BY <2>3, <2>4
<1> QED
  BY <1>1, FilesInv, PTL

\* A file deleted while nobody held a copy of its record stays deleted and
\* unlisted: what comes later finds no record to write back.
THEOREM DeletedForGood == FileSpec => []DeletedStaysDeleted
<1>1. FInv => DeletedStaysDeleted
  BY DEF FInv, CleanInv, Gone, DeletedStaysDeleted
<1> QED
  BY <1>1, FilesInv, PTL
=============================================================================
