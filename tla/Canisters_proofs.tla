-------------------------- MODULE Canisters_proofs --------------------------
(***************************************************************************)
(* Proofs about the two canisters, for any number of nodes, jobs, clients  *)
(* and calls in progress: the database canister pays a node at most once   *)
(* for every assignment, and the messages of the node canister are         *)
(* numbered, certified and polled in order.                                *)
(***************************************************************************)
EXTENDS CanisterJobs, CanisterSockets, FiniteSetTheorems, SequenceTheorems, TLAPS

(***************************************************************************)
(* The database canister.                                                  *)
(***************************************************************************)
\* What a call may still have to run.
Works == {<<"readSession", "work">>, <<"work">>}
Pays == {<<"complete", "file", "pay">>, <<"file", "pay">>, <<"pay">>}
Chosen == <<"choose", "assign", "readSession", "work">>
Todos == Works \cup Pays \cup {Assigning, Chosen} \cup
    {<<>>, <<"put">>, <<"session", "setId">>, <<"setId">>, <<"release">>, <<"leave">>,
     <<"release", "leave">>,
     <<"chooseGiven", "assign", "readSession", "work">>,
     <<"leave", "release", "choose", "assign", "readSession", "work">>,
     <<"release", "choose", "assign", "readSession", "work">>}

Entities == [known : BOOLEAN, id : Nat, job : DcJobs \cup {DcNoJob}, working : BOOLEAN,
             online : BOOLEAN, balance : Nat]
JobEntities == [state : {"none", "pending", "ongoing", "completed"}, filed : BOOLEAN]
CallRecords == [todo : Todos, node : DcNodes, job : DcJobs \cup {DcNoJob}, id : Nat,
                seen : Entities]

DcTypeOK ==
    /\ dcClient \in [DcNodes -> Entities]
    /\ dcJob \in [DcJobs -> JobEntities]
    /\ dcCall \in [DcCalls -> CallRecords]
    /\ dcOwner \in Seq(DcNodes)
    /\ dcAssigned \in [DcNodes -> Nat]
    /\ dcGranted \in [DcNodes -> Nat]

\* Calls that assigned a job to p and have not yet written it to p's record.
Assigners(p) == {c \in DcCalls : dcCall[c].node = p /\ dcCall[c].todo \in Works}

Earned(p) == dcAssigned[p] + dcGranted[p]
Holding(p) == IF dcClient[p].job = DcNoJob THEN 0 ELSE 1

\* A node's balance, the job it holds and those on their way to its record
\* are all covered by its assignments: an answer may still be paid for each.
HeldIsCovered ==
    \A p \in DcNodes :
        dcClient[p].balance + Holding(p) + Cardinality(Assigners(p)) <= Earned(p)

\* So is the balance a paying call is going to write, from the one it read.
PaidIsCovered ==
    \A c \in DcCalls, p \in DcNodes : dcCall[c].todo \in Pays /\ dcCall[c].node = p =>
        dcCall[c].seen.balance + 1 + Cardinality(Assigners(p)) <= Earned(p)

DcIInv == DcTypeOK /\ HeldIsCovered /\ PaidIsCovered

\* The steps a call takes through the messages it has to run.
LEMMA TodoSteps ==
    ASSUME NEW t \in Todos, t # <<>>
    PROVE  /\ Tail(t) \in Todos
           /\ Len(t) = 1 <=> Tail(t) = <<>>
           /\ Tail(t) \in Works <=> Head(t) \in {"assign", "readSession"}
           /\ Tail(t) \in Pays => t \in Pays
           /\ Head(t) \in {"complete", "file"} => Tail(t) \in Pays
           /\ t \in Works => Head(t) \in {"readSession", "work"}
           /\ t \in Pays => Head(t) \in {"complete", "file", "pay"}
           /\ Head(t) = "readSession" => t \in Works
           /\ Head(t) = "work" => t \in Works /\ Len(t) = 1
           /\ Head(t) = "pay" => t \in Pays /\ Len(t) = 1
<1> DEFINE G(u) ==
      /\ Tail(u) \in Todos
      /\ Len(u) = 1 <=> Tail(u) = <<>>
      /\ Tail(u) \in Works <=> Head(u) \in {"assign", "readSession"}
      /\ Tail(u) \in Pays => u \in Pays
      /\ Head(u) \in {"complete", "file"} => Tail(u) \in Pays
      /\ u \in Works => Head(u) \in {"readSession", "work"}
      /\ u \in Pays => Head(u) \in {"complete", "file", "pay"}
      /\ Head(u) = "readSession" => u \in Works
      /\ Head(u) = "work" => u \in Works /\ Len(u) = 1
      /\ Head(u) = "pay" => u \in Pays /\ Len(u) = 1
<1> USE DEF Todos, Works, Pays, Assigning, Chosen
<1>1. G(<<"readSession", "work">>) /\ G(<<"work">>)
  OBVIOUS
<1>2. G(<<"complete", "file", "pay">>) /\ G(<<"file", "pay">>) /\ G(<<"pay">>)
  OBVIOUS
<1>3. G(Assigning)
  OBVIOUS
<1>4. G(Chosen)
  OBVIOUS
<1>5. G(<<"put">>) /\ G(<<"session", "setId">>) /\ G(<<"setId">>)
  OBVIOUS
<1>6. G(<<"release">>) /\ G(<<"leave">>) /\ G(<<"release", "leave">>)
  OBVIOUS
<1>7. G(<<"chooseGiven", "assign", "readSession", "work">>)
  OBVIOUS
<1>8. G(<<"leave", "release", "choose", "assign", "readSession", "work">>)
  OBVIOUS
<1>9. G(<<"release", "choose", "assign", "readSession", "work">>)
  OBVIOUS
<1> QED
  <2> HIDE DEF G
  <2>1. G(t)
    BY <1>1, <1>2, <1>3, <1>4, <1>5, <1>6, <1>7, <1>8, <1>9
  <2> QED
    BY <2>1 DEF G

\* Lists of one and of three messages before three others.
LEMMA ConcatOne ==
    ASSUME NEW a, NEW b, NEW c, NEW d
    PROVE  <<a>> \o <<b, c, d>> = <<a, b, c, d>>
<1> DEFINE S == {a, b, c, d}
           r == <<a>> \o <<b, c, d>>
           t == <<a, b, c, d>>
<1>1. /\ r \in Seq(S) /\ Len(r) = 4
      /\ r[1] = a /\ r[2] = b /\ r[3] = c /\ r[4] = d
  OBVIOUS
<1>2. /\ t \in Seq(S) /\ Len(t) = 4
      /\ t[1] = a /\ t[2] = b /\ t[3] = c /\ t[4] = d
  OBVIOUS
<1> HIDE DEF r, t
<1>3. \A i \in 1 .. 4 : i = 1 \/ i = 2 \/ i = 3 \/ i = 4
  OBVIOUS
<1>4. r = t
  BY <1>1, <1>2, <1>3, SeqEqual
<1> QED
  BY <1>4 DEF r, t

LEMMA ConcatThree ==
    ASSUME NEW x, NEW y, NEW a, NEW b, NEW c, NEW d
    PROVE  <<x, y, a>> \o <<b, c, d>> = <<x, y, a, b, c, d>>
<1> DEFINE S == {x, y, a, b, c, d}
           r == <<x, y, a>> \o <<b, c, d>>
           t == <<x, y, a, b, c, d>>
<1>1. /\ r \in Seq(S) /\ Len(r) = 6
      /\ r[1] = x /\ r[2] = y /\ r[3] = a /\ r[4] = b /\ r[5] = c /\ r[6] = d
  OBVIOUS
<1>2. /\ t \in Seq(S) /\ Len(t) = 6
      /\ t[1] = x /\ t[2] = y /\ t[3] = a /\ t[4] = b /\ t[5] = c /\ t[6] = d
  OBVIOUS
<1> HIDE DEF r, t
<1>3. \A i \in 1 .. 6 : i = 1 \/ i = 2 \/ i = 3 \/ i = 4 \/ i = 5 \/ i = 6
  OBVIOUS
<1>4. r = t
  BY <1>1, <1>2, <1>3, SeqEqual
<1> QED
  BY <1>4 DEF r, t

\* The lists of messages calls begin with.
LEMMA TodoBegins ==
    /\ <<"choose">> \o Assigning = Chosen
    /\ <<"chooseGiven">> \o Assigning = <<"chooseGiven", "assign", "readSession", "work">>
    /\ <<"leave", "release", "choose">> \o Assigning
         = <<"leave", "release", "choose", "assign", "readSession", "work">>
<1>1. <<"choose">> \o <<"assign", "readSession", "work">>
        = <<"choose", "assign", "readSession", "work">>
  BY ConcatOne
<1>2. <<"chooseGiven">> \o <<"assign", "readSession", "work">>
        = <<"chooseGiven", "assign", "readSession", "work">>
  BY ConcatOne
<1>3. <<"leave", "release", "choose">> \o <<"assign", "readSession", "work">>
        = <<"leave", "release", "choose", "assign", "readSession", "work">>
  BY ConcatThree
<1> QED
  BY <1>1, <1>2, <1>3 DEF Assigning, Chosen

\* A call's record, and the call at rest.
LEMMA CallType ==
    /\ NoCall \in CallRecords /\ NoCall.todo = <<>>
    /\ \A t \in Todos, p \in DcNodes, j \in DcJobs \cup {DcNoJob}, i \in Nat :
          /\ Call(t, p, j, i) \in CallRecords
          /\ Call(t, p, j, i).todo = t
<1>1. Unknown \in Entities
  BY DcAssumption DEF Entities, Unknown, Fresh
<1>2. NoCall \in CallRecords /\ NoCall.todo = <<>>
  BY <1>1, DcAssumption DEF NoCall, CallRecords, Todos
<1> QED
  BY <1>1, <1>2, DcAssumption DEF NoCall, CallRecords, Call

\* A call begins: the others are untouched.
LEMMA BeginsCall ==
    ASSUME DcTypeOK, NEW c \in DcCalls, NEW call \in CallRecords, Begins(c, call)
    PROVE  /\ dcCall' \in [DcCalls -> CallRecords]
           /\ dcCall'[c] = call /\ dcCall[c].todo = <<>>
           /\ \A d \in DcCalls : d # c => dcCall'[d] = dcCall[d]
BY CallType DEF DcTypeOK, Begins

\* A message of a call is done: its next is the rest of the list.
LEMMA DoneCall ==
    ASSUME DcTypeOK, NEW c \in DcCalls, InProgress(c), Done(c)
    PROVE  /\ dcCall' \in [DcCalls -> CallRecords]
           /\ dcCall'[c].todo = Tail(dcCall[c].todo)
           /\ dcCall'[c].todo # <<>> =>
                 dcCall'[c].node = dcCall[c].node /\ dcCall'[c].seen = dcCall[c].seen
           /\ \A d \in DcCalls : d # c => dcCall'[d] = dcCall[d]
<1>1. dcCall[c] \in CallRecords /\ dcCall[c].todo \in Todos /\ dcCall[c].todo # <<>>
  BY DEF DcTypeOK, CallRecords, InProgress
<1>2. /\ Tail(dcCall[c].todo) \in Todos
      /\ Len(dcCall[c].todo) = 1 <=> Tail(dcCall[c].todo) = <<>>
  BY <1>1, TodoSteps
<1>3. CASE Len(dcCall[c].todo) = 1
  BY <1>1, <1>2, <1>3, CallType DEF Done, DcTypeOK
<1>4. CASE Len(dcCall[c].todo) # 1
  <2>1. dcCall' = [dcCall EXCEPT ![c] = [dcCall[c] EXCEPT !.todo = Tail(dcCall[c].todo)]]
    BY <1>4 DEF Done
  <2>2. [dcCall[c] EXCEPT !.todo = Tail(dcCall[c].todo)] \in CallRecords
    <3>1. \A r \in CallRecords, t \in Todos : [r EXCEPT !.todo = t] \in CallRecords
      BY DEF CallRecords
    <3> QED
      BY <1>1, <1>2, <3>1
  <2> QED
    BY <1>1, <2>1, <2>2 DEF DcTypeOK, CallRecords
<1> QED
  BY <1>3, <1>4

\* Steps that bring no call closer to an assignment or a payment, and write no
\* more to a balance or a job than was earned, leave all covered.
LEMMA StaysCovered ==
    ASSUME DcIInv, DcTypeOK',
           \A d \in DcCalls : /\ dcCall'[d].todo \in Works =>
                                   dcCall[d].todo \in Works /\ dcCall'[d].node = dcCall[d].node
                              /\ dcCall'[d].todo \in Pays =>
                                   /\ dcCall[d].todo \in Pays
                                   /\ dcCall'[d].node = dcCall[d].node
                                   /\ dcCall'[d].seen = dcCall[d].seen,
           \A p \in DcNodes :
              /\ Earned(p) <= Earned(p)'
              /\ dcClient'[p].balance + Holding(p)' + Earned(p)
                   <= dcClient[p].balance + Holding(p) + Earned(p)'
    PROVE  HeldIsCovered' /\ PaidIsCovered'
<1>1. \A p \in DcNodes : /\ Cardinality(Assigners(p)') \in Nat /\ Cardinality(Assigners(p)) \in Nat
                         /\ Cardinality(Assigners(p)') <= Cardinality(Assigners(p))
  <2> SUFFICES ASSUME NEW p \in DcNodes
               PROVE  /\ Cardinality(Assigners(p)') \in Nat /\ Cardinality(Assigners(p)) \in Nat
                      /\ Cardinality(Assigners(p)') <= Cardinality(Assigners(p))
    OBVIOUS
  <2>1. Assigners(p)' \subseteq Assigners(p) /\ Assigners(p) \subseteq DcCalls
    BY DEF Assigners
  <2>2. IsFiniteSet(Assigners(p))
    BY <2>1, DcAssumption, FS_Subset
  <2> QED
    BY <2>1, <2>2, FS_Subset, FS_CardinalityType
<1>2. \A p \in DcNodes : /\ Earned(p) \in Nat /\ Earned(p)' \in Nat
                         /\ Holding(p) \in {0, 1} /\ Holding(p)' \in {0, 1}
                         /\ dcClient[p].balance \in Nat /\ dcClient'[p].balance \in Nat
  BY DEF DcIInv, DcTypeOK, Earned, Holding, Entities
<1>3. \A p \in DcNodes :
        dcClient[p].balance + Holding(p) + Cardinality(Assigners(p)) <= Earned(p)
  BY DEF DcIInv, HeldIsCovered
<1>4. HeldIsCovered'
  <2> SUFFICES ASSUME NEW p \in DcNodes
               PROVE  dcClient'[p].balance + Holding(p)' + Cardinality(Assigners(p)') <= Earned(p)'
    BY DEF HeldIsCovered
  <2>1. dcClient'[p].balance + Holding(p)' + Earned(p)
                   <= dcClient[p].balance + Holding(p) + Earned(p)'
    OBVIOUS
  <2> QED
    BY <1>1, <1>2, <1>3, <2>1
<1>5. PaidIsCovered'
  <2> SUFFICES ASSUME NEW c \in DcCalls, NEW p \in DcNodes,
                      dcCall'[c].todo \in Pays, dcCall'[c].node = p
               PROVE  dcCall'[c].seen.balance + 1 + Cardinality(Assigners(p)') <= Earned(p)'
    BY DEF PaidIsCovered
  <2>1. /\ dcCall[c].todo \in Pays /\ dcCall[c].node = p
        /\ dcCall'[c].seen = dcCall[c].seen
    OBVIOUS
  <2>2. dcCall[c].seen.balance \in Nat
    BY DEF DcIInv, DcTypeOK, CallRecords, Entities
  <2>3. dcCall[c].seen.balance + 1 + Cardinality(Assigners(p)) <= Earned(p)
    BY <2>1 DEF DcIInv, PaidIsCovered
  <2>4. Earned(p) <= Earned(p)'
    OBVIOUS
  <2> QED
    BY <1>1, <1>2, <2>1, <2>2, <2>3, <2>4
<1> QED
  BY <1>4, <1>5

\* A call that begins, other than with an answer, leaves all covered.
LEMMA BeginsCovered ==
    ASSUME DcIInv, NEW c \in DcCalls, NEW call \in CallRecords, Begins(c, call),
           call.todo \notin Works, call.todo \notin Pays, dcOwner' \in Seq(DcNodes),
           UNCHANGED <<dcClient, dcJob, dcHistory>>
    PROVE  DcIInv'
<1>1. /\ dcCall' \in [DcCalls -> CallRecords] /\ dcCall'[c] = call
      /\ \A d \in DcCalls : d # c => dcCall'[d] = dcCall[d]
  BY BeginsCall DEF DcIInv
<1>2. DcTypeOK'
  BY <1>1 DEF DcIInv, DcTypeOK, dcHistory
<1>3. \A p \in DcNodes : /\ Earned(p)' = Earned(p) /\ Holding(p)' = Holding(p)
                         /\ Earned(p) \in Nat /\ Holding(p) \in Nat
                         /\ dcClient[p].balance \in Nat
  BY DEF Earned, Holding, dcHistory, DcIInv, DcTypeOK, Entities
<1>4. \A p \in DcNodes :
         /\ Earned(p) <= Earned(p)'
         /\ dcClient'[p].balance + Holding(p)' + Earned(p)
              <= dcClient[p].balance + Holding(p) + Earned(p)'
  BY <1>3
<1> QED
  BY <1>1, <1>2, <1>4, StaysCovered DEF DcIInv

\* The calls that begin so.
LEMMA OthersBegin ==
    ASSUME DcIInv, NEW c \in DcCalls, HttpRequest(c) \/ ClientDisconnect(c)
              \/ \E p \in DcNodes : Open(c, p) \/ Ping(c, p)
    PROVE  DcIInv'
<1> DEFINE Good(t) == t \in Todos /\ t \notin Works /\ t \notin Pays
<1>0. /\ Good(<<"put">>) /\ Good(<<"session", "setId">>) /\ Good(<<"setId">>)
      /\ Good(<<"release", "leave">>) /\ Good(<<"leave">>) /\ Good(Assigning)
      /\ Good(<<"choose">> \o Assigning) /\ Good(<<"chooseGiven">> \o Assigning)
      /\ Good(<<"leave", "release", "choose">> \o Assigning)
  BY TodoBegins DEF Todos, Works, Pays, Assigning, Chosen
<1> HIDE DEF Good
<1>1. ASSUME NEW t, Good(t), NEW p \in DcNodes, NEW j \in DcJobs \cup {DcNoJob}, NEW i \in Nat,
             Begins(c, Call(t, p, j, i)), dcOwner' \in Seq(DcNodes),
             UNCHANGED <<dcClient, dcJob, dcHistory>>
      PROVE  DcIInv'
  BY <1>1, CallType, BeginsCovered DEF Good
<1>2. dcOwner \in Seq(DcNodes) /\ Len(dcOwner) \in Nat /\ DcFirst \in DcNodes
  BY DcAssumption DEF DcIInv, DcTypeOK
<1>3. \A p \in DcNodes : dcClient[p].id \in Nat /\ dcClient[p].job \in DcJobs \cup {DcNoJob}
  BY DEF DcIInv, DcTypeOK, Entities
<1>4. \A p \in DcNodes : Ids(p) \subseteq Nat
  BY <1>2 DEF Ids
<1>5. ASSUME NEW p \in DcNodes, Login(c, p) PROVE DcIInv'
  BY <1>5, <1>0, <1>1, <1>2 DEF Login
<1>6. ASSUME NEW p \in DcNodes, Open(c, p) PROVE DcIInv'
  <2>1. Append(dcOwner, p) \in Seq(DcNodes) /\ Len(dcOwner) + 1 \in Nat
    BY <1>2
  <2> QED
    BY <1>6, <2>1, <1>0, <1>1 DEF Open
<1>7. ASSUME NEW p \in DcNodes, Ping(c, p) PROVE DcIInv'
  BY <1>7, <1>0, <1>1, <1>2, <1>4 DEF Ping
<1>8. ASSUME ClientDisconnect(c) PROVE DcIInv'
  <2>1. PICK i \in DOMAIN dcOwner : \E p \in Scanned({q \in DcNodes : dcClient[q].id = i}) :
          Begins(c, Call(IF dcClient[p].working THEN <<"release", "leave">> ELSE <<"leave">>,
                         p, dcClient[p].job, i))
    BY <1>8 DEF ClientDisconnect
  <2>2. PICK p \in Scanned({q \in DcNodes : dcClient[q].id = i}) :
          Begins(c, Call(IF dcClient[p].working THEN <<"release", "leave">> ELSE <<"leave">>,
                         p, dcClient[p].job, i))
    BY <2>1
  <2>3. i \in Nat /\ p \in DcNodes
    BY <1>2 DEF Scanned
  <2>4. UNCHANGED <<dcClient, dcJob, dcOwner, dcHistory>>
    BY <1>8 DEF ClientDisconnect
  <2>5. Good(IF dcClient[p].working THEN <<"release", "leave">> ELSE <<"leave">>)
    BY <1>0
  <2> QED
    BY <2>2, <2>3, <2>4, <2>5, <1>1, <1>2, <1>3
<1>9. ASSUME NEW j \in DcJobs, FindAndAssignJob(c, j) PROVE DcIInv'
  BY <1>9, <1>0, <1>1, <1>2 DEF FindAndAssignJob
<1>10. ASSUME NEW j \in DcJobs, AssignJobToClient(c, j) PROVE DcIInv'
  BY <1>10, <1>0, <1>1, <1>2, <1>4 DEF AssignJobToClient
<1>11. ASSUME NEW j \in DcJobs, ResendJob(c, j) PROVE DcIInv'
  <2>1. \A p \in Scanned({q \in DcNodes : dcClient[q].job = j}) : p \in DcNodes
    BY <1>2 DEF Scanned
  <2> QED
    BY <1>11, <2>1, <1>0, <1>1, <1>2, <1>3 DEF ResendJob
<1>12. ASSUME NEW p \in DcNodes, NEW j \in DcJobs, FindAndAssignJobToClient(c, p, j) PROVE DcIInv'
  BY <1>12, <1>0, <1>1, <1>2 DEF FindAndAssignJobToClient
<1> QED
  BY <1>5, <1>6, <1>7, <1>8, <1>9, <1>10, <1>11, <1>12 DEF HttpRequest

\* An answer's call begins with a balance that its job's assignment covers.
LEMMA UpdateJobCompletedCovered ==
    ASSUME DcIInv, NEW c \in DcCalls, NEW q \in DcNodes, UpdateJobCompleted(c, q)
    PROVE  DcIInv'
<1>1. PICK i \in Ids(q) :
        /\ Accepts(q, i)
        /\ Begins(c, [Call(<<"complete", "file", "pay">>, q, dcClient[q].job, i)
                         EXCEPT !.seen = dcClient[q]])
  BY DEF UpdateJobCompleted
<1> DEFINE call == [Call(<<"complete", "file", "pay">>, q, dcClient[q].job, i)
                       EXCEPT !.seen = dcClient[q]]
<1>2. i \in Nat /\ dcClient[q] \in Entities /\ dcClient[q].job \in DcJobs \cup {DcNoJob}
  BY DEF DcIInv, DcTypeOK, Entities, Ids
<1>3. <<"complete", "file", "pay">> \in Todos
  BY DEF Todos, Pays
<1>4. /\ call \in CallRecords /\ call.node = q /\ call.seen = dcClient[q]
      /\ call.todo = <<"complete", "file", "pay">>
  <2>1. Call(<<"complete", "file", "pay">>, q, dcClient[q].job, i) \in CallRecords
    BY <1>2, <1>3, CallType
  <2> QED
    BY <1>2, <2>1 DEF CallRecords, Call, NoCall
<1> HIDE DEF call
<1>5. /\ dcCall' \in [DcCalls -> CallRecords] /\ dcCall'[c] = call
      /\ \A d \in DcCalls : d # c => dcCall'[d] = dcCall[d]
  BY <1>1, <1>4, BeginsCall DEF DcIInv, call
<1>6. UNCHANGED <<dcClient, dcJob, dcOwner, dcAssigned, dcGranted>>
  BY DEF UpdateJobCompleted, dcHistory
<1>7. DcTypeOK'
  BY <1>5, <1>6 DEF DcIInv, DcTypeOK
<1>8. call.todo \notin Works /\ dcCall[c].todo \notin Works
  BY <1>1, <1>4, CallType DEF Works, Begins
<1>9. \A p \in DcNodes : Assigners(p)' = Assigners(p) /\ Earned(p)' = Earned(p)
  BY <1>5, <1>6, <1>8 DEF Assigners, Earned
<1>10. HeldIsCovered'
  BY <1>6, <1>9 DEF DcIInv, HeldIsCovered, Holding
<1>11. dcClient[q].balance + 1 + Cardinality(Assigners(q)) <= Earned(q)
  BY <1>1 DEF DcIInv, HeldIsCovered, Holding, Accepts
<1>12. PaidIsCovered'
  BY <1>4, <1>5, <1>9, <1>11 DEF DcIInv, PaidIsCovered
<1> QED
  BY <1>7, <1>10, <1>12 DEF DcIInv

\* A message other than an assignment, a node's work or a payment leaves all
\* covered when it writes to no client more than it had.
LEMMA MessageCovered ==
    ASSUME DcIInv, DcTypeOK', NEW c \in DcCalls, InProgress(c),
           Head(dcCall[c].todo) \notin {"assign"},
           \A d \in DcCalls : d # c => dcCall'[d] = dcCall[d],
           dcCall'[c].todo \in {Tail(dcCall[c].todo), <<>>, <<"release">>},
           Head(dcCall[c].todo) \in {"readSession", "complete", "file"}
              => dcCall'[c].node = dcCall[c].node,
           Head(dcCall[c].todo) \in {"complete", "file"} => dcCall'[c].seen = dcCall[c].seen,
           UNCHANGED dcHistory,
           \A p \in DcNodes : dcClient'[p].balance + Holding(p)' <= dcClient[p].balance + Holding(p)
    PROVE  DcIInv'
<1>1. dcCall[c].todo \in Todos /\ dcCall[c].todo # <<>>
  BY DEF DcIInv, DcTypeOK, CallRecords, InProgress
<1>2. <<>> \notin Works /\ <<>> \notin Pays /\ <<"release">> \notin Works /\ <<"release">> \notin Pays
  BY DEF Works, Pays
<1>3. dcCall'[c].todo \in Works => dcCall[c].todo \in Works /\ dcCall'[c].node = dcCall[c].node
  BY <1>1, <1>2, TodoSteps
<1>4. dcCall'[c].todo \in Pays => /\ dcCall[c].todo \in Pays
                                  /\ dcCall'[c].node = dcCall[c].node
                                  /\ dcCall'[c].seen = dcCall[c].seen
  <2> SUFFICES ASSUME dcCall'[c].todo \in Pays
               PROVE  /\ dcCall[c].todo \in Pays
                      /\ dcCall'[c].node = dcCall[c].node
                      /\ dcCall'[c].seen = dcCall[c].seen
    OBVIOUS
  <2>1. Tail(dcCall[c].todo) \in Pays
    BY <1>2
  <2>2. dcCall[c].todo \in Pays /\ Head(dcCall[c].todo) \in {"complete", "file", "pay"}
    BY <1>1, <2>1, TodoSteps
  <2>3. Head(dcCall[c].todo) # "pay"
    <3>1. Len(dcCall[c].todo) = 1 => Tail(dcCall[c].todo) = <<>>
      BY <1>1, TodoSteps
    <3> QED
      BY <1>1, <1>2, <2>1, <3>1, TodoSteps
  <2> QED
    BY <2>2, <2>3
<1>5. \A p \in DcNodes : /\ Earned(p)' = Earned(p) /\ Earned(p) \in Nat
                         /\ Holding(p) \in Nat /\ Holding(p)' \in Nat
                         /\ dcClient[p].balance \in Nat /\ dcClient'[p].balance \in Nat
  BY DEF Earned, Holding, dcHistory, DcIInv, DcTypeOK, Entities
<1>6. \A p \in DcNodes :
         /\ Earned(p) <= Earned(p)'
         /\ dcClient'[p].balance + Holding(p)' + Earned(p)
              <= dcClient[p].balance + Holding(p) + Earned(p)'
  BY <1>5
<1> QED
  BY <1>3, <1>4, <1>6, StaysCovered DEF DcIInv

LEMMA AddClientToDBCovered ==
    ASSUME DcIInv, NEW c \in DcCalls, AddClientToDB(c)
    PROVE  DcIInv'
<1>1. InProgress(c) /\ Head(dcCall[c].todo) = "put" /\ Done(c)
  BY DEF AddClientToDB, Runs
<1>2. dcCall[c].node \in DcNodes /\ Fresh \in Entities /\ Fresh.balance = 0 /\ Fresh.job = DcNoJob
  BY DcAssumption DEF DcIInv, DcTypeOK, CallRecords, Entities, Fresh
<1>3. dcClient' = [dcClient EXCEPT ![dcCall[c].node] = Fresh] /\ UNCHANGED <<dcJob, dcOwner, dcHistory>>
  BY DEF AddClientToDB
<1>4. DcTypeOK'
  BY <1>1, <1>2, <1>3, DoneCall DEF DcIInv, DcTypeOK, dcHistory
<1>5. \A p \in DcNodes : dcClient'[p].balance + Holding(p)' <= dcClient[p].balance + Holding(p)
  BY <1>2, <1>3 DEF DcIInv, DcTypeOK, Entities, Holding
<1> QED
  BY <1>1, <1>3, <1>4, <1>5, DoneCall, MessageCovered DEF DcIInv

\* What the four writes of a client make of its record.
LEMMA ClientWrites ==
    ASSUME NEW old \in Entities, NEW call \in CallRecords
    PROVE  /\ SessionCreated(old) \in Entities
           /\ SessionCreated(old).balance = old.balance /\ SessionCreated(old).job = old.job
           /\ ClientIDUpdated(old, call.id) \in Entities
           /\ ClientIDUpdated(old, call.id).balance = old.balance
           /\ ClientIDUpdated(old, call.id).job = DcNoJob
           /\ Left(old, call.id) \in Entities
           /\ Left(old, call.id).balance = old.balance /\ Left(old, call.id).job = DcNoJob
           /\ Assigned(old, call) \in Entities
           /\ Assigned(old, call).balance = old.balance
<1>1. call.id \in Nat /\ call.job \in DcJobs \cup {DcNoJob} /\ call.seen.online \in BOOLEAN
  BY DEF CallRecords, Entities
<1>2. /\ SessionCreated(old) \in Entities
      /\ SessionCreated(old).balance = old.balance /\ SessionCreated(old).job = old.job
  BY DEF SessionCreated, Entities
<1>3. /\ ClientIDUpdated(old, call.id) \in Entities
      /\ ClientIDUpdated(old, call.id).balance = old.balance
      /\ ClientIDUpdated(old, call.id).job = DcNoJob
  BY <1>1 DEF ClientIDUpdated, Entities
<1>4. /\ Left(old, call.id) \in Entities
      /\ Left(old, call.id).balance = old.balance /\ Left(old, call.id).job = DcNoJob
  BY <1>1, <1>3 DEF Left, Entities
<1>5. Assigned(old, call) \in Entities /\ Assigned(old, call).balance = old.balance
  BY <1>1 DEF Assigned, Entities
<1> QED
  BY <1>2, <1>3, <1>4, <1>5

\* A node's record takes the job assigned to it.
LEMMA WorkCovered ==
    ASSUME DcIInv, DcTypeOK', NEW c \in DcCalls, Runs(c, "work"),
           Done(c), UNCHANGED <<dcJob, dcOwner, dcHistory>>,
           dcClient[dcCall[c].node].known,
           dcClient' = [dcClient EXCEPT ![dcCall[c].node] =
                           Assigned(dcClient[dcCall[c].node], dcCall[c])]
    PROVE  DcIInv'
<1>0. PICK q \in DcNodes : q = dcCall[c].node
  BY DEF DcIInv, DcTypeOK, CallRecords
<1>1. /\ InProgress(c) /\ Head(dcCall[c].todo) = "work"
      /\ dcCall[c] \in CallRecords /\ dcCall[c].todo \in Todos /\ dcCall[c].todo # <<>>
  BY DEF Runs, InProgress, DcIInv, DcTypeOK, CallRecords
<1>2. dcCall[c].todo \in Works /\ Tail(dcCall[c].todo) = <<>>
  BY <1>1, TodoSteps
<1>3. /\ dcCall'[c].todo = <<>>
      /\ \A d \in DcCalls : d # c => dcCall'[d] = dcCall[d]
  BY <1>1, <1>2, DoneCall DEF DcIInv
<1>4. <<>> \notin Works /\ <<>> \notin Pays
  BY DEF Works, Pays
<1>5. /\ Assigners(q)' = Assigners(q) \ {c} /\ c \in Assigners(q)
      /\ \A p \in DcNodes : p # q => Assigners(p)' = Assigners(p)
  BY <1>0, <1>1, <1>2, <1>3, <1>4 DEF Assigners
<1>6. \A p \in DcNodes : /\ IsFiniteSet(Assigners(p)) /\ Cardinality(Assigners(p)) \in Nat
                         /\ Earned(p)' = Earned(p) /\ Earned(p) \in Nat
                         /\ Holding(p) \in {0, 1} /\ Holding(p)' \in {0, 1}
                         /\ dcClient[p].balance \in Nat
                         /\ dcClient[p] \in Entities
  <2>1. \A p \in DcNodes : Assigners(p) \in SUBSET DcCalls
    BY DEF Assigners
  <2>2. \A p \in DcNodes : IsFiniteSet(Assigners(p)) /\ Cardinality(Assigners(p)) \in Nat
    BY <2>1, DcAssumption, FS_Subset, FS_CardinalityType
  <2>3. \A p \in DcNodes : Earned(p)' = Earned(p) /\ Earned(p) \in Nat
    BY DEF Earned, dcHistory, DcIInv, DcTypeOK
  <2>4. \A p \in DcNodes : dcClient[p] \in Entities /\ dcClient[p].balance \in Nat
    BY DEF DcIInv, DcTypeOK, Entities
  <2>5. \A p \in DcNodes : Holding(p) \in {0, 1} /\ Holding(p)' \in {0, 1}
    BY DEF Holding
  <2> QED
    BY <2>2, <2>3, <2>4, <2>5
<1>7. Cardinality(Assigners(q)') = Cardinality(Assigners(q)) - 1
  BY <1>1, <1>5, <1>6, FS_RemoveElement
<1>8. /\ dcClient'[q].balance = dcClient[q].balance
      /\ \A p \in DcNodes : p # q => dcClient'[p] = dcClient[p]
  BY <1>0, <1>1, <1>6, ClientWrites, ZenonT(40) DEF DcIInv, DcTypeOK
<1>9. HeldIsCovered'
  <2> SUFFICES ASSUME NEW p \in DcNodes
               PROVE  dcClient'[p].balance + Holding(p)' + Cardinality(Assigners(p)') <= Earned(p)'
    BY DEF HeldIsCovered
  <2>1. dcClient[p].balance + Holding(p) + Cardinality(Assigners(p)) <= Earned(p)
    BY DEF DcIInv, HeldIsCovered
  <2>2. CASE p = q
    <3>1. /\ Cardinality(Assigners(p)') = Cardinality(Assigners(p)) - 1
          /\ dcClient'[p].balance = dcClient[p].balance
      BY <1>7, <1>8, <2>2
    <3>2. /\ Holding(p) \in {0, 1} /\ Holding(p)' \in {0, 1}
          /\ Earned(p)' = Earned(p) /\ Earned(p) \in Nat
          /\ dcClient[p].balance \in Nat /\ Cardinality(Assigners(p)) \in Nat
      BY <1>6
    <3> QED
      BY <2>1, <3>1, <3>2
  <2>3. CASE p # q
    BY <1>5, <1>6, <1>8, <2>1, <2>3 DEF Holding
  <2> QED
    BY <2>2, <2>3
<1>10. PaidIsCovered'
  <2> SUFFICES ASSUME NEW d \in DcCalls, NEW p \in DcNodes,
                      dcCall'[d].todo \in Pays, dcCall'[d].node = p
               PROVE  dcCall'[d].seen.balance + 1 + Cardinality(Assigners(p)') <= Earned(p)'
    BY DEF PaidIsCovered
  <2>1. d # c /\ dcCall'[d] = dcCall[d]
    BY <1>3, <1>4
  <2>2. dcCall[d].seen.balance \in Nat
    BY DEF DcIInv, DcTypeOK, CallRecords, Entities
  <2>3. dcCall[d].seen.balance + 1 + Cardinality(Assigners(p)) <= Earned(p)
    BY <2>1 DEF DcIInv, PaidIsCovered
  <2>4. Cardinality(Assigners(p)') \in Nat /\ Cardinality(Assigners(p)') <= Cardinality(Assigners(p))
    <3>1. Assigners(p)' \in SUBSET Assigners(p) /\ IsFiniteSet(Assigners(p))
      BY <1>5, <1>6
    <3> QED
      BY <3>1, FS_Subset, FS_CardinalityType
  <2>5. Earned(p)' = Earned(p) /\ Earned(p) \in Nat /\ Cardinality(Assigners(p)) \in Nat
    BY <1>6
  <2> QED
    BY <2>1, <2>2, <2>3, <2>4, <2>5
<1> QED
  BY <1>9, <1>10 DEF DcIInv

LEMMA UpdateClientStateCovered ==
    ASSUME DcIInv, NEW c \in DcCalls, UpdateClientState(c)
    PROVE  DcIInv'
<1> DEFINE call == dcCall[c]
           old == dcClient[call.node]
<1>1. /\ InProgress(c) /\ Head(call.todo) \in {"session", "setId", "leave", "work"}
      /\ UNCHANGED <<dcJob, dcOwner, dcAssigned, dcGranted>>
  BY DEF UpdateClientState, Runs, dcHistory
<1>2. call \in CallRecords /\ call.node \in DcNodes /\ old \in Entities
  BY DEF DcIInv, DcTypeOK, CallRecords
<1>3. ASSUME ~old.known, Runs(c, "work"), UNCHANGED dcClient,
             dcCall' = [dcCall EXCEPT ![c].todo = <<"release">>]
      PROVE  DcIInv'
  <2>1. <<"release">> \in Todos
    BY DEF Todos
  <2>2. [call EXCEPT !.todo = <<"release">>] \in CallRecords
    BY <1>2, <2>1 DEF CallRecords
  <2>3. DcTypeOK'
    BY <1>1, <1>3, <2>2 DEF DcIInv, DcTypeOK
  <2>4. \A p \in DcNodes : dcClient'[p].balance + Holding(p)' <= dcClient[p].balance + Holding(p)
    BY <1>3 DEF DcIInv, DcTypeOK, Entities, Holding
  <2>5. /\ dcCall'[c].todo = <<"release">> /\ dcCall'[c].node = dcCall[c].node
        /\ dcCall'[c].seen = dcCall[c].seen
        /\ \A d \in DcCalls : d # c => dcCall'[d] = dcCall[d]
    BY <1>2, <1>3, <2>2 DEF DcIInv, DcTypeOK, CallRecords
  <2> QED
    BY <1>1, <2>3, <2>4, <2>5, MessageCovered DEF dcHistory
<1>4. ASSUME Done(c), dcClient' = dcClient
      PROVE  DcIInv'
  <2>1. DcTypeOK'
    BY <1>1, <1>4, DoneCall DEF DcIInv, DcTypeOK
  <2>2. \A p \in DcNodes : dcClient'[p].balance + Holding(p)' <= dcClient[p].balance + Holding(p)
    BY <1>4 DEF DcIInv, DcTypeOK, Entities, Holding
  <2> QED
    BY <1>1, <1>4, <2>1, <2>2, DoneCall, MessageCovered DEF DcIInv, dcHistory
<1>5. ASSUME Done(c), NEW new \in Entities, dcClient' = [dcClient EXCEPT ![call.node] = new],
             new.balance = old.balance, new.job \in {old.job, DcNoJob}
      PROVE  DcIInv'
  <2>1. DcTypeOK'
    BY <1>1, <1>2, <1>5, DoneCall DEF DcIInv, DcTypeOK
  <2>2. \A p \in DcNodes : dcClient'[p].balance + Holding(p)' <= dcClient[p].balance + Holding(p)
    BY <1>2, <1>5 DEF DcIInv, DcTypeOK, Entities, Holding
  <2> QED
    BY <1>1, <1>5, <2>1, <2>2, DoneCall, MessageCovered DEF DcIInv, dcHistory
<1>6. ASSUME Done(c), Runs(c, "work"), old.known,
             dcClient' = [dcClient EXCEPT ![call.node] = Assigned(old, call)]
      PROVE  DcIInv'
  <2>1. DcTypeOK'
    BY <1>1, <1>2, <1>6, DoneCall, ClientWrites DEF DcIInv, DcTypeOK
  <2> QED
    BY <1>1, <1>6, <2>1, WorkCovered DEF dcHistory
<1>7. CASE old.known /\ Runs(c, "session")
  <2>1. Done(c) /\ dcClient' = [dcClient EXCEPT ![call.node] = SessionCreated(old)]
    BY <1>7 DEF UpdateClientState, Runs
  <2> QED
    BY <1>2, <1>5, <2>1, ClientWrites
<1>8. CASE old.known /\ Runs(c, "setId")
  <2>1. Done(c) /\ dcClient' = [dcClient EXCEPT ![call.node] = ClientIDUpdated(old, call.id)]
    BY <1>8 DEF UpdateClientState, Runs
  <2> QED
    BY <1>2, <1>5, <2>1, ClientWrites
<1>9. CASE old.known /\ Runs(c, "leave")
  <2>1. Done(c) /\ dcClient' = [dcClient EXCEPT ![call.node] = Left(old, call.id)]
    BY <1>9 DEF UpdateClientState, Runs
  <2> QED
    BY <1>2, <1>5, <2>1, ClientWrites
<1>10. CASE old.known /\ Runs(c, "work")
  <2>1. Done(c) /\ dcClient' = [dcClient EXCEPT ![call.node] = Assigned(old, call)]
    BY <1>10 DEF UpdateClientState, Runs
  <2> QED
    BY <1>6, <1>10, <2>1
<1>11. CASE ~old.known
  BY <1>3, <1>4, <1>11 DEF UpdateClientState
<1> QED
  BY <1>1, <1>7, <1>8, <1>9, <1>10, <1>11 DEF Runs, InProgress

\* The messages that look a node up or change a job.
LEMMA OtherMessagesCovered ==
    ASSUME DcIInv, NEW c \in DcCalls,
           \/ GetOptimalNode(c) \/ GetOptimalClient(c) \/ ReadSession(c)
           \/ UpdateJobState(c) \/ UpdateJobWithStoredFileId(c)
    PROVE  DcIInv'
<1>1. /\ UNCHANGED <<dcClient, dcOwner, dcAssigned, dcGranted>>
      /\ InProgress(c)
      /\ Head(dcCall[c].todo) \in {"choose", "chooseGiven", "readSession", "release", "complete", "file"}
  BY DEF GetOptimalNode, GetOptimalClient, ReadSession, UpdateJobState,
         UpdateJobWithStoredFileId, Runs, dcHistory
<1>2. \A p \in DcNodes : dcClient'[p].balance + Holding(p)' <= dcClient[p].balance + Holding(p)
  BY <1>1 DEF DcIInv, DcTypeOK, Entities, Holding
<1>3. /\ dcCall[c] \in CallRecords /\ dcCall[c].todo \in Todos /\ dcCall[c].todo # <<>>
      /\ Tail(dcCall[c].todo) \in Todos
  <2>1. dcCall[c] \in CallRecords /\ dcCall[c].todo \in Todos /\ dcCall[c].todo # <<>>
    BY <1>1 DEF DcIInv, DcTypeOK, CallRecords, InProgress
  <2> QED
    BY <2>1, TodoSteps
<1>4. ASSUME NEW p \in DcNodes, Chooses(c, p), dcJob' = dcJob, ~Runs(c, "readSession"),
             Head(dcCall[c].todo) \in {"choose", "chooseGiven"}
      PROVE  DcIInv'
  <2>1. dcClient[p].id \in Nat
    BY DEF DcIInv, DcTypeOK, Entities
  <2>2. PICK r : r = [dcCall[c] EXCEPT !.todo = Tail(dcCall[c].todo), !.node = p,
                                       !.id = dcClient[p].id]
    OBVIOUS
  <2>3. /\ dcCall' \in [DcCalls -> CallRecords] /\ dcCall'[c].todo = Tail(dcCall[c].todo)
        /\ \A d \in DcCalls : d # c => dcCall'[d] = dcCall[d]
    <3>1. r \in CallRecords /\ r.todo = Tail(dcCall[c].todo)
      BY <1>3, <2>1, <2>2 DEF CallRecords
    <3>2. dcCall' = [dcCall EXCEPT ![c] = r]
      BY <1>4, <2>2 DEF Chooses
    <3> QED
      BY <3>1, <3>2 DEF DcIInv, DcTypeOK
  <2>4. DcTypeOK'
    BY <1>1, <1>4, <2>3 DEF DcIInv, DcTypeOK
  <2> QED
    BY <1>1, <1>2, <1>4, <2>3, <2>4, MessageCovered DEF dcHistory
<1>5. ASSUME GivesUp(c), dcJob' = dcJob, Head(dcCall[c].todo) \in {"choose", "chooseGiven"}
      PROVE  DcIInv'
  <2>1. /\ dcCall' \in [DcCalls -> CallRecords] /\ dcCall'[c].todo = <<>>
        /\ \A d \in DcCalls : d # c => dcCall'[d] = dcCall[d]
    BY <1>5, CallType DEF GivesUp, DcIInv, DcTypeOK
  <2>2. DcTypeOK'
    BY <1>1, <1>5, <2>1 DEF DcIInv, DcTypeOK
  <2> QED
    BY <1>1, <1>2, <1>5, <2>1, <2>2, MessageCovered DEF dcHistory
<1>6. ASSUME dcJob' \in [DcJobs -> JobEntities], Done(c),
             Head(dcCall[c].todo) \in {"release", "complete", "file"}
      PROVE  DcIInv'
  <2>1. DcTypeOK'
    BY <1>1, <1>6, DoneCall DEF DcIInv, DcTypeOK
  <2>2. \/ dcCall'[c].todo = <<>> 
        \/ dcCall'[c].node = dcCall[c].node /\ dcCall'[c].seen = dcCall[c].seen
    BY <1>1, <1>6, DoneCall DEF DcIInv
  <2>3. Head(dcCall[c].todo) \in {"complete", "file"} =>
            dcCall'[c].node = dcCall[c].node /\ dcCall'[c].seen = dcCall[c].seen
    <3>1. Head(dcCall[c].todo) \in {"complete", "file"} => Tail(dcCall[c].todo) # <<>>
      <4>1. <<>> \notin Pays
        BY DEF Pays
      <4> QED
        BY <1>3, <4>1, TodoSteps
    <3> QED
      BY <1>1, <1>6, <3>1, DoneCall DEF DcIInv
  <2> QED
    BY <1>1, <1>2, <1>6, <2>1, <2>3, DoneCall, MessageCovered DEF DcIInv, dcHistory
<1>7. ASSUME ReadSession(c) PROVE DcIInv'
  <2> DEFINE seen == [Unknown EXCEPT !.online = dcClient[dcCall[c].node].online]
  <2>1. seen \in Entities
    <3>1. dcClient[dcCall[c].node].online \in BOOLEAN
      BY <1>3 DEF CallRecords, DcIInv, DcTypeOK, Entities
    <3> QED
      BY <3>1, DcAssumption DEF Entities, Unknown, Fresh
  <2>2. PICK r : r = [dcCall[c] EXCEPT !.todo = Tail(dcCall[c].todo), !.seen = seen]
    OBVIOUS
  <2>3. dcCall' = [dcCall EXCEPT ![c] = r]
    BY <1>7, <2>2 DEF ReadSession
  <2> HIDE DEF seen
  <2>4. /\ dcCall' \in [DcCalls -> CallRecords] /\ dcCall'[c].todo = Tail(dcCall[c].todo)
        /\ dcCall'[c].node = dcCall[c].node
        /\ \A d \in DcCalls : d # c => dcCall'[d] = dcCall[d]
    <3>1. r \in CallRecords /\ r.todo = Tail(dcCall[c].todo) /\ r.node = dcCall[c].node
      BY <1>3, <2>1, <2>2 DEF CallRecords
    <3> QED
      BY <2>3, <3>1 DEF DcIInv, DcTypeOK
  <2>5. dcJob' = dcJob /\ Head(dcCall[c].todo) = "readSession"
    BY <1>7 DEF ReadSession, Runs
  <2>6. DcTypeOK'
    BY <1>1, <2>4, <2>5 DEF DcIInv, DcTypeOK
  <2> QED
    BY <1>1, <1>2, <2>4, <2>5, <2>6, MessageCovered DEF dcHistory
<1>8. CASE GetOptimalNode(c)
  BY <1>4, <1>5, <1>8 DEF GetOptimalNode, Runs
<1>9. CASE GetOptimalClient(c)
  <2>1. dcCall[c].node \in DcNodes
    BY <1>3 DEF CallRecords
  <2> QED
    BY <1>4, <1>5, <1>9, <2>1 DEF GetOptimalClient, Runs
<1>10. CASE UpdateJobState(c)
  <2>1. dcJob' \in [DcJobs -> JobEntities]
    <3>1. PICK j : j = dcCall[c].job
      OBVIOUS
    <3>2. CASE dcJob' = [dcJob EXCEPT ![j].state = "pending"]
      BY <3>2 DEF DcIInv, DcTypeOK, JobEntities
    <3>3. CASE dcJob' = [dcJob EXCEPT ![j].state = "completed"]
      BY <3>3 DEF DcIInv, DcTypeOK, JobEntities
    <3> QED
      BY <1>10, <3>1, <3>2, <3>3 DEF UpdateJobState
  <2> QED
    BY <1>6, <1>10, <2>1 DEF UpdateJobState, Runs
<1>11. CASE UpdateJobWithStoredFileId(c)
  <2>1. dcJob' \in [DcJobs -> JobEntities]
    BY <1>11 DEF UpdateJobWithStoredFileId, DcIInv, DcTypeOK, JobEntities
  <2> QED
    BY <1>6, <1>11, <2>1 DEF UpdateJobWithStoredFileId, Runs
<1> QED
  BY <1>7, <1>8, <1>9, <1>10, <1>11

\* An assignment is one more that its node may be paid for.
LEMMA AssignJobCovered ==
    ASSUME DcIInv, NEW c \in DcCalls, AssignJob(c)
    PROVE  DcIInv'
<1>0. PICK q \in DcNodes : q = dcCall[c].node
  BY DEF DcIInv, DcTypeOK, CallRecords
<1>1. /\ InProgress(c) /\ Head(dcCall[c].todo) = "assign" /\ Done(c)
      /\ dcJob' = [dcJob EXCEPT ![dcCall[c].job].state = "ongoing"]
      /\ dcAssigned' = [dcAssigned EXCEPT ![q] = @ + 1]
      /\ UNCHANGED <<dcClient, dcOwner, dcGranted>>
  BY <1>0 DEF AssignJob, Runs
<1>2. dcCall[c] \in CallRecords /\ dcCall[c].todo \in Todos /\ dcCall[c].todo # <<>>
  BY <1>1 DEF DcIInv, DcTypeOK, CallRecords, InProgress
<1>3. dcCall'[c].todo \in Works /\ dcCall'[c].todo \notin Pays /\ dcCall[c].todo \notin Works
  <2>1. Tail(dcCall[c].todo) \in Works /\ dcCall[c].todo \notin Works
    BY <1>1, <1>2, TodoSteps
  <2>2. \A t \in Works : t \notin Pays
    BY DEF Works, Pays
  <2> QED
    BY <1>1, <2>1, <2>2, DoneCall DEF DcIInv
<1>4. dcCall'[c].node = q /\ \A d \in DcCalls : d # c => dcCall'[d] = dcCall[d]
  <2>1. <<>> \notin Works
    BY DEF Works
  <2> QED
    BY <1>0, <1>1, <1>3, <2>1, DoneCall DEF DcIInv
<1>5. DcTypeOK'
  <2>1. dcCall' \in [DcCalls -> CallRecords]
    BY <1>1, DoneCall DEF DcIInv
  <2>2. dcAssigned' \in [DcNodes -> Nat] /\ dcJob' \in [DcJobs -> JobEntities]
    <3>1. dcAssigned' \in [DcNodes -> Nat]
      BY <1>1 DEF DcIInv, DcTypeOK
    <3>2. dcJob' \in [DcJobs -> JobEntities]
      BY <1>1 DEF DcIInv, DcTypeOK, JobEntities
    <3> QED
      BY <3>1, <3>2
  <2> QED
    BY <1>1, <2>1, <2>2 DEF DcIInv, DcTypeOK
<1>6. /\ Assigners(q)' = Assigners(q) \cup {c} /\ c \notin Assigners(q)
      /\ \A p \in DcNodes : p # q => Assigners(p)' = Assigners(p)
  BY <1>3, <1>4 DEF Assigners
<1>7. \A p \in DcNodes : /\ IsFiniteSet(Assigners(p)) /\ Cardinality(Assigners(p)) \in Nat
                         /\ Earned(p) \in Nat /\ Earned(p)' = Earned(p) + (IF p = q THEN 1 ELSE 0)
                         /\ Holding(p) \in {0, 1} /\ Holding(p)' = Holding(p)
                         /\ dcClient[p].balance \in Nat /\ dcClient'[p] = dcClient[p]
  <2>1. \A p \in DcNodes : Assigners(p) \in SUBSET DcCalls
    BY DEF Assigners
  <2>2. \A p \in DcNodes : IsFiniteSet(Assigners(p)) /\ Cardinality(Assigners(p)) \in Nat
    BY <2>1, DcAssumption, FS_Subset, FS_CardinalityType
  <2>3. \A p \in DcNodes : Earned(p) \in Nat /\ Earned(p)' = Earned(p) + (IF p = q THEN 1 ELSE 0)
    BY <1>1 DEF Earned, DcIInv, DcTypeOK
  <2>4. \A p \in DcNodes : dcClient[p].balance \in Nat /\ dcClient'[p] = dcClient[p]
    BY <1>1 DEF DcIInv, DcTypeOK, Entities
  <2>5. \A p \in DcNodes : Holding(p) \in {0, 1} /\ Holding(p)' = Holding(p)
    BY <2>4 DEF Holding
  <2> QED
    BY <2>2, <2>3, <2>4, <2>5
<1>8. \A p \in DcNodes :
        Cardinality(Assigners(p)') = Cardinality(Assigners(p)) + (IF p = q THEN 1 ELSE 0)
  BY <1>6, <1>7, FS_AddElement
<1>9. HeldIsCovered'
  <2> SUFFICES ASSUME NEW p \in DcNodes
               PROVE  dcClient'[p].balance + Holding(p)' + Cardinality(Assigners(p)') <= Earned(p)'
    BY DEF HeldIsCovered
  <2>1. dcClient[p].balance + Holding(p) + Cardinality(Assigners(p)) <= Earned(p)
    BY DEF DcIInv, HeldIsCovered
  <2> QED
    BY <1>7, <1>8, <2>1
<1>10. PaidIsCovered'
  <2> SUFFICES ASSUME NEW d \in DcCalls, NEW p \in DcNodes,
                      dcCall'[d].todo \in Pays, dcCall'[d].node = p
               PROVE  dcCall'[d].seen.balance + 1 + Cardinality(Assigners(p)') <= Earned(p)'
    BY DEF PaidIsCovered
  <2>1. d # c /\ dcCall'[d] = dcCall[d]
    BY <1>3, <1>4
  <2>2. dcCall[d].seen.balance \in Nat
    BY DEF DcIInv, DcTypeOK, CallRecords, Entities
  <2>3. dcCall[d].seen.balance + 1 + Cardinality(Assigners(p)) <= Earned(p)
    BY <2>1 DEF DcIInv, PaidIsCovered
  <2> QED
    BY <1>7, <1>8, <2>1, <2>2, <2>3
<1> QED
  BY <1>5, <1>9, <1>10 DEF DcIInv

\* A payment writes the balance that the call read, and one more.
LEMMA UpdateClientStateWithRewardsCovered ==
    ASSUME DcIInv, NEW c \in DcCalls, UpdateClientStateWithRewards(c)
    PROVE  DcIInv'
<1>0. PICK q \in DcNodes : q = dcCall[c].node
  BY DEF DcIInv, DcTypeOK, CallRecords
<1> DEFINE paid == [dcClient[q] EXCEPT !.job = DcNoJob, !.working = FALSE,
                                       !.balance = dcCall[c].seen.balance + 1]
<1>1. /\ InProgress(c) /\ Head(dcCall[c].todo) = "pay" /\ Done(c)
      /\ dcClient' = [dcClient EXCEPT ![q] = paid]
      /\ UNCHANGED <<dcJob, dcOwner, dcAssigned, dcGranted>>
  BY <1>0 DEF UpdateClientStateWithRewards, Runs, Paid, dcHistory
<1>2. dcCall[c] \in CallRecords /\ dcCall[c].todo \in Todos /\ dcCall[c].todo # <<>>
  BY <1>1 DEF DcIInv, DcTypeOK, CallRecords, InProgress
<1>3. /\ dcCall[c].seen.balance \in Nat /\ paid \in Entities
      /\ paid.balance = dcCall[c].seen.balance + 1 /\ paid.job = DcNoJob
  <2>1. dcCall[c].seen.balance \in Nat /\ dcClient[q] \in Entities
    BY <1>2 DEF DcIInv, DcTypeOK, CallRecords, Entities
  <2>2. \A e \in Entities, b \in Nat :
           LET r == [e EXCEPT !.job = DcNoJob, !.working = FALSE, !.balance = b]
           IN  r \in Entities /\ r.balance = b /\ r.job = DcNoJob
    BY DEF Entities
  <2>3. dcCall[c].seen.balance + 1 \in Nat
    BY <2>1
  <2> QED
    BY <2>1, <2>2, <2>3
<1> HIDE DEF paid
<1>4. dcCall[c].todo \in Pays /\ Tail(dcCall[c].todo) = <<>>
  BY <1>1, <1>2, TodoSteps
<1>5. /\ dcCall' \in [DcCalls -> CallRecords]
      /\ dcCall'[c].todo = <<>> /\ \A d \in DcCalls : d # c => dcCall'[d] = dcCall[d]
  BY <1>1, <1>4, DoneCall DEF DcIInv
<1>6. DcTypeOK'
  BY <1>1, <1>3, <1>5 DEF DcIInv, DcTypeOK
<1>7. dcCall[c].todo \notin Works /\ <<>> \notin Works /\ <<>> \notin Pays
  BY <1>4 DEF Works, Pays
<1>8. \A p \in DcNodes : Assigners(p)' = Assigners(p) /\ Earned(p)' = Earned(p)
  BY <1>1, <1>5, <1>7 DEF Assigners, Earned
<1>9. dcCall[c].seen.balance + 1 + Cardinality(Assigners(q)) <= Earned(q)
  BY <1>0, <1>4 DEF DcIInv, PaidIsCovered
<1>10. HeldIsCovered'
  <2> SUFFICES ASSUME NEW p \in DcNodes
               PROVE  dcClient'[p].balance + Holding(p)' + Cardinality(Assigners(p)') <= Earned(p)'
    BY DEF HeldIsCovered
  <2>1. CASE p = q
    <3>1. dcClient'[p] = paid
      BY <1>1, <2>1 DEF DcIInv, DcTypeOK
    <3>2. Holding(p)' = 0
      BY <1>3, <3>1 DEF Holding
    <3> QED
      BY <1>3, <1>8, <1>9, <2>1, <3>1, <3>2
  <2>2. CASE p # q
    BY <1>1, <1>8, <2>2 DEF DcIInv, HeldIsCovered, Holding, DcTypeOK
  <2> QED
    BY <2>1, <2>2
<1>11. PaidIsCovered'
  BY <1>5, <1>7, <1>8 DEF DcIInv, PaidIsCovered
<1> QED
  BY <1>6, <1>10, <1>11 DEF DcIInv

\* Requests that begin no call.
LEMMA AddsCovered ==
    ASSUME DcIInv, AddJob \/ \E q \in DcNodes : AddRewardsToDB(q)
    PROVE  DcIInv'
<1>1. ASSUME AddJob PROVE DcIInv'
  <2>1. dcJob' \in [DcJobs -> JobEntities] /\ UNCHANGED <<dcClient, dcCall, dcOwner, dcAssigned, dcGranted>>
    BY <1>1 DEF AddJob, DcIInv, DcTypeOK, JobEntities, dcHistory
  <2>2. DcTypeOK'
    BY <2>1 DEF DcIInv, DcTypeOK
  <2>3. \A p \in DcNodes : Assigners(p)' = Assigners(p) /\ Earned(p)' = Earned(p)
                           /\ Holding(p)' = Holding(p)
    BY <2>1 DEF Assigners, Earned, Holding
  <2> QED
    BY <2>1, <2>2, <2>3 DEF DcIInv, HeldIsCovered, PaidIsCovered
<1>2. ASSUME NEW q \in DcNodes, AddRewardsToDB(q) PROVE DcIInv'
  <2>1. /\ dcClient' = [dcClient EXCEPT ![q].balance = @ + 1]
        /\ dcGranted' = [dcGranted EXCEPT ![q] = @ + 1]
        /\ UNCHANGED <<dcJob, dcCall, dcOwner, dcAssigned>>
    BY <1>2 DEF AddRewardsToDB
  <2>2. dcClient[q] \in Entities /\ dcClient[q].balance \in Nat
    BY DEF DcIInv, DcTypeOK, Entities
  <2>3. [dcClient[q] EXCEPT !.balance = @ + 1] \in Entities
    BY <2>2 DEF Entities
  <2>4. DcTypeOK'
    BY <2>1, <2>3 DEF DcIInv, DcTypeOK
  <2>5. \A p \in DcNodes :
           /\ Earned(p) \in Nat /\ Earned(p)' = Earned(p) + (IF p = q THEN 1 ELSE 0)
           /\ dcClient[p].balance \in Nat
           /\ dcClient'[p].balance = dcClient[p].balance + (IF p = q THEN 1 ELSE 0)
           /\ Holding(p) \in Nat /\ Holding(p)' = Holding(p)
    BY <2>1, <2>2 DEF DcIInv, DcTypeOK, Earned, Holding, Entities
  <2>6. \A p \in DcNodes :
         /\ Earned(p) <= Earned(p)'
         /\ dcClient'[p].balance + Holding(p)' + Earned(p)
              <= dcClient[p].balance + Holding(p) + Earned(p)'
    BY <2>5
  <2> QED
    BY <2>1, <2>4, <2>6, StaysCovered DEF DcIInv
<1> QED
  BY <1>1, <1>2

\* Initially nothing is held or earned.
LEMMA DcInitIInv == DcInit => DcIInv
<1> SUFFICES ASSUME DcInit PROVE DcIInv
  OBVIOUS
<1>1. Unknown \in Entities /\ Unknown.balance = 0 /\ Unknown.job = DcNoJob
  BY DcAssumption DEF Entities, Unknown, Fresh
<1>2. DcTypeOK
  BY <1>1, CallType DEF DcInit, DcResting, DcTypeOK, JobEntities, NoEntity
<1>3. <<>> \notin Works /\ <<>> \notin Pays
  BY DEF Works, Pays
<1>4. \A p \in DcNodes : Assigners(p) = {}
  BY <1>3, CallType DEF DcInit, DcResting, Assigners
<1>5. HeldIsCovered
  <2> SUFFICES ASSUME NEW p \in DcNodes
               PROVE  dcClient[p].balance + Holding(p) + Cardinality(Assigners(p)) <= Earned(p)
    BY DEF HeldIsCovered
  <2>1. dcClient[p] = Unknown /\ Earned(p) = 0
    BY DEF DcInit, DcResting, Earned
  <2>2. Cardinality(Assigners(p)) = 0
    BY <1>4, FS_EmptySet
  <2> QED
    BY <1>1, <2>1, <2>2 DEF Holding
<1>6. PaidIsCovered
  BY <1>3, CallType DEF DcInit, DcResting, PaidIsCovered
<1> QED
  BY <1>2, <1>5, <1>6 DEF DcIInv

LEMMA DcStepIInv == DcIInv /\ [DcNext]_dcVars => DcIInv'
<1> SUFFICES ASSUME DcIInv, [DcNext]_dcVars PROVE DcIInv'
  OBVIOUS
<1>1. CASE \E c \in DcCalls : SocketRequest(c) \/ HttpRequest(c)
  BY <1>1, OthersBegin, UpdateJobCompletedCovered DEF SocketRequest
<1>2. CASE AddJob \/ \E p \in DcNodes : AddRewardsToDB(p)
  BY <1>2, AddsCovered
<1>3. CASE \E c \in DcCalls : DcMessage(c)
  BY <1>3, AddClientToDBCovered, UpdateClientStateCovered, OtherMessagesCovered,
     AssignJobCovered, UpdateClientStateWithRewardsCovered DEF DcMessage
<1>4. CASE UNCHANGED dcVars
  BY <1>4 DEF dcVars, dcHistory, DcIInv, DcTypeOK, HeldIsCovered, PaidIsCovered,
              Assigners, Earned, Holding
<1> QED
  BY <1>1, <1>2, <1>3, <1>4 DEF DcNext

\* A node's balance is within its assignments and grants.
LEMMA DcIInvPaid == DcIInv => PaidPerAssignment
<1> SUFFICES ASSUME DcIInv, NEW p \in DcNodes
             PROVE  dcClient[p].balance <= dcAssigned[p] + dcGranted[p]
  BY DEF PaidPerAssignment
<1>1. IsFiniteSet(Assigners(p)) /\ Cardinality(Assigners(p)) \in Nat
  <2>1. Assigners(p) \in SUBSET DcCalls
    BY DEF Assigners
  <2> QED
    BY <2>1, DcAssumption, FS_Subset, FS_CardinalityType
<1>2. dcClient[p].balance + Holding(p) + Cardinality(Assigners(p)) <= Earned(p)
  BY DEF DcIInv, HeldIsCovered
<1>3. dcClient[p].balance \in Nat /\ Holding(p) \in Nat /\ Earned(p) \in Nat
  BY DEF DcIInv, DcTypeOK, Entities, Holding, Earned
<1> QED
  BY <1>1, <1>2, <1>3 DEF Earned

\* The database canister: whatever the calls that overlap, a node is paid at
\* most once for every assignment, and what was added by hand.
THEOREM DatabasePaysPerAssignment == DcSpec => []PaidPerAssignment
<1>1. DcInit => DcIInv
  BY DcInitIInv
<1>2. DcIInv /\ [DcNext]_dcVars => DcIInv'
  BY DcStepIInv
<1>3. DcIInv => PaidPerAssignment
  BY DcIInvPaid
<1> QED
  BY <1>1, <1>2, <1>3, PTL DEF DcSpec

(***************************************************************************)
(* The node canister's messages.                                           *)
(***************************************************************************)
SendRecords == [pc : {"none", "gateway", "num", "numbered", "cert", "certified"},
           client : CsClients \cup {0}, key : Nat, num : Nat]
ListedMessages == [key : Nat, client : CsClients, num : Nat]

CsTypeOK ==
    /\ csNum \in [CsClients -> Nat]
    /\ csNonce \in Nat
    /\ csExpiry \subseteq 1 .. csNonce
    /\ csList \in Seq(ListedMessages)
    /\ csCall \in [CsCalls -> SendRecords]
    /\ csInbox \in Seq(CsCalls)
    /\ gwNonce \in Nat
    /\ gwReply \in Seq(ListedMessages)
    /\ gwHanded \subseteq Nat
    /\ csReordered \in BOOLEAN /\ gwDisordered \in BOOLEAN

\* Sends that have a key, and those whose message has a number.
HasKey(k) == csCall[k].pc \in {"num", "numbered", "cert", "certified"}
HasNum(k) == csCall[k].pc \in {"numbered", "cert", "certified"}

MessageOf(k) == [key |-> csCall[k].key, client |-> csCall[k].client, num |-> csCall[k].num]

\* A send has a client's, and its own, key, which is still in the deletion queue.
CallsWell ==
    /\ \A k \in CsCalls : csCall[k].pc = "none" => csCall[k] = NoSend
    /\ \A k \in CsCalls : csCall[k].pc # "none" => csCall[k].client \in CsClients
    /\ \A k \in CsCalls : HasKey(k) => csCall[k].key \in csExpiry
    /\ \A k, l \in CsCalls : HasKey(k) /\ HasKey(l) /\ csCall[k].key = csCall[l].key => k = l

\* The inbox has the sends whose request waits, those for a number in the
\* order of their keys.
InboxWell ==
    /\ \A i \in DOMAIN csInbox : csCall[csInbox[i]].pc \in {"num", "cert"}
    /\ \A i, j \in DOMAIN csInbox : csInbox[i] = csInbox[j] => i = j
    /\ \A k \in CsCalls : csCall[k].pc = "num" => \E i \in DOMAIN csInbox : csInbox[i] = k
    /\ \A i, j \in DOMAIN csInbox :
          i < j /\ csCall[csInbox[i]].pc = "num" /\ csCall[csInbox[j]].pc = "num"
              => csCall[csInbox[i]].key < csCall[csInbox[j]].key

\* Keys of sends in progress.
InFlight == {csCall[k].key : k \in {l \in CsCalls : HasKey(l)}}

\* Messages with a number: those listed and those of sends in progress.
NumberedMessages ==
    {csList[i] : i \in DOMAIN csList}
    \cup {MessageOf(k) : k \in {l \in CsCalls : HasNum(l)}}

\* Their keys are below those of the sends without a number, their numbers
\* within the client's count, and in the order of their keys.
NumbersWell ==
    /\ \A m \in NumberedMessages : m.key <= csNonce
    /\ \A m \in NumberedMessages, k \in CsCalls :
          csCall[k].pc = "num" => m.key < csCall[k].key
    /\ \A m \in NumberedMessages : m.client \notin csDeleted => m.num <= csNum[m.client]
    /\ \A m, n \in NumberedMessages :
          m.client = n.client /\ m.client \notin csDeleted /\ m.key < n.key => m.num < n.num

\* While messages were appended in the order of their keys, the list is in
\* that order, the deletion queue has the keys listed and those of sends in
\* progress, and those listed or certified are in the certificate tree.
ListWell ==
    /\ \A i, j \in DOMAIN csList : i < j => csList[i].key < csList[j].key
    /\ csExpiry = Keys(csList) \cup InFlight
    /\ Keys(csList) \cap InFlight = {}
    /\ Keys(csList) \subseteq csCert
    /\ \A k \in CsCalls : csCall[k].pc = "certified" => csCall[k].key \in csCert

\* Keys the gateway was given are listed still, or before all in the queue.
Given == gwHanded \cup Keys(gwReply)
GatewayWell ==
    /\ \A n \in Given : n <= csNonce /\ (n \in Keys(csList) \/ \A e \in csExpiry : n < e)
    /\ \A n \in gwHanded : n < gwNonce
    /\ gwNonce = 0 \/ gwNonce - 1 \in gwHanded
    /\ \A i \in DOMAIN gwReply : gwReply[i].key >= gwNonce
    /\ \A i, j \in DOMAIN gwReply : i < j => gwReply[i].key < gwReply[j].key
    /\ \A n \in Keys(csList), r \in Keys(gwReply) : gwNonce <= n /\ n <= r => n \in Keys(gwReply)

CsIInv ==
    /\ CsTypeOK /\ CallsWell /\ InboxWell /\ NumbersWell
    /\ csReordered \/ (ListWell /\ GatewayWell)
    /\ PolledOnce

\* The lesser of two numbers.
LEMMA LesserOfTwo ==
    ASSUME NEW a \in Nat, NEW b \in Nat
    PROVE  Min({a, b}) = IF a <= b THEN a ELSE b
<1> DEFINE m == IF a <= b THEN a ELSE b
<1>1. m \in {a, b} /\ \A y \in {a, b} : m <= y
  OBVIOUS
<1>2. \A z \in {a, b} : (\A y \in {a, b} : z <= y) => z = m
  OBVIOUS
<1> QED
  BY <1>1, <1>2 DEF Min

\* An initial part of 1 .. n is an interval as long as it has elements.
LEMMA InitialPart ==
    ASSUME NEW n \in Nat, NEW I \in SUBSET (1 .. n),
           \A i \in I : \A j \in 1 .. n : j < i => j \in I
    PROVE  Cardinality(I) \in 0 .. n /\ I = 1 .. Cardinality(I)
<1>1. IsFiniteSet(1 .. n) /\ Cardinality(1 .. n) = n
  BY FS_Interval
<1>2. IsFiniteSet(I) /\ Cardinality(I) \in Nat /\ Cardinality(I) <= n
  BY <1>1, FS_Subset, FS_CardinalityType
<1>3. \A i \in I : i <= Cardinality(I)
  <2> SUFFICES ASSUME NEW i \in I PROVE i <= Cardinality(I)
    OBVIOUS
  <2>1. 1 .. i \in SUBSET I
    OBVIOUS
  <2>2. i \in Int /\ Cardinality(1 .. i) = i
    BY FS_Interval
  <2> QED
    BY <1>2, <2>1, <2>2, FS_Subset
<1>4. I \in SUBSET (1 .. Cardinality(I))
  BY <1>2, <1>3
<1>5. IsFiniteSet(1 .. Cardinality(I)) /\ Cardinality(1 .. Cardinality(I)) = Cardinality(I)
  BY <1>2, FS_Interval
<1>6. I = 1 .. Cardinality(I)
  BY <1>4, <1>5, FS_Subset
<1> QED
  BY <1>2, <1>6

\* The rest of a list of messages after the first m.
LEMMA RestOfList ==
    ASSUME NEW s \in Seq(ListedMessages), NEW m \in 0 .. Len(s), NEW e \in m .. Len(s)
    PROVE  /\ SubSeq(s, m + 1, e) \in Seq(ListedMessages)
           /\ Len(SubSeq(s, m + 1, e)) = e - m
           /\ \A i \in 1 .. (e - m) : SubSeq(s, m + 1, e)[i] = s[i + m]
<1>1. \A i \in (m + 1) .. e : s[i] \in ListedMessages
  OBVIOUS
<1>2. m + 1 \in Int /\ e \in Int
  OBVIOUS
<1>3. /\ SubSeq(s, m + 1, e) \in Seq(ListedMessages)
      /\ Len(SubSeq(s, m + 1, e)) = IF m + 1 <= e THEN e - (m + 1) + 1 ELSE 0
      /\ \A i \in 1 .. (e - (m + 1) + 1) : SubSeq(s, m + 1, e)[i] = s[(m + 1) + i - 1]
  BY <1>1, <1>2, SubSeqProperties
<1>4. IF m + 1 <= e THEN e - (m + 1) + 1 = e - m ELSE 0 = e - m
  OBVIOUS
<1>5. \A i \in 1 .. (e - m) : i \in 1 .. (e - (m + 1) + 1) /\ (m + 1) + i - 1 = i + m
  OBVIOUS
<1> QED
  BY <1>3, <1>4, <1>5

\* Messages with a number are messages of the list's kind.
LEMMA NumberedType ==
    ASSUME CsTypeOK, CallsWell
    PROVE  NumberedMessages \in SUBSET ListedMessages
<1>1. \A i \in DOMAIN csList : csList[i] \in ListedMessages
  BY DEF CsTypeOK
<1>2. \A k \in CsCalls : HasNum(k) => MessageOf(k) \in ListedMessages
  <2> SUFFICES ASSUME NEW k \in CsCalls, HasNum(k) PROVE MessageOf(k) \in ListedMessages
    OBVIOUS
  <2>1. csCall[k].client \in CsClients
    BY DEF CallsWell, HasNum
  <2>2. csCall[k].key \in Nat /\ csCall[k].num \in Nat
    BY DEF CsTypeOK, SendRecords
  <2> QED
    BY <2>1, <2>2 DEF MessageOf, ListedMessages
<1> QED
  BY <1>1, <1>2 DEF NumberedMessages

\* Keys are numbers.
LEMMA KeysType ==
    ASSUME CsTypeOK
    PROVE  /\ \A i \in DOMAIN csList : csList[i].key \in Nat
           /\ \A i \in DOMAIN gwReply : gwReply[i].key \in Nat
           /\ \A n \in Given : n \in Nat
           /\ \A k \in CsCalls : csCall[k].key \in Nat
<1>1. csList \in Seq(ListedMessages) /\ gwReply \in Seq(ListedMessages)
  BY DEF CsTypeOK
<1>2. \A m \in ListedMessages : m.key \in Nat
  BY DEF ListedMessages
<1>3. /\ \A i \in DOMAIN csList : csList[i].key \in Nat
      /\ \A i \in DOMAIN gwReply : gwReply[i].key \in Nat
  BY <1>1, <1>2
<1>4. \A n \in Given : n \in Nat
  BY <1>3 DEF Given, Keys, CsTypeOK
<1> QED
  BY <1>3, <1>4 DEF CsTypeOK, SendRecords

\* In a list in the order of its keys, those below some number come first.
LEMMA BeforeIsPrefix ==
    ASSUME CsTypeOK, \A i, j \in DOMAIN csList : i < j => csList[i].key < csList[j].key,
           NEW nonce \in Nat
    PROVE  /\ Before(nonce) \in 0 .. Len(csList)
           /\ \A i \in DOMAIN csList : csList[i].key < nonce <=> i <= Before(nonce)
<1> DEFINE I == {i \in DOMAIN csList : csList[i].key < nonce}
<1>1. DOMAIN csList = 1 .. Len(csList) /\ Len(csList) \in Nat
      /\ \A i \in DOMAIN csList : csList[i].key \in Nat
  <2>1. csList \in Seq(ListedMessages) /\ \A r \in ListedMessages : r.key \in Nat
    BY DEF CsTypeOK, ListedMessages
  <2> QED
    BY <2>1
<1>2. I \in SUBSET (1 .. Len(csList))
  BY <1>1
<1>3. \A i \in I : \A j \in 1 .. Len(csList) : j < i => j \in I
  BY <1>1
<1>4. Cardinality(I) \in 0 .. Len(csList) /\ I = 1 .. Cardinality(I)
  <2> HIDE DEF I
  <2> QED
    BY <1>1, <1>2, <1>3, InitialPart
<1>5. Before(nonce) = Cardinality(I)
  BY DEF Before
<1>6. \A i \in DOMAIN csList : csList[i].key < nonce <=> i \in 1 .. Cardinality(I)
  BY <1>4
<1> QED
  <2> HIDE DEF I
  <2> QED
    BY <1>1, <1>4, <1>5, <1>6

\* So do the oldest of the deletion queue, and as many messages as these are
\* taken off the front.
LEMMA RemainingWell ==
    ASSUME CsTypeOK, NEW x \in Expirable
    PROVE  /\ Remaining(x) \in Seq(ListedMessages)
           /\ \A i \in DOMAIN Remaining(x) : \E j \in DOMAIN csList : Remaining(x)[i] = csList[j]
           /\ ListWell => /\ Keys(Remaining(x)) = Keys(csList) \ x
                          /\ \A i, j \in DOMAIN Remaining(x) :
                                i < j => Remaining(x)[i].key < Remaining(x)[j].key
<1> DEFINE L == Len(csList)
           m == Min({Cardinality(x), L})
<1>1. x \in SUBSET csExpiry /\ csExpiry \in SUBSET (1 .. csNonce) /\ csNonce \in Nat /\ L \in Nat
      /\ csList \in Seq(ListedMessages)
  BY DEF Expirable, CsTypeOK
<1>2. IsFiniteSet(x) /\ Cardinality(x) \in Nat
  <2>1. IsFiniteSet(1 .. csNonce) /\ x \in SUBSET (1 .. csNonce)
    BY <1>1, FS_Interval
  <2> QED
    BY <2>1, FS_Subset, FS_CardinalityType
<1>3. m = IF Cardinality(x) <= L THEN Cardinality(x) ELSE L
  BY <1>1, <1>2, LesserOfTwo
<1>4. m \in 0 .. L /\ L \in m .. L
  BY <1>1, <1>2, <1>3
<1>5. Remaining(x) = SubSeq(csList, m + 1, L)
  BY DEF Remaining
<1>6. /\ Remaining(x) \in Seq(ListedMessages) /\ Len(Remaining(x)) = L - m
      /\ \A i \in 1 .. (L - m) : Remaining(x)[i] = csList[i + m]
  <2> HIDE DEF m
  <2> QED
    BY <1>1, <1>4, <1>5, RestOfList
<1>7. /\ DOMAIN Remaining(x) = 1 .. (L - m) /\ DOMAIN csList = 1 .. L
      /\ \A i \in 1 .. (L - m) : i + m \in 1 .. L
  <2> HIDE DEF m
  <2> QED
    BY <1>1, <1>4, <1>6
<1>8. ASSUME ListWell
      PROVE  /\ Keys(Remaining(x)) = Keys(csList) \ x
             /\ \A i, j \in DOMAIN Remaining(x) :
                                i < j => Remaining(x)[i].key < Remaining(x)[j].key
  <2> DEFINE I == {i \in 1 .. L : csList[i].key \in x}
  <2>1. /\ \A i, j \in 1 .. L : i < j => csList[i].key < csList[j].key
        /\ \A i \in 1 .. L : csList[i].key \in csExpiry /\ csList[i].key \in Nat
    <3>1. \A r \in ListedMessages : r.key \in Nat
      BY DEF ListedMessages
    <3>2. \A i \in 1 .. L : csList[i].key \in Keys(csList)
      BY <1>7 DEF Keys
    <3>3. Keys(csList) \subseteq csExpiry
      BY <1>8 DEF ListWell
    <3>4. \A i \in 1 .. L : csList[i] \in ListedMessages
      BY <1>1
    <3>5. \A i, j \in 1 .. L : i < j => csList[i].key < csList[j].key
      BY <1>7, <1>8 DEF ListWell
    <3> QED
      BY <3>1, <3>2, <3>3, <3>4, <3>5
  <2>2. x \subseteq Keys(csList)
    <3>1. \A n \in InFlight : n \notin x
      BY DEF InFlight, Expirable
    <3> QED
      BY <1>1, <1>8, <3>1 DEF ListWell
  <2>3. \A i \in I : \A j \in 1 .. L : j < i => j \in I
    <3> SUFFICES ASSUME NEW i \in I, NEW j \in 1 .. L, j < i PROVE csList[j].key \in x
      OBVIOUS
    <3>1. csList[j].key < csList[i].key /\ csList[i].key \in x /\ csList[j].key \in csExpiry
      BY <2>1
    <3>2. \A n \in x : \A e \in csExpiry \ x : n < e
      BY DEF Expirable
    <3>3. csList[j].key \in Nat /\ csList[i].key \in Nat
      BY <2>1
    <3> QED
      BY <3>1, <3>2, <3>3
  <2>4. Cardinality(I) \in 0 .. L /\ I = 1 .. Cardinality(I)
    <3>1. I \in SUBSET (1 .. L)
      OBVIOUS
    <3> HIDE DEF I, L
    <3> QED
      BY <1>1, <2>3, <3>1, InitialPart
  <2>5. Cardinality(x) = Cardinality(I)
    <3> DEFINE f == [i \in I |-> csList[i].key]
    <3>1. f \in Bijection(I, x)
      <4>1. \A n \in x : \E i \in I : csList[i].key = n
        BY <1>7, <2>2 DEF Keys
      <4>2. \A i, j \in I : csList[i].key = csList[j].key => i = j
        <5> SUFFICES ASSUME NEW i \in I, NEW j \in I, i # j PROVE csList[i].key # csList[j].key
          OBVIOUS
        <5>1. i < j \/ j < i
          BY <1>1
        <5> QED
          BY <2>1, <5>1
      <4> QED
        BY <4>1, <4>2 DEF Bijection, Injection, Surjection, IsInjective
    <3>2. IsFiniteSet(I)
      <4>1. I \in SUBSET (1 .. L) /\ IsFiniteSet(1 .. L)
        BY <1>1, FS_Interval
      <4> QED
        BY <4>1, FS_Subset
    <3> QED
      BY <3>1, <3>2, FS_Bijection DEF ExistsBijection
  <2>6. m = Cardinality(I)
    <3> HIDE DEF I
    <3> QED
      BY <1>1, <1>3, <2>4, <2>5
  <2>7. \A i \in 1 .. L : csList[i].key \in x <=> i <= m
    <3>1. \A i \in 1 .. L : csList[i].key \in x <=> i \in I
      OBVIOUS
    <3> HIDE DEF I, m
    <3> QED
      BY <1>1, <1>4, <2>4, <2>6, <3>1
  <2> HIDE DEF m, L, I
  <2>8. Keys(Remaining(x)) \subseteq Keys(csList) \ x
    <3> SUFFICES ASSUME NEW i \in DOMAIN Remaining(x)
                 PROVE  Remaining(x)[i].key \in Keys(csList) \ x
      BY DEF Keys
    <3>1. Remaining(x)[i] = csList[i + m] /\ i + m \in 1 .. L /\ ~(i + m <= m)
      BY <1>1, <1>4, <1>6, <1>7
    <3> QED
      BY <1>7, <2>7, <3>1 DEF Keys
  <2>9. Keys(csList) \ x \subseteq Keys(Remaining(x))
    <3> SUFFICES ASSUME NEW j \in 1 .. L, csList[j].key \notin x
                 PROVE  csList[j].key \in Keys(Remaining(x))
      BY <1>7 DEF Keys
    <3>1. ~(j <= m)
      BY <2>7
    <3>2. j - m \in 1 .. (L - m) /\ (j - m) + m = j
      BY <1>1, <1>4, <3>1
    <3>3. Remaining(x)[j - m] = csList[j] /\ j - m \in DOMAIN Remaining(x)
      BY <1>6, <1>7, <3>2
    <3> QED
      BY <3>3 DEF Keys
  <2>10. ASSUME NEW i \in DOMAIN Remaining(x), NEW j \in DOMAIN Remaining(x), i < j
         PROVE  Remaining(x)[i].key < Remaining(x)[j].key
    <3>1. Remaining(x)[i] = csList[i + m] /\ Remaining(x)[j] = csList[j + m]
          /\ i + m \in 1 .. L /\ j + m \in 1 .. L
      BY <1>6, <1>7
    <3>2. i + m < j + m
      BY <1>4, <1>1, <1>7, <2>10
    <3> QED
      BY <2>1, <3>1, <3>2
  <2> QED
    BY <2>8, <2>9, <2>10
<1> QED
  <2> HIDE DEF m, L
  <2> QED
    BY <1>6, <1>7, <1>8


\* A send's record with its stage changed, and the send at rest.
LEMMA SendType ==
    /\ NoSend \in SendRecords /\ NoSend.pc = "none"
    /\ \A r \in SendRecords, s \in {"none", "gateway", "num", "numbered", "cert", "certified"} :
          /\ [r EXCEPT !.pc = s] \in SendRecords
          /\ [r EXCEPT !.pc = s].client = r.client /\ [r EXCEPT !.pc = s].pc = s
          /\ [r EXCEPT !.pc = s].key = r.key /\ [r EXCEPT !.pc = s].num = r.num
BY DEF NoSend, SendRecords

\* Sends without a key come and go without disturbing the others.
LEMMA SameInFlight ==
    ASSUME \A k \in CsCalls : \/ csCall'[k] = csCall[k]
                              \/ ~HasKey(k) /\ ~HasKey(k)'
    PROVE  /\ InFlight' = InFlight
           /\ csList' = csList => NumberedMessages' = NumberedMessages
           /\ \A k \in CsCalls : HasKey(k)' => HasKey(k) /\ csCall'[k] = csCall[k]
           /\ \A k \in CsCalls : HasKey(k) => csCall'[k] = csCall[k]
<1>1. \A k \in CsCalls : HasNum(k) => HasKey(k)
  BY DEF HasNum, HasKey
<1>2. \A k \in CsCalls : HasNum(k)' => HasKey(k)'
  BY DEF HasNum, HasKey
<1>3. \A k \in CsCalls : csCall'[k] = csCall[k] =>
         (HasKey(k)' <=> HasKey(k)) /\ (HasNum(k)' <=> HasNum(k)) /\ MessageOf(k)' = MessageOf(k)
  BY DEF HasKey, HasNum, MessageOf
<1>4. InFlight' = InFlight
  BY <1>3 DEF InFlight
<1>5. csList' = csList => NumberedMessages' = NumberedMessages
  BY <1>1, <1>2, <1>3 DEF NumberedMessages
<1> QED
  BY <1>3, <1>4, <1>5

\* Steps that change only sends without a key leave all in order.
LEMMA QuietCalls ==
    ASSUME CsIInv, csCall' \in [CsCalls -> SendRecords],
           \A k \in CsCalls : \/ csCall'[k] = csCall[k]
                              \/ /\ csCall[k].pc \in {"none", "gateway"}
                                 /\ csCall'[k].pc \in {"none", "gateway"}
                                 /\ csCall'[k].pc = "none" => csCall'[k] = NoSend
                                 /\ csCall'[k].pc # "none" => csCall'[k].client \in CsClients,
           UNCHANGED <<csNum, csNonce, csExpiry, csCert, csList, csInbox, gwNonce, gwReply, csHistory>>
    PROVE  CsIInv'
<1>0. /\ csNum' = csNum /\ csNonce' = csNonce /\ csExpiry' = csExpiry /\ csCert' = csCert
      /\ csList' = csList /\ csInbox' = csInbox /\ gwNonce' = gwNonce /\ gwReply' = gwReply
      /\ csReordered' = csReordered /\ csDeleted' = csDeleted /\ gwHanded' = gwHanded
      /\ gwDisordered' = gwDisordered
  BY DEF csHistory
<1>1. /\ InFlight' = InFlight /\ NumberedMessages' = NumberedMessages
      /\ \A k \in CsCalls : HasKey(k)' => HasKey(k) /\ csCall'[k] = csCall[k]
      /\ \A k \in CsCalls : HasKey(k) => csCall'[k] = csCall[k]
  <2>1. \A k \in CsCalls : csCall'[k] = csCall[k] \/ (~HasKey(k) /\ ~HasKey(k)')
    BY DEF HasKey
  <2> QED
    BY <1>0, <2>1, SameInFlight
<1>2. CsTypeOK'
  BY <1>0 DEF CsIInv, CsTypeOK
<1>3. CallsWell'
  BY <1>0, <1>1 DEF CsIInv, CallsWell
<1>4. \A k \in CsCalls : csCall[k].pc \in {"num", "cert"} => csCall'[k] = csCall[k]
  BY <1>1 DEF HasKey
<1>5. \A k \in CsCalls : csCall'[k].pc = "num" => csCall'[k] = csCall[k]
  BY <1>1 DEF HasKey
<1>6. InboxWell'
  <2>1. \A i \in DOMAIN csInbox : csInbox[i] \in CsCalls /\ csCall'[csInbox[i]] = csCall[csInbox[i]]
    BY <1>4 DEF CsIInv, CsTypeOK, InboxWell
  <2> QED
    BY <1>0, <1>5, <2>1 DEF CsIInv, InboxWell
<1>7. NumbersWell'
  BY <1>0, <1>1, <1>5 DEF CsIInv, NumbersWell
<1>8. ListWell => ListWell'
  <2>1. \A k \in CsCalls : csCall'[k].pc = "certified" => csCall'[k] = csCall[k]
    BY <1>1 DEF HasKey
  <2> QED
    BY <1>0, <1>1, <2>1 DEF ListWell
<1>9. GatewayWell => GatewayWell'
  BY <1>0 DEF GatewayWell, Given
<1>10. PolledOnce'
  BY <1>0 DEF CsIInv, PolledOnce
<1> QED
  BY <1>0, <1>2, <1>3, <1>6, <1>7, <1>8, <1>9, <1>10 DEF CsIInv

\* A send begins, or ends for want of a gateway.
LEMMA SendsKept ==
    ASSUME CsIInv, NEW k \in CsCalls, NEW c \in CsClients, Sends(k, c),
           UNCHANGED <<csNum, csNonce, csExpiry, csCert, csList, csInbox, gwNonce, gwReply, csHistory>>
    PROVE  CsIInv'
<1>1. csCall[k] = NoSend /\ csCall' = [csCall EXCEPT ![k] = [@ EXCEPT !.pc = "gateway",
                                                                      !.client = c]]
  BY DEF Sends
<1>2. csCall \in [CsCalls -> SendRecords] /\ NoSend \in SendRecords /\ NoSend.pc = "none"
  BY SendType DEF CsIInv, CsTypeOK
<1>3. \A r \in SendRecords :
         LET n == [[r EXCEPT !.pc = "gateway"] EXCEPT !.client = c]
         IN  n \in SendRecords /\ n.pc = "gateway" /\ n.client = c
  BY DEF SendRecords
<1>4. csCall' = [csCall EXCEPT ![k] = [[csCall[k] EXCEPT !.pc = "gateway"] EXCEPT !.client = c]]
  BY <1>1
<1>5. /\ csCall' \in [CsCalls -> SendRecords]
      /\ csCall'[k].pc = "gateway" /\ csCall'[k].client = c
      /\ \A l \in CsCalls : l # k => csCall'[l] = csCall[l]
  BY <1>2, <1>3, <1>4
<1> QED
  BY <1>1, <1>2, <1>5, QuietCalls

LEMMA DeletionKept ==
    ASSUME CsIInv, NEW c \in CsClients,
           csNum' = [csNum EXCEPT ![c] = 0], csDeleted' = csDeleted \cup {c},
           UNCHANGED <<csNonce, csExpiry, csCert, csList, csCall, csInbox, gwNonce, gwReply,
                       csReordered, gwHanded, gwDisordered>>
    PROVE  CsIInv'
<1>1. CsTypeOK'
  BY DEF CsIInv, CsTypeOK
<1>2. NumberedMessages' = NumberedMessages
  BY DEF NumberedMessages, HasNum, MessageOf
<1>3. \A m \in NumberedMessages : m.client \in CsClients
  BY NumberedType DEF CsIInv, ListedMessages
<1>4. NumbersWell'
  BY <1>2, <1>3 DEF CsIInv, CsTypeOK, NumbersWell
<1>5. CallsWell' /\ InboxWell' /\ PolledOnce' /\ (ListWell => ListWell') /\ (GatewayWell => GatewayWell')
  BY DEF CsIInv, CallsWell, HasKey, InboxWell, PolledOnce, ListWell, InFlight, GatewayWell, Given
<1> QED
  BY <1>1, <1>4, <1>5 DEF CsIInv

\* The handlers that clients and the gateway call.
LEMMA ClientsKept ==
    ASSUME CsIInv, NEW c \in CsClients, WsRegister(c) \/ WsClose(c)
              \/ \E k \in CsCalls : WsOpen(k, c) \/ Answers(k, c)
    PROVE  CsIInv'
<1>1. ASSUME UNCHANGED <<csNum, csNonce, csExpiry, csCert, csList, csCall, csInbox, gwNonce, gwReply, csHistory>>
      PROVE  CsIInv'
  <2>1. csCall' \in [CsCalls -> SendRecords] /\ \A k \in CsCalls : csCall'[k] = csCall[k]
    BY <1>1 DEF CsIInv, CsTypeOK
  <2> QED
    BY <1>1, <2>1, QuietCalls
<1>2. CASE WsRegister(c)
  BY <1>1, <1>2 DEF WsRegister, gwState
<1>3. CASE WsClose(c)
  BY <1>1, <1>3, DeletionKept DEF WsClose, DeleteClient, csHistory
<1>4. ASSUME NEW k \in CsCalls, WsOpen(k, c) PROVE CsIInv'
  BY <1>4, SendsKept DEF WsOpen
<1>5. ASSUME NEW k \in CsCalls, Answers(k, c) PROVE CsIInv'
  BY <1>5, SendsKept DEF Answers, gwState
<1> QED
  BY <1>2, <1>3, <1>4, <1>5

\* A send that has a key goes on with it.
LEMMA Advances ==
    ASSUME CsIInv, NEW k \in CsCalls, HasKey(k), csCall'[k].pc \in {"num", "numbered", "cert", "certified"},
           csCall' \in [CsCalls -> SendRecords],
           csCall'[k].client = csCall[k].client, csCall'[k].key = csCall[k].key,
           \A l \in CsCalls : l # k => csCall'[l] = csCall[l],
           csExpiry' = csExpiry
    PROVE  /\ InFlight' = InFlight /\ CallsWell'
           /\ \A l \in CsCalls : HasKey(l)' <=> HasKey(l)
<1>1. \A l \in CsCalls : (HasKey(l)' <=> HasKey(l)) /\ (HasKey(l) => csCall'[l].key = csCall[l].key)
  BY DEF HasKey
<1>2. InFlight' = InFlight
  BY <1>1 DEF InFlight
<1>3. CallsWell'
  <2>1. csCall[k].client \in CsClients
    BY DEF CsIInv, CallsWell, HasKey
  <2>2. \A l \in CsCalls : csCall'[l].pc = "none" => csCall'[l] = NoSend
    BY DEF CsIInv, CallsWell
  <2>3. \A l \in CsCalls : csCall'[l].pc # "none" => csCall'[l].client \in CsClients
    BY <2>1 DEF CsIInv, CallsWell
  <2>4. \A l \in CsCalls : HasKey(l)' => csCall'[l].key \in csExpiry'
    BY <1>1 DEF CsIInv, CallsWell
  <2>5. \A l, j \in CsCalls : HasKey(l)' /\ HasKey(j)' /\ csCall'[l].key = csCall'[j].key => l = j
    BY <1>1 DEF CsIInv, CallsWell
  <2> QED
    BY <2>2, <2>3, <2>4, <2>5 DEF CallsWell
<1> QED
  BY <1>1, <1>2, <1>3

\* The inbox without its head.
LEMMA InboxTail ==
    ASSUME CsIInv, NEW k \in CsCalls, csInbox # <<>>, k = Head(csInbox), csInbox' = Tail(csInbox),
           csCall'[k].pc # "num",
           \A l \in CsCalls : l # k => csCall'[l] = csCall[l]
    PROVE  /\ csInbox' \in Seq(CsCalls) /\ InboxWell'
           /\ csCall[k].pc = "num" =>
                \A l \in CsCalls : csCall'[l].pc = "num" => csCall[k].key < csCall[l].key
<1>1. /\ csInbox \in Seq(CsCalls) /\ csInbox' \in Seq(CsCalls) /\ Len(csInbox) \in Nat
      /\ DOMAIN csInbox = 1 .. Len(csInbox) /\ DOMAIN csInbox' = 1 .. (Len(csInbox) - 1)
      /\ \A i \in DOMAIN csInbox' : i + 1 \in DOMAIN csInbox /\ csInbox'[i] = csInbox[i + 1]
      /\ csInbox[1] = k /\ 1 \in DOMAIN csInbox
  <2>1. csInbox \in Seq(CsCalls)
    BY DEF CsIInv, CsTypeOK
  <2> QED
    BY <2>1, HeadTailProperties
<1>2. InboxWell
  BY DEF CsIInv
<1>3. \A i \in DOMAIN csInbox' :
         csInbox[i + 1] # k /\ csInbox[i + 1] \in CsCalls /\ csCall'[csInbox[i + 1]] = csCall[csInbox[i + 1]]
  <2> SUFFICES ASSUME NEW i \in DOMAIN csInbox' PROVE csInbox[i + 1] # k /\ csInbox[i + 1] \in CsCalls
    OBVIOUS
  <2>1. i + 1 \in DOMAIN csInbox /\ i + 1 # 1
    BY <1>1
  <2>2. csInbox[i + 1] # csInbox[1]
    BY <1>1, <1>2, <2>1 DEF InboxWell
  <2> QED
    BY <1>1, <2>1, <2>2
<1>4. \A i \in DOMAIN csInbox' : csCall'[csInbox'[i]].pc \in {"num", "cert"}
  BY <1>1, <1>2, <1>3 DEF InboxWell
<1>5. ASSUME NEW i \in DOMAIN csInbox', NEW j \in DOMAIN csInbox', csInbox'[i] = csInbox'[j] PROVE i = j
  <2>1. i + 1 = j + 1
    BY <1>1, <1>2, <1>5 DEF InboxWell
  <2> QED
    BY <1>1, <2>1
<1>6. ASSUME NEW l \in CsCalls, csCall'[l].pc = "num" PROVE \E i \in DOMAIN csInbox' : csInbox'[i] = l
  <2>1. l # k /\ csCall[l].pc = "num"
    BY <1>6
  <2>2. PICK j \in DOMAIN csInbox : csInbox[j] = l
    BY <1>2, <2>1 DEF InboxWell
  <2>3. j # 1 /\ j \in 1 .. Len(csInbox)
    BY <1>1, <2>1, <2>2
  <2>4. j - 1 \in DOMAIN csInbox' /\ (j - 1) + 1 = j
    BY <1>1, <2>3
  <2> QED
    BY <1>1, <2>2, <2>4
<1>7. ASSUME NEW i \in DOMAIN csInbox', NEW j \in DOMAIN csInbox', i < j,
             csCall'[csInbox'[i]].pc = "num", csCall'[csInbox'[j]].pc = "num"
      PROVE  csCall'[csInbox'[i]].key < csCall'[csInbox'[j]].key
  <2>1. i + 1 \in DOMAIN csInbox /\ j + 1 \in DOMAIN csInbox /\ i + 1 < j + 1
    BY <1>1, <1>7
  <2>2. csCall[csInbox[i + 1]].pc = "num" /\ csCall[csInbox[j + 1]].pc = "num"
    BY <1>1, <1>3, <1>7
  <2>3. csCall[csInbox[i + 1]].key < csCall[csInbox[j + 1]].key
    BY <1>2, <2>1, <2>2 DEF InboxWell
  <2> QED
    BY <1>1, <1>3, <2>3
<1>8. ASSUME NEW l \in CsCalls, csCall'[l].pc = "num", csCall[k].pc = "num" PROVE csCall[k].key < csCall[l].key
  <2>1. csCall[l].pc = "num"
    BY <1>8
  <2>2. PICK i \in DOMAIN csInbox' : csInbox'[i] = l
    BY <1>6, <1>8
  <2>3. csInbox[i + 1] = l /\ i + 1 \in DOMAIN csInbox /\ 1 < i + 1
    BY <1>1, <2>2
  <2> QED
    BY <1>1, <1>2, <1>8, <2>1, <2>3 DEF InboxWell
<1> QED
  BY <1>1, <1>4, <1>5, <1>6, <1>7, <1>8 DEF InboxWell

\* The inbox with one more: a request for a number comes with a new, later key.
LEMMA InboxAppend ==
    ASSUME CsIInv, NEW k \in CsCalls, csInbox' = Append(csInbox, k),
           csCall[k].pc \notin {"num", "cert"}, csCall'[k].pc \in {"num", "cert"},
           csCall'[k].pc = "num" => \A l \in CsCalls : csCall[l].pc = "num" => csCall[l].key < csCall'[k].key,
           \A l \in CsCalls : l # k => csCall'[l] = csCall[l]
    PROVE  csInbox' \in Seq(CsCalls) /\ InboxWell'
<1> DEFINE n == Len(csInbox) + 1
<1>1. /\ csInbox \in Seq(CsCalls) /\ csInbox' \in Seq(CsCalls) /\ n \in Nat
      /\ DOMAIN csInbox = 1 .. (n - 1) /\ DOMAIN csInbox' = 1 .. n
      /\ \A i \in DOMAIN csInbox : i < n /\ csInbox'[i] = csInbox[i] /\ csInbox[i] \in CsCalls
      /\ csInbox'[n] = k
      /\ \A i \in DOMAIN csInbox' : i \in DOMAIN csInbox \/ i = n
  <2>1. csInbox \in Seq(CsCalls)
    BY DEF CsIInv, CsTypeOK
  <2> QED
    BY <2>1
<1> HIDE DEF n
<1>2. InboxWell
  BY DEF CsIInv
<1>3. \A i \in DOMAIN csInbox : csInbox[i] # k /\ csCall'[csInbox[i]] = csCall[csInbox[i]]
  BY <1>1, <1>2 DEF InboxWell
<1>4. \A i \in DOMAIN csInbox' : csCall'[csInbox'[i]].pc \in {"num", "cert"}
  BY <1>1, <1>2, <1>3 DEF InboxWell
<1>5. ASSUME NEW i \in DOMAIN csInbox', NEW j \in DOMAIN csInbox', csInbox'[i] = csInbox'[j] PROVE i = j
  BY <1>1, <1>2, <1>3, <1>5 DEF InboxWell
<1>6. ASSUME NEW l \in CsCalls, csCall'[l].pc = "num" PROVE \E i \in DOMAIN csInbox' : csInbox'[i] = l
  <2>1. CASE l = k
    BY <1>1, <2>1
  <2>2. CASE l # k
    <3>1. PICK i \in DOMAIN csInbox : csInbox[i] = l
      BY <1>2, <1>6, <2>2 DEF InboxWell
    <3>2. i \in DOMAIN csInbox'
      BY <1>1, <3>1
    <3> QED
      BY <1>1, <3>1, <3>2
  <2> QED
    BY <2>1, <2>2
<1>7. ASSUME NEW i \in DOMAIN csInbox', NEW j \in DOMAIN csInbox', i < j,
             csCall'[csInbox'[i]].pc = "num", csCall'[csInbox'[j]].pc = "num"
      PROVE  csCall'[csInbox'[i]].key < csCall'[csInbox'[j]].key
  <2>1. i \in DOMAIN csInbox
    BY <1>1, <1>7
  <2>2. CASE j \in DOMAIN csInbox
    BY <1>1, <1>2, <1>3, <1>7, <2>1, <2>2 DEF InboxWell
  <2>3. CASE j = n
    BY <1>1, <1>3, <1>7, <2>1, <2>3
  <2> QED
    BY <1>1, <2>2, <2>3
<1> QED
  BY <1>1, <1>4, <1>5, <1>6, <1>7 DEF InboxWell

\* A send that got its number, or its certificate, makes its next request.
LEMMA NumberedKept ==
    ASSUME CsIInv, NEW k \in CsCalls, Numbered(k)
    PROVE  CsIInv'
<1>0. /\ csCall[k].pc = "numbered" /\ csCall' = [csCall EXCEPT ![k].pc = "cert"]
      /\ csInbox' = Append(csInbox, k)
      /\ csNum' = csNum /\ csNonce' = csNonce /\ csExpiry' = csExpiry /\ csCert' = csCert
      /\ csList' = csList /\ gwNonce' = gwNonce /\ gwReply' = gwReply
      /\ csReordered' = csReordered /\ csDeleted' = csDeleted /\ gwHanded' = gwHanded
      /\ gwDisordered' = gwDisordered
  BY DEF Numbered, Queues, gwState, csHistory
<1>1. /\ csCall' \in [CsCalls -> SendRecords]
      /\ csCall'[k].pc = "cert" /\ csCall'[k].client = csCall[k].client
      /\ csCall'[k].key = csCall[k].key /\ csCall'[k].num = csCall[k].num
      /\ \A l \in CsCalls : l # k => csCall'[l] = csCall[l]
  BY <1>0, SendType DEF CsIInv, CsTypeOK
<1>2. /\ InFlight' = InFlight /\ CallsWell'
  BY <1>0, <1>1, Advances DEF HasKey
<1>3. csInbox' \in Seq(CsCalls) /\ InboxWell'
  BY <1>0, <1>1, InboxAppend
<1>4. CsTypeOK'
  BY <1>0, <1>1, <1>3 DEF CsIInv, CsTypeOK
<1>5. NumberedMessages' = NumberedMessages
  BY <1>0, <1>1 DEF NumberedMessages, HasNum, MessageOf
<1>6. \A l \in CsCalls : csCall'[l].pc \in {"num", "certified"} => csCall'[l] = csCall[l]
  BY <1>1
<1>7. NumbersWell'
  BY <1>0, <1>5, <1>6 DEF CsIInv, NumbersWell
<1>8. (ListWell => ListWell') /\ (GatewayWell => GatewayWell') /\ PolledOnce'
  BY <1>0, <1>2, <1>6 DEF CsIInv, ListWell, GatewayWell, Given, PolledOnce
<1> QED
  BY <1>0, <1>2, <1>3, <1>4, <1>7, <1>8 DEF CsIInv

LEMMA PutCertForMessageKept ==
    ASSUME CsIInv, PutCertForMessage
    PROVE  CsIInv'
<1>0. PICK k \in CsCalls : k = Head(csInbox)
  <2>1. csInbox \in Seq(CsCalls) /\ csInbox # <<>>
    BY DEF CsIInv, CsTypeOK, PutCertForMessage
  <2> QED
    BY <2>1, HeadTailProperties
<1>1. /\ csInbox # <<>> /\ csCall[k].pc = "cert" /\ csCall' = [csCall EXCEPT ![k].pc = "certified"]
      /\ csInbox' = Tail(csInbox) /\ csCert' = csCert \cup {csCall[k].key}
      /\ csNum' = csNum /\ csNonce' = csNonce /\ csExpiry' = csExpiry
      /\ csList' = csList /\ gwNonce' = gwNonce /\ gwReply' = gwReply
      /\ csReordered' = csReordered /\ csDeleted' = csDeleted /\ gwHanded' = gwHanded
      /\ gwDisordered' = gwDisordered
  BY <1>0 DEF PutCertForMessage, gwState, csHistory
<1>2. /\ csCall' \in [CsCalls -> SendRecords]
      /\ csCall'[k].pc = "certified" /\ csCall'[k].client = csCall[k].client
      /\ csCall'[k].key = csCall[k].key /\ csCall'[k].num = csCall[k].num
      /\ \A l \in CsCalls : l # k => csCall'[l] = csCall[l]
  BY <1>1, SendType DEF CsIInv, CsTypeOK
<1>3. InFlight' = InFlight /\ CallsWell'
  BY <1>1, <1>2, Advances DEF HasKey
<1>4. csInbox' \in Seq(CsCalls) /\ InboxWell'
  BY <1>0, <1>1, <1>2, InboxTail
<1>5. CsTypeOK'
  BY <1>1, <1>2, <1>4 DEF CsIInv, CsTypeOK
<1>6. NumberedMessages' = NumberedMessages
  BY <1>1, <1>2 DEF NumberedMessages, HasNum, MessageOf
<1>7. \A l \in CsCalls : csCall'[l].pc = "num" => csCall'[l] = csCall[l]
  BY <1>2
<1>8. NumbersWell'
  BY <1>1, <1>6, <1>7 DEF CsIInv, NumbersWell
<1>9. ListWell => ListWell'
  BY <1>1, <1>2, <1>3 DEF ListWell
<1>10. (GatewayWell => GatewayWell') /\ PolledOnce'
  BY <1>1 DEF CsIInv, GatewayWell, Given, PolledOnce
<1> QED
  BY <1>1, <1>3, <1>4, <1>5, <1>8, <1>9, <1>10 DEF CsIInv

\* The request for a number that runs has the least key of those that wait,
\* above every number's: the number given is its client's greatest.
LEMMA NextClientMessageNumKept ==
    ASSUME CsIInv, NextClientMessageNum
    PROVE  CsIInv'
<1>0. PICK k \in CsCalls : k = Head(csInbox)
  <2>1. csInbox \in Seq(CsCalls) /\ csInbox # <<>>
    BY DEF CsIInv, CsTypeOK, NextClientMessageNum
  <2> QED
    BY <2>1, HeadTailProperties
<1>1. PICK c \in CsClients : c = csCall[k].client
  BY <1>0 DEF NextClientMessageNum, CsIInv, CallsWell
<1>2. /\ csInbox # <<>> /\ csCall[k].pc = "num" /\ csInbox' = Tail(csInbox)
      /\ csNum' = [csNum EXCEPT ![c] = @ + 1]
      /\ csCall' = [csCall EXCEPT ![k] = [@ EXCEPT !.pc = "numbered", !.num = csNum'[c]]]
      /\ csNonce' = csNonce /\ csExpiry' = csExpiry /\ csCert' = csCert
      /\ csList' = csList /\ gwNonce' = gwNonce /\ gwReply' = gwReply
      /\ csReordered' = csReordered /\ csDeleted' = csDeleted /\ gwHanded' = gwHanded
      /\ gwDisordered' = gwDisordered
  BY <1>0, <1>1 DEF NextClientMessageNum, Counted, gwState, csHistory
<1>3. /\ csNum' \in [CsClients -> Nat] /\ csNum'[c] = csNum[c] + 1 /\ csNum[c] \in Nat
      /\ \A d \in CsClients : csNum[d] <= csNum'[d]
  BY <1>2 DEF CsIInv, CsTypeOK
<1>4. /\ csCall' \in [CsCalls -> SendRecords]
      /\ csCall'[k].pc = "numbered" /\ csCall'[k].client = csCall[k].client
      /\ csCall'[k].key = csCall[k].key /\ csCall'[k].num = csNum'[c]
      /\ \A l \in CsCalls : l # k => csCall'[l] = csCall[l]
  <2>1. \A r \in SendRecords, n \in Nat :
           LET u == [[r EXCEPT !.pc = "numbered"] EXCEPT !.num = n]
           IN  /\ u \in SendRecords /\ u.pc = "numbered" /\ u.num = n
               /\ u.client = r.client /\ u.key = r.key
    BY DEF SendRecords
  <2>2. csCall' = [csCall EXCEPT ![k] = [[csCall[k] EXCEPT !.pc = "numbered"] EXCEPT !.num = csNum'[c]]]
    <3>1. csCall' = [csCall EXCEPT ![k] = [@ EXCEPT !.pc = "numbered", !.num = csNum'[c]]]
      BY <1>2
    <3> QED
      BY <3>1
  <2>3. csCall \in [CsCalls -> SendRecords] /\ csNum'[c] \in Nat
    BY <1>3 DEF CsIInv, CsTypeOK
  <2> QED
    BY <2>1, <2>2, <2>3, ZenonT(40)
<1>5. InFlight' = InFlight /\ CallsWell'
  BY <1>2, <1>4, Advances DEF HasKey
<1>6. /\ csInbox' \in Seq(CsCalls) /\ InboxWell'
      /\ \A l \in CsCalls : csCall'[l].pc = "num" => csCall[k].key < csCall[l].key
  BY <1>0, <1>2, <1>4, InboxTail
<1>7. CsTypeOK'
  BY <1>2, <1>3, <1>4, <1>6 DEF CsIInv, CsTypeOK
<1> DEFINE new == [key |-> csCall[k].key, client |-> c, num |-> csNum'[c]]
<1>8. NumberedMessages' = NumberedMessages \cup {new}
  <2>1. HasNum(k)' /\ ~HasNum(k) /\ MessageOf(k)' = new
    BY <1>1, <1>2, <1>4 DEF HasNum, MessageOf
  <2>2. \A l \in CsCalls : l # k => (HasNum(l)' <=> HasNum(l)) /\ MessageOf(l)' = MessageOf(l)
    BY <1>4 DEF HasNum, MessageOf
  <2> QED
    BY <1>2, <2>1, <2>2 DEF NumberedMessages
<1>9. /\ new.key = csCall[k].key /\ new.client = c /\ new.num = csNum[c] + 1
      /\ \A m \in NumberedMessages : m.key < new.key
      /\ new.key \in Nat /\ new.key <= csNonce
  <2>1. \A m \in NumberedMessages : m.key < csCall[k].key
    BY <1>2 DEF CsIInv, NumbersWell
  <2>2. csCall[k].key \in csExpiry /\ csCall[k].key \in Nat
    BY <1>2 DEF CsIInv, CallsWell, HasKey, CsTypeOK, SendRecords
  <2> QED
    BY <1>3, <2>1, <2>2 DEF CsIInv, CsTypeOK
<1> HIDE DEF new
<1>10. \A m \in NumberedMessages : m.key \in Nat /\ m.num \in Nat /\ m.client \in CsClients
  BY NumberedType DEF CsIInv, ListedMessages
<1>11. NumbersWell'
  <2>1. \A m \in NumberedMessages' : m.key <= csNonce'
    BY <1>2, <1>8, <1>9 DEF CsIInv, NumbersWell
  <2>2. \A m \in NumberedMessages', l \in CsCalls : csCall'[l].pc = "num" => m.key < csCall'[l].key
    <3> SUFFICES ASSUME NEW m \in NumberedMessages', NEW l \in CsCalls, csCall'[l].pc = "num"
                 PROVE  m.key < csCall'[l].key
      OBVIOUS
    <3>1. csCall'[l] = csCall[l] /\ csCall[k].key < csCall[l].key
      BY <1>4, <1>6
    <3> QED
      BY <1>8, <1>9, <3>1 DEF CsIInv, NumbersWell
  <2>3. \A m \in NumberedMessages' : m.client \notin csDeleted' => m.num <= csNum'[m.client]
    <3> SUFFICES ASSUME NEW m \in NumberedMessages', m.client \notin csDeleted
                 PROVE  m.num <= csNum'[m.client]
      BY <1>2
    <3>1. CASE m = new
      BY <1>3, <1>9, <3>1
    <3>2. CASE m \in NumberedMessages
      <4>1. m.num <= csNum[m.client]
        BY <3>2 DEF CsIInv, NumbersWell
      <4>2. csNum[m.client] \in Nat /\ csNum'[m.client] \in Nat /\ csNum[m.client] <= csNum'[m.client]
        BY <1>3, <1>10, <3>2 DEF CsIInv, CsTypeOK
      <4> QED
        BY <1>10, <3>2, <4>1, <4>2
    <3> QED
      BY <1>8, <3>1, <3>2
  <2>4. \A m, n \in NumberedMessages' :
          m.client = n.client /\ m.client \notin csDeleted' /\ m.key < n.key => m.num < n.num
    <3> SUFFICES ASSUME NEW m \in NumberedMessages', NEW n \in NumberedMessages',
                        m.client = n.client, m.client \notin csDeleted, m.key < n.key
                 PROVE  m.num < n.num
      BY <1>2
    <3>1. CASE m = new
      <4>1. n # new
        BY <1>9, <3>1
      <4>2. n \in NumberedMessages /\ n.key < new.key
        BY <1>8, <1>9, <4>1
      <4> QED
        BY <1>9, <1>10, <3>1, <4>2
    <3>2. CASE m \in NumberedMessages /\ n = new
      <4>1. m.num <= csNum[c]
        BY <1>9, <3>2 DEF CsIInv, NumbersWell
      <4> QED
        BY <1>3, <1>9, <1>10, <3>2, <4>1
    <3>3. CASE m \in NumberedMessages /\ n \in NumberedMessages
      BY <3>3 DEF CsIInv, NumbersWell
    <3> QED
      BY <1>8, <3>1, <3>2, <3>3
  <2> QED
    BY <2>1, <2>2, <2>3, <2>4 DEF NumbersWell
<1>12. ListWell => ListWell'
  BY <1>2, <1>4, <1>5 DEF ListWell
<1>13. (GatewayWell => GatewayWell') /\ PolledOnce'
  BY <1>2 DEF CsIInv, GatewayWell, Given, PolledOnce
<1> QED
  BY <1>2, <1>5, <1>6, <1>7, <1>11, <1>12, <1>13 DEF CsIInv


\* A send takes the next key, and expired entries go.
LEMMA KeyedKept ==
    ASSUME CsIInv, NEW k \in CsCalls, Keyed(k)
    PROVE  CsIInv'
<1>1. CASE csCall[k].client \notin csGateway
  <2>1. /\ csCall' = [csCall EXCEPT ![k] = NoSend] /\ csCall[k].pc = "gateway"
        /\ UNCHANGED <<csNum, csNonce, csExpiry, csCert, csList, csInbox, gwNonce, gwReply, csHistory>>
    BY <1>1 DEF Keyed, gwState
  <2>2. csCall' \in [CsCalls -> SendRecords]
    BY <2>1, SendType DEF CsIInv, CsTypeOK
  <2>3. csCall'[k] = NoSend /\ \A l \in CsCalls : l # k => csCall'[l] = csCall[l]
    BY <2>1 DEF CsIInv, CsTypeOK
  <2> QED
    BY <2>1, <2>2, <2>3, SendType, QuietCalls
<1>2. CASE csCall[k].client \in csGateway
  <2>1. PICK x \in Expirable :
          /\ csExpiry' = (csExpiry \ x) \cup {csNonce'}
          /\ csList' = Remaining(x)
          /\ csCert' = Uncertified(x)
    BY <1>2 DEF Keyed
  <2>2. /\ csNonce' = csNonce + 1 /\ csNonce \in Nat
        /\ csCert' = csCert \ x /\ csInbox' = Append(csInbox, k)
        /\ csCall[k].pc = "gateway"
        /\ csCall' = [csCall EXCEPT ![k] = [@ EXCEPT !.pc = "num", !.key = csNonce']]
        /\ csNum' = csNum /\ gwNonce' = gwNonce /\ gwReply' = gwReply
        /\ csReordered' = csReordered /\ csDeleted' = csDeleted /\ gwHanded' = gwHanded
        /\ gwDisordered' = gwDisordered
    BY <1>2, <2>1 DEF Keyed, Queues, Uncertified, gwState, csHistory, CsIInv, CsTypeOK
  <2> DEFINE n == csNonce + 1
  <2>3. /\ csCall' \in [CsCalls -> SendRecords]
        /\ csCall'[k].pc = "num" /\ csCall'[k].client = csCall[k].client
        /\ csCall'[k].key = n
        /\ \A l \in CsCalls : l # k => csCall'[l] = csCall[l]
    <3>1. \A r \in SendRecords, m \in Nat :
             LET u == [[r EXCEPT !.pc = "num"] EXCEPT !.key = m]
             IN  /\ u \in SendRecords /\ u.pc = "num" /\ u.key = m /\ u.client = r.client
      BY DEF SendRecords
    <3>2. csCall' = [csCall EXCEPT ![k] = [[csCall[k] EXCEPT !.pc = "num"] EXCEPT !.key = n]]
      <4>1. csCall' = [csCall EXCEPT ![k] = [@ EXCEPT !.pc = "num", !.key = n]]
        BY <2>2
      <4> QED
        BY <4>1
    <3>3. csCall \in [CsCalls -> SendRecords] /\ n \in Nat
      BY <2>2 DEF CsIInv, CsTypeOK
    <3> QED
      BY <3>1, <3>2, <3>3
  <2>4. /\ csExpiry \subseteq 1 .. csNonce /\ x \subseteq csExpiry
        /\ csExpiry' = (csExpiry \ x) \cup {n} /\ n \notin csExpiry /\ n \notin x
        /\ \A m \in x : \A e \in csExpiry \ x : m < e
        /\ \A l \in CsCalls : csCall[l].key \notin x
    BY <2>1, <2>2 DEF CsIInv, CsTypeOK, Expirable
  <2>5. /\ csList' \in Seq(ListedMessages)
        /\ \A i \in DOMAIN csList' : \E j \in DOMAIN csList : csList'[i] = csList[j]
        /\ ListWell => /\ Keys(csList') = Keys(csList) \ x
                       /\ \A i, j \in DOMAIN csList' : i < j => csList'[i].key < csList'[j].key
    BY <2>1, RemainingWell DEF CsIInv
  <2>6. \A l \in CsCalls : HasKey(l)' <=> HasKey(l) \/ l = k
    BY <2>3 DEF HasKey
  <2>7. ~HasKey(k) /\ \A l \in CsCalls : HasKey(l) => csCall'[l] = csCall[l] /\ csCall[l].key \in csExpiry \ x
    BY <2>2, <2>3, <2>4 DEF HasKey, CsIInv, CallsWell
  <2>8. InFlight' = InFlight \cup {n}
    BY <2>3, <2>6, <2>7 DEF InFlight
  <2>9. CallsWell'
    <3>1. csCall[k].client \in CsClients
      BY <2>2 DEF CsIInv, CallsWell
    <3>2. \A l \in CsCalls : csCall'[l].pc = "none" => csCall'[l] = NoSend
      BY <2>3 DEF CsIInv, CallsWell
    <3>3. \A l \in CsCalls : csCall'[l].pc # "none" => csCall'[l].client \in CsClients
      BY <2>3, <3>1 DEF CsIInv, CallsWell
    <3>4. \A l \in CsCalls : HasKey(l)' => csCall'[l].key \in csExpiry'
      BY <2>3, <2>4, <2>6, <2>7
    <3>5. \A l, j \in CsCalls : HasKey(l)' /\ HasKey(j)' /\ csCall'[l].key = csCall'[j].key => l = j
      BY <2>3, <2>4, <2>6, <2>7 DEF CsIInv, CallsWell
    <3> QED
      BY <3>2, <3>3, <3>4, <3>5 DEF CallsWell
  <2>10. csInbox' \in Seq(CsCalls) /\ InboxWell'
    <3>1. \A l \in CsCalls : csCall[l].pc = "num" => csCall[l].key < n
      <4>1. \A l \in CsCalls : csCall[l].pc = "num" => csCall[l].key \in 1 .. csNonce
        BY <2>4, <2>7 DEF HasKey
      <4> QED
        BY <2>2, <4>1
    <3> QED
      BY <2>2, <2>3, <3>1, InboxAppend
  <2>11. CsTypeOK'
    <3>1. csExpiry' \subseteq 1 .. csNonce'
      BY <2>2, <2>4
    <3> QED
      BY <2>2, <2>3, <2>5, <2>10, <3>1 DEF CsIInv, CsTypeOK
  <2>12. NumberedMessages' \subseteq NumberedMessages
    <3>1. \A l \in CsCalls : HasNum(l)' => HasNum(l) /\ MessageOf(l)' = MessageOf(l)
      BY <2>3 DEF HasNum, MessageOf
    <3> QED
      BY <2>5, <3>1 DEF NumberedMessages
  <2>13. NumbersWell'
    <3>1. \A m \in NumberedMessages : m.key \in Nat /\ m.key <= csNonce
      BY NumberedType DEF CsIInv, NumbersWell, ListedMessages
    <3>2. \A m \in NumberedMessages' : m.key <= csNonce'
      BY <2>2, <2>12, <3>1
    <3>3. \A m \in NumberedMessages', l \in CsCalls : csCall'[l].pc = "num" => m.key < csCall'[l].key
      <4> SUFFICES ASSUME NEW m \in NumberedMessages, NEW l \in CsCalls, csCall'[l].pc = "num"
                   PROVE  m.key < csCall'[l].key
        BY <2>12
      <4>1. CASE l = k
        BY <2>2, <2>3, <3>1, <4>1
      <4>2. CASE l # k
        BY <2>3, <4>2 DEF CsIInv, NumbersWell
      <4> QED
        BY <4>1, <4>2
    <3> QED
      BY <2>2, <2>12, <3>2, <3>3 DEF CsIInv, NumbersWell
  <2>14. ASSUME ListWell, GatewayWell PROVE ListWell' /\ GatewayWell' /\ PolledOnce'
    <3>1. Keys(csList') = Keys(csList) \ x
      BY <2>5, <2>14
    <3>2. Keys(csList)' = Keys(csList')
      BY DEF Keys
    <3>3. /\ csExpiry = Keys(csList) \cup InFlight /\ Keys(csList) \cap InFlight = {}
          /\ Keys(csList) \subseteq csCert
      BY <2>14 DEF ListWell
    <3>4. InFlight \cap x = {}
      BY <2>4 DEF InFlight
    <3>5. csExpiry' = Keys(csList') \cup InFlight'
      BY <2>4, <2>8, <3>1, <3>3, <3>4
    <3>6. Keys(csList') \cap InFlight' = {}
      BY <2>4, <2>8, <3>1, <3>3
    <3>7. Keys(csList') \subseteq csCert'
      BY <2>2, <3>1, <3>3
    <3>8. \A l \in CsCalls : csCall'[l].pc = "certified" => csCall'[l].key \in csCert'
      BY <2>2, <2>3, <2>4, <2>14 DEF ListWell
    <3>9. ListWell'
      BY <2>5, <2>14, <3>2, <3>5, <3>6, <3>7, <3>8 DEF ListWell
    <3>10. Given' = Given
      BY <2>2 DEF Given, Keys
    <3>11. \A m \in Given : m <= csNonce /\ (m \in Keys(csList) \/ \A e \in csExpiry : m < e)
      BY <2>14 DEF GatewayWell
    <3>12. \A m \in Given : m \in Nat
      BY KeysType DEF CsIInv
    <3>13. \A m \in Given' : m <= csNonce' /\ (m \in Keys(csList)' \/ \A e \in csExpiry' : m < e)
      <4> SUFFICES ASSUME NEW m \in Given
                   PROVE  m <= csNonce' /\ (m \in Keys(csList') \/ \A e \in csExpiry' : m < e)
        BY <3>2, <3>10
      <4>1. m <= csNonce' /\ m < n
        BY <2>2, <3>11, <3>12
      <4>2. CASE m \in Keys(csList) /\ m \notin x
        BY <3>1, <4>1, <4>2
      <4>3. CASE m \in x
        BY <2>4, <4>1, <4>3
      <4>4. CASE \A e \in csExpiry : m < e
        BY <2>4, <4>1, <4>4
      <4> QED
        BY <3>11, <4>1, <4>2, <4>3, <4>4
    <3>14. GatewayWell'
      <4>1. gwHanded' = gwHanded /\ gwNonce' = gwNonce /\ gwReply' = gwReply
        BY <2>2
      <4>2. \A m \in Keys(csList)' : m \in Keys(csList)
        BY <3>1, <3>2
      <4>3. Keys(gwReply)' = Keys(gwReply)
        BY <4>1 DEF Keys
      <4> QED
        BY <2>14, <3>13, <4>1, <4>2, <4>3 DEF GatewayWell
    <3>15. PolledOnce'
      BY <2>2, <3>1, <3>2 DEF CsIInv, PolledOnce
    <3> QED
      BY <3>9, <3>14, <3>15
  <2>15. csReordered => PolledOnce'
    BY <2>2 DEF PolledOnce
  <2> QED
    BY <2>2, <2>9, <2>10, <2>11, <2>13, <2>14, <2>15 DEF CsIInv
<1> QED
  BY <1>1, <1>2


\* A certified message joins the list.
LEMMA CertifiedKept ==
    ASSUME CsIInv, NEW k \in CsCalls, Certified(k)
    PROVE  CsIInv'
<1>1. /\ csCall[k].pc = "certified" /\ csCall' = [csCall EXCEPT ![k] = NoSend]
      /\ csList' = Append(csList, MessageOf(k))
      /\ csReordered' = (csReordered \/ \E n \in Keys(csList) : n > csCall[k].key)
      /\ csNum' = csNum /\ csNonce' = csNonce /\ csExpiry' = csExpiry /\ csCert' = csCert
      /\ csInbox' = csInbox /\ gwNonce' = gwNonce /\ gwReply' = gwReply
      /\ csDeleted' = csDeleted /\ gwHanded' = gwHanded /\ gwDisordered' = gwDisordered
  BY DEF Certified, MessageOf, gwState
<1>2. /\ csCall' \in [CsCalls -> SendRecords]
      /\ csCall'[k] = NoSend /\ csCall'[k].pc = "none"
      /\ \A l \in CsCalls : l # k => csCall'[l] = csCall[l]
  BY <1>1, SendType DEF CsIInv, CsTypeOK
<1> DEFINE n == csCall[k].key
           e == Len(csList) + 1
<1>3. MessageOf(k) \in ListedMessages /\ MessageOf(k) \in NumberedMessages
      /\ MessageOf(k).key = n
  BY <1>1, NumberedType DEF CsIInv, NumberedMessages, HasNum, MessageOf
<1>4. /\ csList' \in Seq(ListedMessages) /\ e \in Nat
      /\ DOMAIN csList = 1 .. (e - 1) /\ DOMAIN csList' = 1 .. e
      /\ \A i \in DOMAIN csList : i < e /\ csList'[i] = csList[i]
      /\ csList'[e] = MessageOf(k) /\ e \in DOMAIN csList'
      /\ \A i \in DOMAIN csList' : i \in DOMAIN csList \/ i = e
  <2>1. csList \in Seq(ListedMessages)
    BY DEF CsIInv, CsTypeOK
  <2> QED
    BY <1>1, <1>3, <2>1
<1> HIDE DEF e
<1>5. Keys(csList)' = Keys(csList) \cup {n}
  <2>1. \A i \in DOMAIN csList : i \in DOMAIN csList'
    BY <1>4
  <2>2. e \in DOMAIN csList'
    BY <1>4
  <2> QED
    BY <1>3, <1>4, <2>1, <2>2 DEF Keys
<1>6. \A l \in CsCalls : HasKey(l)' <=> HasKey(l) /\ l # k
  BY <1>2 DEF HasKey
<1>7. InFlight' = InFlight \ {n}
  <2>1. HasKey(k)
    BY <1>1 DEF HasKey
  <2>2. \A l \in CsCalls : HasKey(l) /\ l # k => csCall[l].key # n
    BY <2>1 DEF CsIInv, CallsWell
  <2> QED
    BY <1>2, <1>6, <2>1, <2>2 DEF InFlight
<1>8. CsTypeOK'
  BY <1>1, <1>2, <1>4 DEF CsIInv, CsTypeOK
<1>9. CallsWell'
  <2>1. \A l \in CsCalls : csCall'[l].pc = "none" => csCall'[l] = NoSend
    BY <1>2 DEF CsIInv, CallsWell
  <2>2. \A l \in CsCalls : csCall'[l].pc # "none" => csCall'[l].client \in CsClients
    BY <1>2 DEF CsIInv, CallsWell
  <2>3. \A l \in CsCalls : HasKey(l)' => csCall'[l].key \in csExpiry'
    BY <1>1, <1>2, <1>6 DEF CsIInv, CallsWell
  <2>4. \A l, j \in CsCalls : HasKey(l)' /\ HasKey(j)' /\ csCall'[l].key = csCall'[j].key => l = j
    <3>1. \A l, j \in CsCalls : HasKey(l) /\ HasKey(j) /\ csCall[l].key = csCall[j].key => l = j
      BY DEF CsIInv, CallsWell
    <3>2. \A l \in CsCalls : HasKey(l)' => HasKey(l) /\ csCall'[l].key = csCall[l].key
      BY <1>2, <1>6
    <3> QED
      BY <3>1, <3>2
  <2> QED
    BY <2>1, <2>2, <2>3, <2>4 DEF CallsWell
<1>10. InboxWell'
  <2>1. \A i \in DOMAIN csInbox : csInbox[i] \in CsCalls /\ csInbox[i] # k
    BY <1>1 DEF CsIInv, CsTypeOK, InboxWell
  <2>2. \A i \in DOMAIN csInbox : csCall'[csInbox[i]] = csCall[csInbox[i]]
    BY <1>2, <2>1
  <2> QED
    BY <1>1, <1>2, <2>2 DEF CsIInv, InboxWell
<1>11. NumberedMessages' \subseteq NumberedMessages
  <2>1. \A l \in CsCalls : HasNum(l)' => HasNum(l) /\ MessageOf(l)' = MessageOf(l)
    BY <1>2 DEF HasNum, MessageOf
  <2>2. \A i \in DOMAIN csList' : csList'[i] \in NumberedMessages
    BY <1>3, <1>4 DEF NumberedMessages
  <2> QED
    BY <2>1, <2>2 DEF NumberedMessages
<1>12. NumbersWell'
  <2>1. \A l \in CsCalls : csCall'[l].pc = "num" => csCall'[l] = csCall[l]
    BY <1>2
  <2> QED
    BY <1>1, <1>11, <2>1 DEF CsIInv, NumbersWell
<1>13. ASSUME ~csReordered' PROVE ListWell' /\ GatewayWell' /\ PolledOnce'
  <2>1. ListWell /\ GatewayWell /\ ~csReordered
    BY <1>1, <1>13 DEF CsIInv
  <2>2. HasKey(k) /\ n \in InFlight /\ n \in csExpiry /\ n \in Nat
    BY <1>1, KeysType DEF CsIInv, CallsWell, HasKey, InFlight
  <2>3. n \notin Keys(csList)
    BY <2>1, <2>2 DEF ListWell
  <2>4. \A m \in Keys(csList) : m < n /\ m \in Nat
    <3>1. \A m \in Keys(csList) : m \in Nat /\ m # n /\ ~(m > n)
      BY <1>1, <1>13, <2>3, KeysType DEF CsIInv, Keys
    <3> QED
      BY <2>2, <3>1
  <2>5. \A i, j \in DOMAIN csList' : i < j => csList'[i].key < csList'[j].key
    <3> SUFFICES ASSUME NEW i \in DOMAIN csList', NEW j \in DOMAIN csList', i < j
                 PROVE  csList'[i].key < csList'[j].key
      OBVIOUS
    <3>1. i \in DOMAIN csList /\ csList'[i] = csList[i] /\ csList[i].key \in Keys(csList)
      BY <1>4 DEF Keys
    <3>2. CASE j \in DOMAIN csList
      BY <1>4, <2>1, <3>1, <3>2 DEF ListWell
    <3>3. CASE j = e
      BY <1>3, <1>4, <2>4, <3>1, <3>3
    <3> QED
      BY <1>4, <3>2, <3>3
  <2>6. /\ csExpiry = Keys(csList) \cup InFlight /\ Keys(csList) \cap InFlight = {}
        /\ Keys(csList) \subseteq csCert /\ n \in csCert
        /\ \A l \in CsCalls : csCall[l].pc = "certified" => csCall[l].key \in csCert
    BY <1>1, <2>1 DEF ListWell
  <2>7. ListWell'
    <3>1. csExpiry' = Keys(csList)' \cup InFlight' /\ Keys(csList)' \cap InFlight' = {}
          /\ Keys(csList)' \subseteq csCert'
      BY <1>1, <1>5, <1>7, <2>2, <2>6
    <3>2. \A l \in CsCalls : csCall'[l].pc = "certified" => csCall'[l].key \in csCert'
      BY <1>1, <1>2, <2>6
    <3> QED
      BY <2>5, <3>1, <3>2 DEF ListWell
  <2>8. \A m \in Given : m \in Nat /\ m < n
    <3> SUFFICES ASSUME NEW m \in Given PROVE m \in Nat /\ m < n
      OBVIOUS
    <3>1. m \in Keys(csList) \/ \A x \in csExpiry : m < x
      BY <2>1 DEF GatewayWell
    <3> QED
      BY <2>2, <2>4, <3>1, KeysType DEF CsIInv
  <2>9. GatewayWell'
    <3>1. Given' = Given /\ Keys(gwReply)' = Keys(gwReply)
      BY <1>1 DEF Given, Keys
    <3>2. \A m \in Given' : m <= csNonce' /\ (m \in Keys(csList)' \/ \A x \in csExpiry' : m < x)
      BY <1>1, <1>5, <2>1, <3>1 DEF GatewayWell
    <3>3. \A m \in Keys(csList)', r \in Keys(gwReply)' :
             gwNonce' <= m /\ m <= r => m \in Keys(gwReply)'
      <4> SUFFICES ASSUME NEW m \in Keys(csList)', NEW r \in Keys(gwReply), gwNonce <= m, m <= r
                   PROVE  m \in Keys(gwReply)
        BY <1>1, <3>1
      <4>1. r \in Nat /\ r < n
        BY <2>8 DEF Given
      <4>2. m \in Keys(csList)
        BY <1>5, <2>2, <4>1
      <4> QED
        BY <2>1, <4>2 DEF GatewayWell
    <3> QED
      BY <1>1, <2>1, <3>2, <3>3 DEF GatewayWell
  <2>10. n >= gwNonce
    <3>1. CASE gwNonce = 0
      BY <2>2, <3>1
    <3>2. CASE gwNonce - 1 \in gwHanded
      <4>1. gwNonce - 1 < n
        BY <2>8, <3>2 DEF Given
      <4> QED
        BY <2>2, <4>1 DEF CsIInv, CsTypeOK
    <3> QED
      BY <2>1, <3>1, <3>2 DEF GatewayWell
  <2>11. PolledOnce'
    BY <1>1, <1>5, <2>1, <2>10 DEF CsIInv, PolledOnce
  <2> QED
    BY <2>7, <2>9, <2>11
<1>14. csReordered' \in BOOLEAN /\ (csReordered' => PolledOnce')
  BY <1>1 DEF PolledOnce
<1> QED
  BY <1>8, <1>9, <1>10, <1>12, <1>13, <1>14 DEF CsIInv

\* The gateway's steps touch nothing of the canister.
LEMMA CanisterUntouched ==
    ASSUME CsIInv, csState' = csState, csReordered' = csReordered, csDeleted' = csDeleted,
           gwNonce' \in Nat, gwReply' \in Seq(ListedMessages), gwHanded' \subseteq Nat,
           gwDisordered' \in BOOLEAN
    PROVE  /\ CsTypeOK' /\ CallsWell' /\ InboxWell' /\ NumbersWell'
           /\ ListWell => ListWell'
           /\ Keys(csList)' = Keys(csList) /\ csExpiry' = csExpiry /\ csNonce' = csNonce
<1>1. /\ csNum' = csNum /\ csNonce' = csNonce /\ csExpiry' = csExpiry /\ csCert' = csCert
      /\ csList' = csList /\ csCall' = csCall /\ csInbox' = csInbox
  BY DEF csState
<1>2. CsTypeOK'
  BY <1>1 DEF CsIInv, CsTypeOK
<1>3. CallsWell' /\ InboxWell'
  BY <1>1 DEF CsIInv, CallsWell, InboxWell, HasKey
<1>4. NumberedMessages' = NumberedMessages /\ InFlight' = InFlight /\ Keys(csList)' = Keys(csList)
  BY <1>1 DEF NumberedMessages, InFlight, Keys, HasNum, HasKey, MessageOf
<1>5. NumbersWell'
  BY <1>1, <1>4 DEF CsIInv, NumbersWell
<1>6. ListWell => ListWell'
  BY <1>1, <1>4 DEF ListWell
<1> QED
  BY <1>1, <1>2, <1>3, <1>4, <1>5, <1>6

LEMMA WsGetMessagesKept ==
    ASSUME CsIInv, WsGetMessages
    PROVE  CsIInv'
<1> DEFINE b == Before(gwNonce)
           e == Min({b + CsReturned, Len(csList)})
<1>1. /\ gwReply = <<>> /\ gwReply' = SubSeq(csList, b + 1, e)
      /\ csState' = csState /\ gwNonce' = gwNonce /\ gwHanded' = gwHanded
      /\ csReordered' = csReordered /\ csDeleted' = csDeleted /\ gwDisordered' = gwDisordered
  BY DEF WsGetMessages, csHistory
<1>2. csList \in Seq(ListedMessages) /\ Len(csList) \in Nat /\ CsReturned \in Nat /\ gwNonce \in Nat
      /\ DOMAIN csList = 1 .. Len(csList)
  BY CsAssumption DEF CsIInv, CsTypeOK
<1>3. b \in 0 .. Len(csList)
  <2> DEFINE I == {i \in DOMAIN csList : csList[i].key < gwNonce}
  <2>1. I \in SUBSET (1 .. Len(csList)) /\ IsFiniteSet(1 .. Len(csList))
        /\ Cardinality(1 .. Len(csList)) = Len(csList)
    BY <1>2, FS_Interval
  <2>2. b = Cardinality(I)
    BY DEF Before
  <2>3. Cardinality(I) \in Nat /\ Cardinality(I) <= Len(csList)
    <3> HIDE DEF I
    <3> QED
      BY <2>1, FS_Subset, FS_CardinalityType
  <2> HIDE DEF I, b
  <2> QED
    BY <1>2, <2>2, <2>3
<1>4. e \in b .. Len(csList)
  <2> HIDE DEF b
  <2>1. b + CsReturned \in Nat
    BY <1>2, <1>3
  <2>2. e = IF b + CsReturned <= Len(csList) THEN b + CsReturned ELSE Len(csList)
    BY <1>2, <2>1, LesserOfTwo
  <2> QED
    BY <1>2, <1>3, <2>2
<1> HIDE DEF e, b
<1>5. /\ gwReply' \in Seq(ListedMessages) /\ Len(gwReply') = e - b
      /\ \A i \in 1 .. (e - b) : gwReply'[i] = csList[i + b]
      /\ DOMAIN gwReply' = 1 .. (e - b)
      /\ \A i \in 1 .. (e - b) : i + b \in DOMAIN csList
  <2>1. /\ gwReply' \in Seq(ListedMessages) /\ Len(gwReply') = e - b
        /\ \A i \in 1 .. (e - b) : gwReply'[i] = csList[i + b]
    BY <1>1, <1>2, <1>3, <1>4, RestOfList
  <2> QED
    BY <1>2, <1>3, <1>4, <2>1
<1>6. /\ CsTypeOK' /\ CallsWell' /\ InboxWell' /\ NumbersWell'
      /\ ListWell => ListWell'
      /\ Keys(csList)' = Keys(csList) /\ csExpiry' = csExpiry /\ csNonce' = csNonce
  BY <1>1, <1>5, CanisterUntouched DEF CsIInv, CsTypeOK
<1>7. ASSUME ListWell, GatewayWell PROVE GatewayWell'
  <2>1. \A i, j \in DOMAIN csList : i < j => csList[i].key < csList[j].key
    BY <1>7 DEF ListWell
  <2>2. \A i \in DOMAIN csList : csList[i].key < gwNonce <=> i <= b
    BY <1>2, <2>1, BeforeIsPrefix DEF CsIInv, b
  <2>3. \A i \in DOMAIN csList : csList[i].key \in Nat /\ csList[i].key \in Keys(csList)
    BY KeysType DEF CsIInv, Keys
  <2>4. \A m \in Keys(csList) : m <= csNonce
    <3>1. \A i \in DOMAIN csList : csList[i] \in NumberedMessages
      BY DEF NumberedMessages
    <3> QED
      BY <3>1 DEF CsIInv, NumbersWell, Keys
  <2>5. Keys(gwReply)' \subseteq Keys(csList)
    BY <1>5, <2>3 DEF Keys
  <2>6. \A m \in Given' : m <= csNonce' /\ (m \in Keys(csList)' \/ \A x \in csExpiry' : m < x)
    <3>1. \A m \in Given' : m \in gwHanded \/ m \in Keys(csList)
      BY <1>1, <2>5 DEF Given
    <3> QED
      BY <1>6, <1>7, <2>4, <3>1 DEF GatewayWell, Given
  <2>7. \A i \in DOMAIN gwReply' : gwReply'[i].key >= gwNonce
    <3> SUFFICES ASSUME NEW i \in 1 .. (e - b) PROVE csList[i + b].key >= gwNonce
      BY <1>5
    <3>1. i + b \in DOMAIN csList /\ ~(i + b <= b)
      BY <1>3, <1>5
    <3> QED
      BY <1>2, <2>2, <2>3, <3>1
  <2>8. \A i, j \in DOMAIN gwReply' : i < j => gwReply'[i].key < gwReply'[j].key
    <3> SUFFICES ASSUME NEW i \in 1 .. (e - b), NEW j \in 1 .. (e - b), i < j
                 PROVE  csList[i + b].key < csList[j + b].key
      BY <1>5
    <3>1. i + b \in DOMAIN csList /\ j + b \in DOMAIN csList /\ i + b < j + b
      BY <1>3, <1>5
    <3> QED
      BY <2>1, <3>1
  <2>9. \A m \in Keys(csList), r \in Keys(gwReply)' : gwNonce <= m /\ m <= r => m \in Keys(gwReply)'
    <3> SUFFICES ASSUME NEW j \in DOMAIN csList, NEW i \in 1 .. (e - b),
                        gwNonce <= csList[j].key, csList[j].key <= csList[i + b].key
                 PROVE  csList[j].key \in Keys(gwReply)'
      BY <1>5 DEF Keys
    <3>1. ~(j <= b)
      BY <1>2, <2>2, <2>3
    <3>2. i + b \in DOMAIN csList /\ i + b <= e
      BY <1>3, <1>4, <1>5
    <3>3. ~(i + b < j)
      BY <2>1, <2>3, <3>2
    <3>4. j - b \in 1 .. (e - b) /\ (j - b) + b = j
      BY <1>2, <1>3, <1>4, <3>1, <3>2, <3>3
    <3>5. gwReply'[j - b] = csList[j] /\ j - b \in DOMAIN gwReply'
      BY <1>5, <3>4
    <3> QED
      BY <3>5 DEF Keys
  <2> QED
    BY <1>1, <1>6, <1>7, <2>6, <2>7, <2>8, <2>9 DEF GatewayWell
<1>8. PolledOnce'
  BY <1>1, <1>6 DEF CsIInv, PolledOnce
<1> QED
  BY <1>1, <1>6, <1>7, <1>8 DEF CsIInv

LEMMA HandsKept ==
    ASSUME CsIInv, Hands
    PROVE  CsIInv'
<1> DEFINE h == Head(gwReply).key
<1>1. /\ gwReply # <<>> /\ gwHanded' = gwHanded \cup {h}
      /\ gwDisordered' = (gwDisordered \/ \E n \in gwHanded : n >= h)
      /\ gwNonce' = h + 1 /\ gwReply' = Tail(gwReply)
      /\ csState' = csState /\ csReordered' = csReordered /\ csDeleted' = csDeleted
  BY DEF Hands, NextNonce
<1>2. /\ gwReply \in Seq(ListedMessages) /\ gwReply' \in Seq(ListedMessages) /\ Len(gwReply) \in Nat
      /\ 1 \in DOMAIN gwReply /\ gwReply[1].key = h
      /\ DOMAIN gwReply = 1 .. Len(gwReply)
      /\ DOMAIN gwReply' = 1 .. (Len(gwReply) - 1)
      /\ \A i \in DOMAIN gwReply' : i + 1 \in DOMAIN gwReply /\ gwReply'[i] = gwReply[i + 1]
  <2>1. gwReply \in Seq(ListedMessages)
    BY DEF CsIInv, CsTypeOK
  <2> QED
    BY <1>1, <2>1, HeadTailProperties
<1>3. h \in Nat /\ h \in Keys(gwReply)
  BY <1>2, KeysType DEF CsIInv, Keys
<1> HIDE DEF h
<1>4. /\ CsTypeOK' /\ CallsWell' /\ InboxWell' /\ NumbersWell'
      /\ ListWell => ListWell'
      /\ Keys(csList)' = Keys(csList) /\ csExpiry' = csExpiry /\ csNonce' = csNonce
  <2>1. gwHanded' \subseteq Nat /\ gwNonce' \in Nat /\ gwDisordered' \in BOOLEAN
    BY <1>1, <1>3 DEF CsIInv, CsTypeOK
  <2> QED
    BY <1>1, <1>2, <2>1, CanisterUntouched
<1>5. ASSUME ~csReordered PROVE GatewayWell' /\ PolledOnce'
  <2>1. ListWell /\ GatewayWell /\ PolledOnce
    BY <1>5 DEF CsIInv
  <2>2. \A i \in DOMAIN gwReply : gwReply[i].key \in Nat /\ gwReply[i].key \in Keys(gwReply)
    BY KeysType DEF CsIInv, Keys
  <2>3. \A i \in DOMAIN gwReply' : gwReply'[i].key > h
    <3> SUFFICES ASSUME NEW i \in DOMAIN gwReply' PROVE gwReply[i + 1].key > h
      BY <1>2
    <3>1. i + 1 \in DOMAIN gwReply /\ 1 < i + 1
      BY <1>2
    <3>2. gwReply[1].key < gwReply[i + 1].key
      BY <1>2, <2>1, <3>1 DEF GatewayWell
    <3> QED
      BY <1>2, <1>3, <2>2, <3>1, <3>2
  <2>4. Keys(gwReply) = {h} \cup Keys(gwReply)'
    <3>1. \A i \in DOMAIN gwReply : i = 1 \/ (i - 1 \in DOMAIN gwReply' /\ (i - 1) + 1 = i)
      BY <1>2
    <3>2. \A i \in DOMAIN gwReply : gwReply[i].key = h \/ gwReply[i].key \in Keys(gwReply)'
      BY <1>2, <3>1 DEF Keys
    <3>3. \A i \in DOMAIN gwReply' : gwReply'[i].key \in Keys(gwReply)
      BY <1>2, <2>2
    <3> QED
      BY <1>3, <3>2, <3>3 DEF Keys
  <2>5. Given' = Given
    BY <1>1, <2>4 DEF Given
  <2>6. h >= gwNonce
    BY <1>2, <2>1 DEF GatewayWell
  <2>7. \A n \in gwHanded : n < gwNonce /\ n \in Nat /\ gwNonce \in Nat
    BY <2>1 DEF GatewayWell, CsIInv, CsTypeOK
  <2>8. ~gwDisordered'
    <3>1. ~gwDisordered
      BY <1>5, <2>1 DEF PolledOnce
    <3>2. \A n \in gwHanded : ~(n >= h)
      BY <1>3, <2>6, <2>7
    <3> QED
      BY <1>1, <3>1, <3>2
  <2>9. \A n \in Keys(csList) : n \in Nat
    BY KeysType DEF CsIInv, Keys
  <2>10. \A n \in Keys(csList) : n >= gwNonce' \/ n \in gwHanded'
    <3> SUFFICES ASSUME NEW n \in Keys(csList), ~(n >= h + 1) PROVE n \in gwHanded \/ n = h
      BY <1>1
    <3>1. n <= h
      BY <1>3, <2>9
    <3>2. CASE n >= gwNonce
      <4>1. n \in Keys(gwReply)
        BY <1>3, <2>1, <2>7, <2>9, <3>1, <3>2 DEF GatewayWell
      <4>2. \A m \in Keys(gwReply)' : m > h
        BY <2>3 DEF Keys
      <4> QED
        BY <1>3, <2>4, <2>9, <3>1, <4>1, <4>2
    <3>3. CASE n \in gwHanded
      BY <3>3
    <3> QED
      BY <1>5, <2>1, <3>2, <3>3 DEF PolledOnce
  <2>11. PolledOnce'
    BY <1>4, <2>8, <2>10 DEF PolledOnce
  <2>12. \A n \in gwHanded' : n < gwNonce'
    BY <1>1, <1>3, <2>6, <2>7
  <2>13. \A i \in DOMAIN gwReply' : gwReply'[i].key >= gwNonce'
    <3>1. \A i \in DOMAIN gwReply' : gwReply'[i].key \in Nat
      BY <1>2, <2>2
    <3> QED
      BY <1>1, <1>3, <2>3, <3>1
  <2>14. \A i, j \in DOMAIN gwReply' : i < j => gwReply'[i].key < gwReply'[j].key
    <3> SUFFICES ASSUME NEW i \in DOMAIN gwReply', NEW j \in DOMAIN gwReply', i < j
                 PROVE  gwReply[i + 1].key < gwReply[j + 1].key
      BY <1>2
    <3>1. i + 1 \in DOMAIN gwReply /\ j + 1 \in DOMAIN gwReply /\ i + 1 < j + 1
      BY <1>2
    <3> QED
      BY <2>1, <3>1 DEF GatewayWell
  <2>15. \A n \in Keys(csList), r \in Keys(gwReply)' : gwNonce' <= n /\ n <= r => n \in Keys(gwReply)'
    <3> SUFFICES ASSUME NEW n \in Keys(csList), NEW r \in Keys(gwReply)', h + 1 <= n, n <= r
                 PROVE  n \in Keys(gwReply)'
      BY <1>1
    <3>1. gwNonce <= n /\ n # h
      BY <1>3, <2>6, <2>9 DEF CsIInv, CsTypeOK
    <3>2. r \in Keys(gwReply)
      BY <2>4
    <3>3. n \in Keys(gwReply)
      BY <2>1, <3>1, <3>2 DEF GatewayWell
    <3> QED
      BY <2>4, <3>1, <3>3
  <2>16. gwNonce' - 1 \in gwHanded'
    BY <1>1, <1>3
  <2>17. \A n \in Given' : n <= csNonce' /\ (n \in Keys(csList)' \/ \A x \in csExpiry' : n < x)
    BY <1>4, <2>1, <2>5 DEF GatewayWell
  <2>18. \A n \in Keys(csList)', r \in Keys(gwReply)' : gwNonce' <= n /\ n <= r => n \in Keys(gwReply)'
    BY <1>4, <2>15
  <2> QED
    BY <2>11, <2>12, <2>13, <2>14, <2>16, <2>17, <2>18 DEF GatewayWell
<1>6. csReordered => PolledOnce'
  BY <1>1 DEF PolledOnce
<1> QED
  BY <1>1, <1>4, <1>5, <1>6 DEF CsIInv

LEMMA GatewayRestartsKept ==
    ASSUME CsIInv, GatewayRestarts
    PROVE  CsIInv'
<1>1. /\ gwNonce' = 0 /\ gwReply' = <<>> /\ gwHanded' = {} /\ gwDisordered' = FALSE
      /\ csState' = csState /\ csReordered' = csReordered /\ csDeleted' = csDeleted
  BY DEF GatewayRestarts
<1>2. /\ CsTypeOK' /\ CallsWell' /\ InboxWell' /\ NumbersWell'
      /\ ListWell => ListWell'
      /\ Keys(csList)' = Keys(csList) /\ csExpiry' = csExpiry /\ csNonce' = csNonce
  <2>1. gwNonce' \in Nat /\ gwReply' \in Seq(ListedMessages) /\ gwHanded' \subseteq Nat
        /\ gwDisordered' \in BOOLEAN
    <3>1. <<>> \in Seq(ListedMessages)
      OBVIOUS
    <3> QED
      BY <1>1, <3>1
  <2> QED
    BY <1>1, <2>1, CanisterUntouched
<1>3. Given' = {} /\ Keys(gwReply)' = {}
  BY <1>1 DEF Given, Keys
<1>4. GatewayWell'
  BY <1>1, <1>3 DEF GatewayWell
<1>5. PolledOnce'
  <2>1. \A n \in Keys(csList) : n >= 0
    <3>1. \A n \in Keys(csList) : n \in Nat
      BY KeysType DEF CsIInv, Keys
    <3> QED
      BY <3>1
  <2> QED
    BY <1>1, <1>2, <2>1 DEF PolledOnce
<1> QED
  BY <1>1, <1>2, <1>4, <1>5 DEF CsIInv

\* Initially there are no messages.
LEMMA CsInitIInv == CsInit => CsIInv
<1> SUFFICES ASSUME CsInit PROVE CsIInv
  OBVIOUS
<1>1. CsTypeOK
  <2>1. <<>> \in Seq(ListedMessages) /\ <<>> \in Seq(CsCalls)
    OBVIOUS
  <2>2. /\ csNum = [c \in CsClients |-> 0] /\ csNonce = 0 /\ csExpiry = {} /\ csList = <<>>
        /\ csCall = [k \in CsCalls |-> NoSend] /\ csInbox = <<>> /\ gwNonce = 0 /\ gwReply = <<>>
        /\ gwHanded = {} /\ csReordered = FALSE /\ gwDisordered = FALSE
    BY DEF CsInit
  <2> QED
    BY <2>1, <2>2, SendType DEF CsTypeOK
<1>2. \A k \in CsCalls : csCall[k] = NoSend /\ csCall[k].pc = "none"
  BY SendType DEF CsInit
<1>3. CallsWell /\ InboxWell
  BY <1>2 DEF CsInit, CallsWell, InboxWell, HasKey
<1>4. NumberedMessages = {} /\ InFlight = {} /\ Keys(csList) = {} /\ Given = {} /\ Keys(gwReply) = {}
  BY <1>2 DEF CsInit, NumberedMessages, InFlight, HasNum, HasKey, Keys, Given
<1>5. NumbersWell
  BY <1>4 DEF NumbersWell
<1>6. ListWell /\ GatewayWell /\ PolledOnce
  BY <1>2, <1>4 DEF CsInit, ListWell, GatewayWell, PolledOnce
<1> QED
  BY <1>1, <1>3, <1>5, <1>6 DEF CsIInv

LEMMA CsStepIInv == CsIInv /\ [CsNext]_csVars => CsIInv'
<1> SUFFICES ASSUME CsIInv, [CsNext]_csVars PROVE CsIInv'
  OBVIOUS
<1>1. CASE \E c \in CsClients : (c \notin csDeleted /\ WsRegister(c)) \/ WsClose(c)
  BY <1>1, ClientsKept
<1>2. CASE \E k \in CsCalls, c \in CsClients : WsOpen(k, c) \/ Answers(k, c)
  BY <1>2, ClientsKept
<1>3. CASE \E k \in CsCalls : Keyed(k) \/ Numbered(k) \/ Certified(k)
  BY <1>3, KeyedKept, NumberedKept, CertifiedKept
<1>4. CASE NextClientMessageNum \/ PutCertForMessage
  BY <1>4, NextClientMessageNumKept, PutCertForMessageKept
<1>5. CASE WsGetMessages \/ Hands \/ GatewayRestarts
  BY <1>5, WsGetMessagesKept, HandsKept, GatewayRestartsKept
<1>6. CASE UNCHANGED csVars
  <2>1. csCall' \in [CsCalls -> SendRecords] /\ \A k \in CsCalls : csCall'[k] = csCall[k]
    BY <1>6 DEF CsIInv, CsTypeOK, csVars, csState
  <2> QED
    BY <1>6, <2>1, QuietCalls DEF csVars, csState, gwState
<1> QED
  BY <1>1, <1>2, <1>3, <1>4, <1>5, <1>6 DEF CsNext

\* What the invariant says of the list.
LEMMA CsIInvListed == CsIInv => NumbersFollowKeys /\ ListedIsCertified /\ PolledOnce
<1> SUFFICES ASSUME CsIInv PROVE NumbersFollowKeys /\ ListedIsCertified
  BY DEF CsIInv
<1>1. \A i \in DOMAIN csList : csList[i] \in NumberedMessages
  BY DEF NumberedMessages
<1>2. NumbersFollowKeys
  BY <1>1 DEF CsIInv, NumbersWell, NumbersFollowKeys
<1>3. ListedIsCertified
  BY DEF CsIInv, ListWell, ListedIsCertified
<1> QED
  BY <1>2, <1>3

\* The node canister: of two messages to a client, the one with the later key
\* has the later number, whatever sends overlap.
THEOREM MessagesAreNumberedInOrder == CsSpec => []NumbersFollowKeys
<1>1. CsInit => CsIInv
  BY CsInitIInv
<1>2. CsIInv /\ [CsNext]_csVars => CsIInv'
  BY CsStepIInv
<1>3. CsIInv => NumbersFollowKeys
  BY CsIInvListed
<1> QED
  BY <1>1, <1>2, <1>3, PTL DEF CsSpec

\* Every message in the list can be certified, although the list loses its
\* front and the tree loses keys, while messages are appended in order.
THEOREM ListedMessagesAreCertified == CsSpec => []ListedIsCertified
<1>1. CsInit => CsIInv
  BY CsInitIInv
<1>2. CsIInv /\ [CsNext]_csVars => CsIInv'
  BY CsStepIInv
<1>3. CsIInv => ListedIsCertified
  BY CsIInvListed
<1> QED
  BY <1>1, <1>2, <1>3, PTL DEF CsSpec

\* The gateway's poller is given every key once and in order, and passes over
\* none, across restarts, while messages are appended in order.
THEOREM GatewayPollsEachMessageOnce == CsSpec => []PolledOnce
<1>1. CsInit => CsIInv
  BY CsInitIInv
<1>2. CsIInv /\ [CsNext]_csVars => CsIInv'
  BY CsStepIInv
<1>3. CsIInv => PolledOnce
  BY CsIInvListed
<1> QED
  BY <1>1, <1>2, <1>3, PTL DEF CsSpec
=============================================================================
