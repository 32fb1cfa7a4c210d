----------------------------- MODULE Records_proofs -----------------------------
(***************************************************************************)
(* Proofs about three kinds of records.  ClientUpdates, for any number of  *)
(* calls and retries: when no two calls share a Redis connection,          *)
(* updateClient is atomic.  Marketplace, for any number of requests, users *)
(* and crashes: what a request may have left to do, and what that says of  *)
(* a job that is made, completed, shown and sold.  Scripts, for any number *)
(* of clients, jobs, codes and runs: what the maintenance scripts keep,    *)
(* wherever they stop and however often they are run again.                *)
(***************************************************************************)
EXTENDS ClientUpdates, Marketplace, Scripts, SequenceTheorems, FiniteSetTheorems, TLAPS

\* A call between its WATCH and its EXEC holds its connection's watch.
WatchHeld == \A c \in Callers : pc[c] \in {"get", "exec"} => Conn[c] \in watched

\* What a call read is still current unless its connection is dirty.
ReadIsFresh == \A c \in Callers : pc[c] = "exec" /\ Conn[c] \notin dirty => read[c] = record

\* A call has its answer when, and only when, it is done.
AnsweredWhenDone == \A c \in Callers : result[c] = "none" <=> pc[c] # "done"

\* Backing off is for calls with retries left.
RetriesLeft == \A c \in Callers : pc[c] # "done" => retries[c] < MaxRetries

IInv ==
    /\ TypeOK /\ WatchHeld /\ ReadIsFresh /\ AnsweredWhenDone /\ RetriesLeft
    /\ NoLostUpdate /\ StatusIndexExact

\* The merge of a call's fields is a record that holds them.
LEMMA MergedRecord ==
    ASSUME TypeOK, NEW c \in Callers
    PROVE  /\ Merged(c) \in Records
           /\ Merged(c).fields = read[c].fields \cup {c}
           /\ Merged(c).status \in Statuses
<1>1. read[c] \in Records /\ status[c] \in Statuses \cup {None}
  BY DEF TypeOK
<1> QED
  BY <1>1 DEF Merged, Records

\* With a fresh read, the index follows the record.
LEMMA ReindexedExact ==
    ASSUME StatusIndexExact, NEW c \in Callers, read[c] = record
    PROVE  Reindexed(c) = {Merged(c).status}
BY DEF StatusIndexExact, Reindexed

\* The invariant holds initially.
LEMMA InitIInv == Init => IInv
<1> SUFFICES ASSUME Init PROVE IInv
  OBVIOUS
<1>1. record \in Records /\ record.fields = {}
  BY DEF Init, Records
<1>2. TypeOK
  BY <1>1, UpdatesAssumption DEF Init, TypeOK, Records
<1>3. WatchHeld /\ ReadIsFresh /\ AnsweredWhenDone /\ RetriesLeft
  BY UpdatesAssumption DEF Init, WatchHeld, ReadIsFresh, AnsweredWhenDone, RetriesLeft
<1>4. NoLostUpdate /\ StatusIndexExact
  BY <1>1 DEF Init, NoLostUpdate, StatusIndexExact
<1> QED
  BY <1>2, <1>3, <1>4 DEF IInv

\* A successful EXEC of an isolated call publishes exactly its own fields.
LEMMA ExecPublishes ==
    ASSUME IInv, NEW c \in Callers, ExecSucceeds(c)
    PROVE  /\ read[c] = record
           /\ record' \in Records
           /\ record'.fields = record.fields \cup {c}
           /\ index' = {record'.status}
<1>1. read[c] = record
  BY DEF IInv, ReadIsFresh, ExecSucceeds
<1>2. TypeOK /\ StatusIndexExact
  BY DEF IInv
<1> QED
  BY <1>1, <1>2, MergedRecord, ReindexedExact DEF ExecSucceeds

\* One Redis command of an isolated call preserves the inductive invariant.
LEMMA StepIInv ==
    ASSUME Isolated
    PROVE  IInv /\ [Next]_vars => IInv'
<1> SUFFICES ASSUME IInv, [Next]_vars PROVE IInv'
  OBVIOUS
<1> USE DEF IInv, Goto
<1>1. ASSUME NEW c \in Callers, Watch(c) PROVE IInv'
  <2>1. TypeOK' BY <1>1, ConnAssumption DEF Watch, Watched, TypeOK
  <2>2. WatchHeld' BY <1>1 DEF Watch, Watched, TypeOK, WatchHeld
  <2>3. ReadIsFresh' BY <1>1 DEF Watch, TypeOK, ReadIsFresh
  <2>4. AnsweredWhenDone' /\ RetriesLeft' BY <1>1 DEF Watch, TypeOK, AnsweredWhenDone, RetriesLeft
  <2>5. NoLostUpdate' /\ StatusIndexExact' BY <1>1 DEF Watch, NoLostUpdate, StatusIndexExact
  <2> QED BY <2>1, <2>2, <2>3, <2>4, <2>5
<1>2. ASSUME NEW c \in Callers, Get(c) PROVE IInv'
  <2>1. TypeOK' BY <1>2 DEF Get, redisVars, TypeOK
  <2>2. WatchHeld' BY <1>2 DEF Get, redisVars, TypeOK, WatchHeld
  <2>3. ReadIsFresh' BY <1>2 DEF Get, redisVars, TypeOK, ReadIsFresh
  <2>4. AnsweredWhenDone' /\ RetriesLeft'
    BY <1>2 DEF Get, TypeOK, AnsweredWhenDone, RetriesLeft
  <2>5. NoLostUpdate' /\ StatusIndexExact'
    BY <1>2 DEF Get, redisVars, NoLostUpdate, StatusIndexExact
  <2> QED BY <2>1, <2>2, <2>3, <2>4, <2>5
<1>3. ASSUME NEW c \in Callers, ExecSucceeds(c) PROVE IInv'
  <2>0. /\ record' \in Records /\ record'.fields = record.fields \cup {c}
        /\ index' = {record'.status}
    BY <1>3, ExecPublishes
  <2>1. TypeOK'
    <3>1. dirty' \in SUBSET watched'
      BY <1>3 DEF ExecSucceeds, MadeDirty, TypeOK
    <3> QED BY <1>3, <2>0, <3>1 DEF ExecSucceeds, TypeOK, Records
  <2>2. WatchHeld' BY <1>3 DEF Isolated, ExecSucceeds, TypeOK, WatchHeld
  <2>3. ReadIsFresh'
    <3> SUFFICES ASSUME NEW d \in Callers, pc'[d] = "exec", Conn[d] \notin dirty'
                 PROVE  FALSE
      BY DEF ReadIsFresh
    <3>1. d # c /\ pc[d] = "exec"
      BY <1>3 DEF ExecSucceeds, TypeOK
    <3>2. Conn[d] # Conn[c] /\ Conn[d] \in watched
      BY <3>1 DEF Isolated, WatchHeld
    <3> QED BY <1>3, <3>2 DEF ExecSucceeds, MadeDirty
  <2>4. AnsweredWhenDone' /\ RetriesLeft'
    BY <1>3 DEF ExecSucceeds, TypeOK, AnsweredWhenDone, RetriesLeft
  <2>5. NoLostUpdate' BY <1>3, <2>0 DEF ExecSucceeds, TypeOK, NoLostUpdate
  <2>6. StatusIndexExact' BY <2>0 DEF StatusIndexExact
  <2> QED BY <2>1, <2>2, <2>3, <2>4, <2>5, <2>6
<1>4. ASSUME NEW c \in Callers, ExecAborted(c) PROVE IInv'
  <2>0. retries[c] \in 0 .. MaxRetries /\ retries[c] < MaxRetries
    BY <1>4 DEF ExecAborted, TypeOK, RetriesLeft
  <2>1. TypeOK'
    BY <1>4, <2>0, UpdatesAssumption DEF ExecAborted, Unwatched, Conflict, TypeOK
  <2>2. WatchHeld'
    BY <1>4 DEF Isolated, ExecAborted, Unwatched, Conflict, TypeOK, WatchHeld
  <2>3. ReadIsFresh'
    BY <1>4 DEF Isolated, ExecAborted, Unwatched, Conflict, TypeOK, ReadIsFresh
  <2>4. AnsweredWhenDone' /\ RetriesLeft'
    BY <1>4, <2>0, UpdatesAssumption DEF ExecAborted, Conflict, TypeOK, AnsweredWhenDone, RetriesLeft
  <2>5. NoLostUpdate' /\ StatusIndexExact'
    BY <1>4 DEF ExecAborted, Conflict, TypeOK, AnsweredWhenDone, NoLostUpdate, StatusIndexExact
  <2> QED BY <2>1, <2>2, <2>3, <2>4, <2>5
<1>5. ASSUME NEW c \in Callers, GivesUp(c) PROVE IInv'
  <2>1. TypeOK' BY <1>5 DEF GivesUp, Unwatched, TypeOK
  <2>2. WatchHeld' BY <1>5 DEF Isolated, GivesUp, Unwatched, TypeOK, WatchHeld
  <2>3. ReadIsFresh' BY <1>5 DEF Isolated, GivesUp, Unwatched, TypeOK, ReadIsFresh
  <2>4. AnsweredWhenDone' /\ RetriesLeft'
    BY <1>5 DEF GivesUp, TypeOK, AnsweredWhenDone, RetriesLeft
  <2>5. NoLostUpdate' /\ StatusIndexExact' BY <1>5 DEF GivesUp, NoLostUpdate, StatusIndexExact
  <2> QED BY <2>1, <2>2, <2>3, <2>4, <2>5
<1>6. ASSUME NEW c \in Callers, Unwatch(c) PROVE IInv'
  <2>1. TypeOK' BY <1>6 DEF Unwatch, Unwatched, TypeOK
  <2>2. WatchHeld' BY <1>6 DEF Isolated, Unwatch, Unwatched, TypeOK, WatchHeld
  <2>3. ReadIsFresh' BY <1>6 DEF Isolated, Unwatch, Unwatched, TypeOK, ReadIsFresh
  <2>4. AnsweredWhenDone' /\ RetriesLeft'
    BY <1>6 DEF Unwatch, TypeOK, AnsweredWhenDone, RetriesLeft
  <2>5. NoLostUpdate' /\ StatusIndexExact'
    BY <1>6 DEF Unwatch, TypeOK, AnsweredWhenDone, NoLostUpdate, StatusIndexExact
  <2> QED BY <2>1, <2>2, <2>3, <2>4, <2>5
<1>7. CASE UNCHANGED vars
  <2>1. TypeOK' BY <1>7 DEF vars, redisVars, TypeOK
  <2>2. WatchHeld' /\ ReadIsFresh' BY <1>7 DEF vars, redisVars, WatchHeld, ReadIsFresh
  <2>3. AnsweredWhenDone' /\ RetriesLeft' BY <1>7 DEF vars, AnsweredWhenDone, RetriesLeft
  <2>4. NoLostUpdate' /\ StatusIndexExact'
    BY <1>7 DEF vars, redisVars, NoLostUpdate, StatusIndexExact
  <2> QED BY <2>1, <2>2, <2>3, <2>4
<1> QED
  BY <1>1, <1>2, <1>3, <1>4, <1>5, <1>6, <1>7 DEF Next, Step

\* The invariant holds in every reachable state.
LEMMA IInvHolds == ASSUME Isolated PROVE Spec => []IInv
  BY InitIInv, StepIInv, PTL DEF Spec

\* The calls' copies and counters stay well formed; a call never counts past
\* maxRetries (updateClient).
THEOREM TypeCorrect == ASSUME Isolated PROVE Spec => []TypeOK
<1>1. IInv => TypeOK
  BY DEF IInv
<1> QED
  BY <1>1, IInvHolds, PTL

\* With a connection per call, an update that was reported successful is never
\* lost to another one, however many calls and conflicts there are.
THEOREM UpdatesSurvive == ASSUME Isolated PROVE Spec => []NoLostUpdate
<1>1. IInv => NoLostUpdate
  BY DEF IInv
<1> QED
  BY <1>1, IInvHolds, PTL

\* With a connection per call, CLIENTS_BY_STATUS lists a client under exactly
\* the status its record holds.
THEOREM IndexFollowsRecord == ASSUME Isolated PROVE Spec => []StatusIndexExact
<1>1. IInv => StatusIndexExact
  BY DEF IInv
<1> QED
  BY <1>1, IInvHolds, PTL

\* With a connection per call, updateClient implements an atomic merge: every
\* command is the abstract update, the abstract failure, or invisible.
THEOREM UpdateIsAtomic == ASSUME Isolated PROVE Spec => ImplementsAtomicUpdate
<1>1. Init => Atomic!Init
  BY DEF Init, Atomic!Init
<1>2. IInv /\ [Next]_vars => [Atomic!Next]_Atomic!avars
  <2> SUFFICES ASSUME IInv, [Next]_vars PROVE [Atomic!Next]_Atomic!avars
    OBVIOUS
  <2> USE DEF Atomic!avars, redisVars
  <2>0. ASSUME NEW c \in Callers, result[c] = "none",
               result' = [result EXCEPT ![c] = "UpdateFailed"], UNCHANGED <<record, index>>
        PROVE  Atomic!Next
    BY <2>0 DEF Atomic!Next, Atomic!Fail
  <2>1. ASSUME NEW c \in Callers, Watch(c) \/ Get(c) \/ GivesUp(c)
        PROVE  UNCHANGED Atomic!avars
    BY <2>1 DEF Watch, Get, GivesUp
  <2>2. ASSUME NEW c \in Callers, ExecSucceeds(c)
        PROVE  Atomic!Next
    <3>1. /\ record' \in Records /\ record'.fields = record.fields \cup {c}
          /\ index' = {record'.status} /\ result[c] = "none"
      BY <2>2, ExecPublishes DEF IInv, AnsweredWhenDone, ExecSucceeds
    <3>2. record'.status \in Statuses
          /\ record' = [fields |-> record.fields \cup {c}, status |-> record'.status]
      BY <3>1 DEF Records
    <3>3. Atomic!Update(c, record'.status)
      BY <2>2, <3>1, <3>2 DEF Atomic!Update, ExecSucceeds
    <3> QED BY <3>2, <3>3 DEF Atomic!Next
  <2>3. ASSUME NEW c \in Callers, ExecAborted(c)
        PROVE  [Atomic!Next]_Atomic!avars
    <3>1. result[c] = "none"
      BY <2>3 DEF IInv, AnsweredWhenDone, ExecAborted
    <3> QED BY <2>0, <2>3, <3>1 DEF ExecAborted, Conflict
  <2>4. ASSUME NEW c \in Callers, Unwatch(c)
        PROVE  Atomic!Next
    <3>1. result[c] = "none"
      BY <2>4 DEF IInv, AnsweredWhenDone, Unwatch
    <3> QED BY <2>0, <2>4, <3>1 DEF Unwatch
  <2>5. CASE UNCHANGED vars
    BY <2>5 DEF vars
  <2> QED BY <2>1, <2>2, <2>3, <2>4, <2>5 DEF Next, Step
<1> QED
  BY <1>1, <1>2, IInvHolds, PTL DEF Spec, ImplementsAtomicUpdate, Atomic!Spec
(***************************************************************************)
(* The requests about a job: what a request may have left to do.           *)
(***************************************************************************)
Ordinary == {"auth", "setKey", "getJob", "unlist", "list", "wait", "setPrice", "cached",
             "countView", "remember", "getUnpriced", "del", "emitError"} \cup JobStates \cup Contents
Plain == Seq(Ordinary) \ {<<>>}
Limiting == {<<"auth", "checkLimit">>, <<"auth", "checkLimit", "create">>,
             <<"checkLimit">>, <<"checkLimit", "create">>}
Creating == {<<"auth", "checkLimit", "create">>, <<"checkLimit", "create">>, <<"create">>}
Counting == {Usage, <<"setUsage">>}
Buying == {<<"auth", "getCompleted", "hasPurchase", "setPurchase", "addPurchase", "confirm">>, Buy,
           <<"hasPurchase", "setPurchase", "addPurchase", "confirm">>,
           <<"setPurchase", "addPurchase", "confirm">>, <<"addPurchase", "confirm">>, <<"confirm">>}
Accessing == {<<"auth", "hasAccess", "getCompleted">>, <<"hasAccess", "getCompleted">>,
              <<"getCompleted">>}
Fetching == {<<"auth", "getOwn", "serve">>, <<"getOwn", "serve">>, <<"serve">>}

\* The function a request is in may be begun, those after it are whole; a
\* request counts once, and at last if it creates a job.
Named == Limiting \cup Creating \cup Counting \cup Buying \cup Accessing \cup Fetching
Begun == Plain \cup Named
Whole == Plain \cup {Usage, Buy, <<"serve">>}
Todos ==
    {t \in Seq(Begun) :
        /\ \A i \in DOMAIN t : i > 1 => t[i] \in Whole
        /\ \A i, j \in DOMAIN t : t[i] \in Counting /\ t[j] \in Counting => i = j
        /\ t # <<>> /\ Head(t) \in Creating => \E i \in DOMAIN t : t[i] \in Counting}

Op(t) == Head(Head(t))
Counts(t) == \E i \in DOMAIN t : t[i] \in Counting

JobRecords == [state : JobStates \cup {"none"}, stored : BOOLEAN, priced : BOOLEAN]
CallRecords == [user : MkUsers \cup {Nobody}, todo : Todos, old : JobRecords,
                new : JobStates \cup {"none", "over"}, usage : Nat]

MkTypeOK ==
    /\ mkJob \in JobRecords
    /\ mkUsage \in [MkUsers -> Nat] /\ mkServed \in [MkUsers -> Nat] /\ mkCrashCount \in Nat
    /\ mkCall \in [MkCalls -> CallRecords]
    /\ \A c \in MkCalls : Counts(mkCall[c].todo) => mkCall[c].user \in MkUsers

\* Who is told of a purchase has it, and it is listed or about to be.
BoughtInv ==
    /\ mkConfirmed \subseteq mkBought
    /\ \A c \in MkCalls : At(c, "addPurchase") \/ At(c, "confirm") => mkCall[c].user \in mkBought
    /\ \A u \in mkBought :
          \/ u \in mkBoughtBy
          \/ mkCrashCount > 0
          \/ \E c \in MkCalls : mkCall[c].user = u /\ At(c, "addPurchase")

\* As long as the job was never completed, no copy of its record says so, and
\* no request has passed the test for it.
Passed(t) ==
    /\ t # <<>> => Op(t) \notin {"hasPurchase", "setPurchase", "serve"}
    /\ \A i \in DOMAIN t : i > 1 /\ t[i] = <<"serve">> => t[1] \in Accessing
NeverSaid(rec) == rec.state # "completed" /\ ~ rec.stored
SeenInv ==
    ~ mkCompleted =>
        /\ ~ mkShown /\ ~ mkCached /\ mkBought = {}
        /\ NeverSaid(mkJob)
        /\ \A c \in MkCalls : NeverSaid(mkCall[c].old) /\ Passed(mkCall[c].todo)

\* While a user's requests do not overlap, the count is right, the request about
\* to write it knows it, and one past the test has room.
Room(c) ==
    /\ At(c, "setUsage") => mkCall[c].usage = mkUsage[mkCall[c].user]
    /\ Counts(mkCall[c].todo) /\ mkCall[c].todo[1] \notin Limiting =>
          mkServed[mkCall[c].user] < UsageLimit
LimitInv ==
    \A u \in MkUsers \ mkLoose :
        /\ mkUsage[u] = mkServed[u] /\ mkServed[u] <= UsageLimit
        /\ \A c, d \in MkCalls :
              Busy(c) /\ Busy(d) /\ mkCall[c].user = u /\ mkCall[d].user = u => c = d
        /\ \A c \in MkCalls : Busy(c) /\ mkCall[c].user = u => Room(c)

\* What is left of a function after its first command, and which commands
\* follow each other.
LEMMA PlainTail ==
    ASSUME NEW g \in Plain
    PROVE  /\ Len(g) \in Nat \ {0} /\ Head(g) \in Ordinary
           /\ Len(g) > 1 => Tail(g) \in Plain /\ Head(Tail(g)) \in Ordinary
<1>1. g \in Seq(Ordinary) /\ g # <<>>
  BY DEF Plain
<1> HIDE DEF Ordinary
<1>2. Len(g) \in Nat \ {0} /\ Head(g) \in Ordinary
  <2>1. Head(g) \in Ordinary
    BY <1>1, HeadTailProperties
  <2>2. Len(g) \in Nat /\ Len(g) # 0
    BY <1>1
  <2> QED
    BY <2>1, <2>2
<1>3. ASSUME Len(g) > 1 PROVE Tail(g) \in Plain /\ Head(Tail(g)) \in Ordinary
  <2>1. Tail(g) \in Seq(Ordinary) /\ Len(Tail(g)) = Len(g) - 1
    BY <1>1, HeadTailProperties
  <2>2. Tail(g) # <<>>
    BY <2>1, <1>2, <1>3
  <2> QED
    BY <2>1, <2>2, HeadTailProperties DEF Plain
<1> QED
  BY <1>2, <1>3

Special == {"hasPurchase", "setPurchase", "addPurchase", "confirm", "serve", "setUsage", "getUsage",
            "checkLimit", "create", "getOwn", "hasAccess", "getCompleted"}

\* The commands of plain functions are not those that count, limit, buy or serve.
LEMMA OrdinaryIsNotSpecial == Ordinary \cap Special = {}
BY DEF Ordinary, Special, JobStates, Contents

\* The same for the other functions.
Follows(g) ==
    /\ Len(g) \in Nat \ {0}
    /\ Head(g) \in Special \cup {"auth"}
    /\ Head(g) = "auth" => Len(g) > 1 /\ Head(Tail(g)) \in Special
    /\ Len(g) > 1 => Tail(g) \in Named
    /\ Head(g) = "setPurchase" => Len(g) > 1 /\ Head(Tail(g)) = "addPurchase"
    /\ Len(g) > 1 =>
          /\ Head(Tail(g)) = "hasPurchase" => Head(g) = "getCompleted"
          /\ Head(Tail(g)) = "setPurchase" => Head(g) = "hasPurchase"
          /\ Head(Tail(g)) = "addPurchase" => Head(g) = "setPurchase"
          /\ Head(Tail(g)) = "confirm" => Head(g) = "addPurchase"
          /\ Head(Tail(g)) = "serve" => Head(g) = "getOwn"
          /\ Head(Tail(g)) = "setUsage" => Head(g) = "getUsage"
          /\ Tail(g) \in Counting <=> g \in Counting
          /\ Tail(g) \in Limiting => g \in Limiting
          /\ Tail(g) \in Creating <=> g \in Creating
          /\ Tail(g) \in Accessing <=> g \in Accessing
    /\ g \in Limiting => Head(g) \in {"auth", "checkLimit"}
    /\ g \in Limiting /\ Head(g) # "checkLimit" => Len(g) > 1 /\ Tail(g) \in Limiting
    /\ Len(g) = 1 /\ Head(g) # "checkLimit" => g \notin Limiting
    /\ Head(g) \in {"setUsage", "getUsage"} => g \in Counting
    /\ g \in Counting => Head(g) \in {"getUsage", "setUsage"}
    /\ Head(g) = "setUsage" => Len(g) = 1
    /\ Head(g) = "checkLimit" => g \in Limiting
    /\ Head(g) = "create" => g \in Creating
    /\ g \in Accessing => Head(g) \in {"auth", "hasAccess", "getCompleted"}
    /\ g \in Accessing /\ Head(g) # "getCompleted" => Len(g) > 1

\* How the named functions begin, one by one.
LEMMA NamedFollows == \A g \in Named : Follows(g)
<1> USE DEF Limiting, Creating, Counting, Usage, Buying, Buy, Accessing, Fetching, Named
<1>1. Follows(<<"auth", "checkLimit">>)
  BY DEF Follows, Special
<1>2. Follows(<<"checkLimit">>)
  BY DEF Follows, Special
<1>3. Follows(<<"auth", "checkLimit", "create">>)
  BY DEF Follows, Special
<1>4. Follows(<<"checkLimit", "create">>)
  BY DEF Follows, Special
<1>5. Follows(<<"create">>)
  BY DEF Follows, Special
<1>6. Follows(<<"getUsage", "setUsage">>)
  BY DEF Follows, Special
<1>7. Follows(<<"setUsage">>)
  BY DEF Follows, Special
<1>8. Follows(<<"auth", "getCompleted", "hasPurchase", "setPurchase", "addPurchase", "confirm">>)
  BY DEF Follows, Special
<1>9. Follows(<<"getCompleted", "hasPurchase", "setPurchase", "addPurchase", "confirm">>)
  BY DEF Follows, Special
<1>10. Follows(<<"hasPurchase", "setPurchase", "addPurchase", "confirm">>)
  BY DEF Follows, Special
<1>11. Follows(<<"setPurchase", "addPurchase", "confirm">>)
  BY DEF Follows, Special
<1>12. Follows(<<"addPurchase", "confirm">>)
  BY DEF Follows, Special
<1>13. Follows(<<"confirm">>)
  BY DEF Follows, Special
<1>14. Follows(<<"auth", "hasAccess", "getCompleted">>)
  BY DEF Follows, Special
<1>15. Follows(<<"hasAccess", "getCompleted">>)
  BY DEF Follows, Special
<1>16. Follows(<<"getCompleted">>)
  BY DEF Follows, Special
<1>17. Follows(<<"auth", "getOwn", "serve">>)
  BY DEF Follows, Special
<1>18. Follows(<<"getOwn", "serve">>)
  BY DEF Follows, Special
<1>19. Follows(<<"serve">>)
  BY DEF Follows, Special
<1> QED
  <2> SUFFICES ASSUME NEW g \in Named PROVE Follows(g)
    OBVIOUS
  <2>1. CASE g \in Limiting
    BY <2>1, <1>1, <1>2, <1>3, <1>4
  <2>2. CASE g \in Creating
    BY <2>2, <1>3, <1>4, <1>5
  <2>3. CASE g \in Counting
    BY <2>3, <1>6, <1>7
  <2>4. CASE g \in Buying
    BY <2>4, <1>8, <1>9, <1>10, <1>11, <1>12, <1>13
  <2>5. CASE g \in Accessing
    BY <2>5, <1>14, <1>15, <1>16
  <2>6. CASE g \in Fetching
    BY <2>6, <1>17, <1>18, <1>19
  <2> QED
    BY <2>1, <2>2, <2>3, <2>4, <2>5, <2>6

\* A plain function has none of the commands that count or limit, so it is no named one.
LEMMA PlainIsNotNamed == Plain \cap Named = {}
<1> SUFFICES ASSUME NEW g \in Plain, g \in Named PROVE FALSE
  OBVIOUS
<1>1. Head(g) \notin Special /\ (Len(g) > 1 => Head(Tail(g)) \notin Special)
  BY PlainTail, OrdinaryIsNotSpecial
<1> QED
  BY <1>1, NamedFollows DEF Follows

\* What may come first of what is left, after a function went on.
AfterStep(g, h) ==
    /\ h \in Begun
    /\ Head(h) = "hasPurchase" => Head(g) = "getCompleted"
    /\ Head(h) = "setPurchase" => Head(g) = "hasPurchase"
    /\ Head(h) = "addPurchase" => Head(g) = "setPurchase"
    /\ Head(h) = "confirm" => Head(g) = "addPurchase"
    /\ Head(h) = "serve" => Head(g) = "getOwn"
    /\ Head(h) = "setUsage" => Head(g) = "getUsage"
    /\ h \in Counting <=> g \in Counting
    /\ h \in Creating <=> g \in Creating
    /\ h \in Limiting => g \in Limiting
    /\ h \in Accessing <=> g \in Accessing
    /\ h # <<"serve">> \/ Head(g) = "getOwn"

Going(g) ==
    /\ Len(g) \in Nat \ {0} /\ g # <<>>
    /\ Len(g) > 1 => AfterStep(g, Tail(g))
    /\ Head(g) = "setPurchase" => Len(g) > 1 /\ Head(Tail(g)) = "addPurchase"
    /\ g \in Limiting /\ Head(g) # "checkLimit" => Len(g) > 1 /\ Tail(g) \in Limiting
    /\ g \in Limiting => Head(g) \in {"auth", "checkLimit"}
    /\ Head(g) \in {"setUsage", "getUsage"} => g \in Counting
    /\ g \in Counting => Head(g) \in {"getUsage", "setUsage"}
    /\ Head(g) = "setUsage" => Len(g) = 1
    /\ Head(g) = "checkLimit" => g \in Limiting
    /\ Head(g) = "create" => g \in Creating
    /\ g \in Accessing => Head(g) \in {"auth", "hasAccess", "getCompleted"}
    /\ g \in Accessing /\ Head(g) # "getCompleted" => Len(g) > 1

\* What is left of a function that may go on, after its first command, may go on too.
LEMMA GoesOn ==
    ASSUME NEW g \in Begun
    PROVE  Going(g)
<1>1. CASE g \in Named
  <2>1. Follows(g)
    BY <1>1, NamedFollows
  <2>2. g # <<>>
    BY <2>1 DEF Follows
  <2>3. Tail(g) = <<"serve">> => Head(Tail(g)) = "serve"
    <3>1. Head(<<"serve">>) = "serve"
      OBVIOUS
    <3> HIDE DEF Follows
    <3> QED
      BY <3>1, Zenon
  <2> QED
    BY <2>1, <2>2, <2>3 DEF Follows, AfterStep, Begun, Going
<1>2. CASE g \in Plain
  <2>1. /\ Len(g) \in Nat \ {0} /\ g # <<>> /\ Head(g) \notin Special
        /\ Len(g) > 1 => Tail(g) \in Plain /\ Head(Tail(g)) \notin Special
    BY <1>2, PlainTail, OrdinaryIsNotSpecial DEF Plain
  <2>2. g \notin Named /\ (Len(g) > 1 => Tail(g) \notin Named)
    BY <1>2, <2>1, PlainIsNotNamed
  <2>3. <<"serve">> \in Named
    BY DEF Named, Fetching
  <2> QED
    BY <1>2, <2>1, <2>2, <2>3 DEF AfterStep, Begun, Named, Special, Going
<1> QED
  BY <1>1, <1>2 DEF Begun

\* A function that was not begun does not start with a command that needs
\* another before it.
LEMMA WholeBegins ==
    ASSUME NEW g \in Whole
    PROVE  /\ g \in Begun /\ g \notin Limiting \cup Creating \cup Accessing
           /\ Head(g) \notin {"hasPurchase", "setPurchase", "addPurchase", "confirm", "setUsage",
                              "checkLimit", "create"}
           /\ Head(g) = "serve" => g = <<"serve">>
<1>1. CASE g \in Plain
  <2>1. Head(g) \notin Special
    BY <1>1, PlainTail, OrdinaryIsNotSpecial
  <2>2. g \notin Limiting /\ g \notin Creating /\ g \notin Accessing
    BY <1>1, PlainIsNotNamed DEF Named
  <2> QED
    BY <1>1, <2>1, <2>2 DEF Begun, Special
<1>2. CASE g = Usage
  BY <1>2 DEF Begun, Named, Counting, Usage, Limiting, Creating, Accessing
<1>3. CASE g = Buy
  BY <1>3 DEF Begun, Named, Buying, Buy, Limiting, Creating, Accessing
<1>4. CASE g = <<"serve">>
  BY <1>4 DEF Begun, Named, Fetching, Limiting, Creating, Accessing
<1> QED
  BY <1>1, <1>2, <1>3, <1>4 DEF Whole

\* A list without its first element, and with that replaced.
LEMMA TailOf ==
    ASSUME NEW S, NEW t \in Seq(S), t # <<>>
    PROVE  /\ Len(t) \in Nat \ {0} /\ Head(t) = t[1] /\ 1 \in DOMAIN t /\ t[1] \in S
           /\ Tail(t) \in Seq(S) /\ Len(Tail(t)) = Len(t) - 1
           /\ \A i \in DOMAIN Tail(t) : i + 1 \in DOMAIN t /\ Tail(t)[i] = t[i + 1]
<1>1. Len(t) \in Nat \ {0} /\ Head(t) = t[1] /\ 1 \in DOMAIN t
  <2>1. Len(t) \in Nat /\ Len(t) # 0 /\ DOMAIN t = 1 .. Len(t)
    BY EmptySeq
  <2> QED
    BY <2>1
<1>2. t[1] \in S
  BY <1>1
<1>3. /\ Tail(t) \in Seq(S) /\ Len(Tail(t)) = Len(t) - 1
      /\ \A i \in 1 .. Len(Tail(t)) : Tail(t)[i] = t[i + 1]
  BY HeadTailProperties
<1>4. DOMAIN Tail(t) = 1 .. Len(Tail(t)) /\ DOMAIN t = 1 .. Len(t)
  BY <1>3
<1> QED
  BY <1>1, <1>2, <1>3, <1>4

\* A sequence whose first element is replaced keeps its other elements.
LEMMA FirstReplaced ==
    ASSUME NEW S, NEW t \in Seq(S), t # <<>>, NEW h \in S
    PROVE  /\ <<h>> \o Tail(t) \in Seq(S) /\ <<h>> \o Tail(t) # <<>>
           /\ (<<h>> \o Tail(t))[1] = h
           /\ DOMAIN (<<h>> \o Tail(t)) = DOMAIN t
           /\ \A i \in DOMAIN t : i > 1 => (<<h>> \o Tail(t))[i] = t[i]
<1>1. <<h>> \in Seq(S) /\ Len(<<h>>) = 1 /\ <<h>>[1] = h
  OBVIOUS
<1>2. /\ Len(t) \in Nat \ {0} /\ Tail(t) \in Seq(S) /\ Len(Tail(t)) = Len(t) - 1
      /\ \A i \in 1 .. Len(Tail(t)) : Tail(t)[i] = t[i + 1]
  BY TailOf, HeadTailProperties
<1> DEFINE r == <<h>> \o Tail(t)
<1>3. /\ r \in Seq(S) /\ Len(r) = Len(t)
      /\ \A i \in 1 .. Len(r) : r[i] = IF i <= 1 THEN <<h>>[i] ELSE Tail(t)[i - 1]
  <2>1. /\ r \in Seq(S) /\ Len(r) = 1 + Len(Tail(t))
        /\ \A i \in 1 .. 1 + Len(Tail(t)) : r[i] = IF i <= 1 THEN <<h>>[i] ELSE Tail(t)[i - 1]
    BY <1>1, <1>2, ConcatProperties
  <2> QED
    BY <2>1, <1>2
<1> HIDE DEF r
<1>4. DOMAIN r = 1 .. Len(t) /\ DOMAIN t = 1 .. Len(t)
  BY <1>3
<1>5. r[1] = h /\ r # <<>>
  BY <1>1, <1>2, <1>3
<1>6. ASSUME NEW i \in DOMAIN t, i > 1 PROVE r[i] = t[i]
  <2>1. i \in 1 .. Len(r) /\ i - 1 \in 1 .. Len(Tail(t)) /\ (i - 1) + 1 = i
    BY <1>2, <1>3, <1>4, <1>6
  <2>2. r[i] = Tail(t)[i - 1]
    BY <2>1, <1>3
  <2> QED
    BY <2>1, <2>2, <1>2
<1> QED
  BY <1>3, <1>4, <1>5, <1>6 DEF r

\* The list of a request after one more function of it is left out.
LEMMA FunctionDropped ==
    ASSUME NEW t \in Todos, t # <<>>
    PROVE  /\ Tail(t) \in Todos
           /\ Tail(t) # <<>> =>
                 Op(Tail(t)) \notin {"hasPurchase", "setPurchase", "addPurchase", "confirm", "setUsage"}
           /\ Counts(Tail(t)) => Counts(t) /\ t[1] \notin Counting
           /\ Passed(t) /\ t[1] \notin Accessing => Passed(Tail(t))
           /\ Tail(t) # <<>> => Tail(t)[1] \notin Limiting
<1> DEFINE u == Tail(t)
<1>0. /\ t \in Seq(Begun)
      /\ \A i \in DOMAIN t : i > 1 => t[i] \in Whole
      /\ \A i, j \in DOMAIN t : t[i] \in Counting /\ t[j] \in Counting => i = j
  BY DEF Todos
<1>1. /\ Len(t) \in Nat \ {0} /\ 1 \in DOMAIN t
      /\ u \in Seq(Begun)
      /\ \A i \in DOMAIN u : i + 1 \in DOMAIN t /\ u[i] = t[i + 1]
  BY <1>0, TailOf
<1>2. \A i \in DOMAIN u : i \in Nat /\ i > 0
  BY <1>1
<1> HIDE DEF u
<1>3. ASSUME NEW i \in DOMAIN u PROVE u[i] \in Whole /\ u[i] = t[i + 1] /\ i + 1 \in DOMAIN t
  BY <1>0, <1>1, <1>2
<1>4. ASSUME u # <<>> PROVE 1 \in DOMAIN u /\ Head(u) = u[1] /\ u[1] \in Whole
  BY <1>1, <1>3, <1>4, TailOf
<1>5. u \in Todos
  <2>1. ASSUME NEW i \in DOMAIN u, NEW j \in DOMAIN u, u[i] \in Counting, u[j] \in Counting PROVE i = j
    <3>1. i + 1 = j + 1
      BY <1>0, <1>3, <2>1
    <3> QED
      BY <3>1, <1>2
  <2>2. u # <<>> => Head(u) \notin Creating
    BY <1>4, WholeBegins
  <2> QED
    BY <1>1, <1>3, <2>1, <2>2 DEF Todos
<1>6. u # <<>> =>
         Op(u) \notin {"hasPurchase", "setPurchase", "addPurchase", "confirm", "setUsage"}
  BY <1>4, WholeBegins DEF Op
<1>7. ASSUME Counts(u) PROVE Counts(t) /\ t[1] \notin Counting
  <2>1. PICK i \in DOMAIN u : u[i] \in Counting
    BY <1>7 DEF Counts
  <2>2. i + 1 \in DOMAIN t /\ t[i + 1] \in Counting /\ i + 1 # 1
    BY <2>1, <1>2, <1>3
  <2> QED
    BY <2>2, <1>0, <1>1 DEF Counts
<1>8. ASSUME Passed(t), t[1] \notin Accessing PROVE Passed(u)
  <2>1. \A i \in DOMAIN t : i > 1 => t[i] # <<"serve">>
    BY <1>8 DEF Passed, Op
  <2>2. \A i \in DOMAIN u : u[i] # <<"serve">>
    BY <2>1, <1>2, <1>3
  <2>3. u # <<>> => Head(Head(u)) \notin {"hasPurchase", "setPurchase", "serve"}
    BY <2>2, <1>4, WholeBegins
  <2> QED
    BY <2>2, <2>3 DEF Passed, Op
<1>9. u # <<>> => u[1] \notin Limiting
  BY <1>4, WholeBegins
<1> QED
  BY <1>5, <1>6, <1>7, <1>8, <1>9 DEF u

\* The list of a request after one more command.
LEMMA CommandDone ==
    ASSUME NEW t \in Todos, t # <<>>
    PROVE  /\ AfterCommand(t) \in Todos
           /\ Op(t) = "setPurchase" => AfterCommand(t) # <<>> /\ Op(AfterCommand(t)) = "addPurchase"
           /\ AfterCommand(t) # <<>> =>
                 /\ Op(AfterCommand(t)) = "addPurchase" => Op(t) = "setPurchase"
                 /\ Op(AfterCommand(t)) = "confirm" => Op(t) = "addPurchase"
                 /\ Op(AfterCommand(t)) = "setUsage" => Op(t) = "getUsage"
           /\ Counts(AfterCommand(t)) => Counts(t) /\ Op(t) # "setUsage"
           /\ t[1] \in Limiting /\ Op(t) # "checkLimit" =>
                 AfterCommand(t) # <<>> /\ AfterCommand(t)[1] \in Limiting
           /\ Passed(t) /\ Op(t) \notin {"getCompleted", "getOwn"} => Passed(AfterCommand(t))
<1> DEFINE g == Head(t)
           u == AfterCommand(t)
<1>0. /\ t \in Seq(Begun)
      /\ \A i \in DOMAIN t : i > 1 => t[i] \in Whole
      /\ \A i, j \in DOMAIN t : t[i] \in Counting /\ t[j] \in Counting => i = j
      /\ Head(t) \in Creating => \E i \in DOMAIN t : t[i] \in Counting
  BY DEF Todos
<1>1. Len(t) \in Nat \ {0} /\ g = t[1] /\ 1 \in DOMAIN t /\ g \in Begun
  BY <1>0, TailOf
<1>a. Op(t) = Head(g)
  BY DEF Op
<1>b. u = IF Len(g) > 1 THEN <<Tail(g)>> \o Tail(t) ELSE Tail(t)
  BY DEF AfterCommand
<1>c. Head(t) = g
  OBVIOUS
<1> HIDE DEF g, u
<1>d. Going(g)
  BY <1>1, GoesOn
<1>2. CASE Len(g) = 1
  <2>1. u = Tail(t)
    BY <1>2, <1>b
  <2>2. Op(t) # "setPurchase" /\ (g \in Limiting => Op(t) = "checkLimit")
    BY <1>a, <1>d, <1>2 DEF Going
  <2>3. Op(t) = "setUsage" => g \in Counting
    BY <1>a, <1>d DEF Going
  <2>4. g \in Accessing => Op(t) = "getCompleted"
    BY <1>a, <1>d, <1>2 DEF Going
  <2>5. /\ Tail(t) \in Todos
        /\ Tail(t) # <<>> =>
              Op(Tail(t)) \notin {"hasPurchase", "setPurchase", "addPurchase", "confirm", "setUsage"}
        /\ Counts(Tail(t)) => Counts(t) /\ t[1] \notin Counting
        /\ Passed(t) /\ t[1] \notin Accessing => Passed(Tail(t))
    BY FunctionDropped
  <2> QED
    BY <2>1, <2>2, <2>3, <2>4, <2>5, <1>1 DEF u
<1>3. CASE Len(g) > 1
  <2> DEFINE h == Tail(g)
  <2>1. u = <<h>> \o Tail(t) /\ AfterStep(g, h) /\ h \in Begun
    BY <1>b, <1>d, <1>3 DEF Going, AfterStep
  <2>2. /\ u \in Seq(Begun) /\ u # <<>> /\ u[1] = h /\ DOMAIN u = DOMAIN t
        /\ \A i \in DOMAIN t : i > 1 => u[i] = t[i]
    BY <2>1, <1>0, FirstReplaced
  <2>3. Head(u) = h
    BY <2>2, TailOf
  <2>4. /\ Head(g) = "setPurchase" => Head(h) = "addPurchase"
        /\ g \in Limiting /\ Head(g) # "checkLimit" => h \in Limiting
        /\ Head(g) # "setUsage"
    <3>1. Head(g) = "setPurchase" => Head(h) = "addPurchase"
      BY <1>d, Zenon DEF Going
    <3>2. g \in Limiting /\ Head(g) # "checkLimit" => h \in Limiting
      BY <1>d, Zenon DEF Going
    <3>0. Len(g) \in Nat
      BY <1>d, Zenon DEF Going
    <3>3. Len(g) # 1
      <4>1. PICK n \in Nat : n = Len(g)
        BY <3>0
      <4>2. n > 1
        BY <4>1, <1>3
      <4> QED
        BY <4>1, <4>2
    <3>4. Head(g) # "setUsage"
      BY <1>d, <3>3, Zenon DEF Going
    <3> QED
      BY <3>1, <3>2, <3>4
  <2> HIDE DEF h
  <2>5. \A i \in DOMAIN t : i = 1 \/ i > 1
    <3>1. DOMAIN t = 1 .. Len(t)
      BY <1>0
    <3> QED
      BY <3>1, <1>1
  <2>6. \A i \in DOMAIN t : u[i] \in Counting <=> t[i] \in Counting
    BY <2>1, <2>2, <2>5, <1>1 DEF AfterStep
  <2>7. u \in Todos
    <3>1. \A i, j \in DOMAIN u : u[i] \in Counting /\ u[j] \in Counting => i = j
      BY <2>2, <2>6, <1>0
    <3>2. Head(u) \in Creating => \E i \in DOMAIN u : u[i] \in Counting
      BY <2>1, <2>2, <2>3, <2>6, <1>0, <1>c DEF AfterStep
    <3>3. \A i \in DOMAIN u : i > 1 => u[i] \in Whole
      BY <2>2, <1>0
    <3> QED
      BY <2>2, <3>1, <3>2, <3>3 DEF Todos
  <2>8. ASSUME Passed(t), Op(t) \notin {"getCompleted", "getOwn"} PROVE Passed(u)
    <3>1. Head(g) \notin {"getCompleted", "getOwn", "hasPurchase", "setPurchase", "serve"}
      BY <2>8, <1>a, <1>c DEF Passed, Op
    <3>2. Head(h) \notin {"hasPurchase", "setPurchase", "serve"}
      BY <3>1, <2>1 DEF AfterStep
    <3>3. \A i \in DOMAIN u : i > 1 /\ u[i] = <<"serve">> => u[1] \in Accessing
      BY <2>8, <2>1, <2>2, <1>1 DEF Passed, AfterStep
    <3> QED
      BY <2>3, <3>2, <3>3 DEF Passed, Op
  <2>9. Op(t) = Head(g) /\ Op(u) = Head(h)
    BY <2>3, <1>a DEF Op
  <2>10. Counts(u) => Counts(t)
    BY <2>2, <2>6 DEF Counts
  <2> QED
    BY <1>1, <2>1, <2>2, <2>4, <2>7, <2>8, <2>9, <2>10 DEF AfterStep, u
<1>4. Len(g) = 1 \/ Len(g) > 1
  BY <1>d DEF Going
<1> QED
  BY <1>2, <1>3, <1>4

\* A list a request may begin with.
StartsWell(f) ==
    /\ f \in Todos /\ f # <<>> /\ Passed(f)
    /\ Op(f) \notin {"addPurchase", "confirm", "setUsage"}
    /\ Counts(f) => f[1] \in Limiting

\* A plain function may be begun, and may be whole at the end of a route.
LEMMA PlainBegins ==
    ASSUME NEW g \in Plain
    PROVE  /\ g \in Begun /\ g \in Whole
           /\ g \notin Creating /\ g \notin Counting /\ g # <<"serve">>
           /\ Head(g) \notin Special
<1>1. Head(g) \notin Special
  BY PlainTail, OrdinaryIsNotSpecial
<1>2. <<"serve">> \in Named
  BY DEF Named, Fetching
<1> QED
  BY <1>1, <1>2, PlainIsNotNamed DEF Begun, Whole, Named

\* The named functions may be begun, and which of them count.
LEMMA NamedOnes ==
    /\ Usage \in Begun /\ Usage \in Whole /\ Usage \in Counting /\ Usage \notin Creating
    /\ Usage # <<"serve">> /\ Head(Usage) = "getUsage"
    /\ Buy \in Begun /\ Buy \in Whole /\ Buy \notin Counting /\ Buy # <<"serve">>
    /\ \A g \in Limiting : g \in Begun /\ g \notin Counting /\ Head(g) \in {"auth", "checkLimit"}
    /\ \A g \in Accessing : g \in Begun /\ g \notin Counting /\ g \notin Creating
                            /\ Head(g) \in {"auth", "hasAccess", "getCompleted"}
<1>1. /\ Head(Usage) = "getUsage" /\ Head(<<"serve">>) = "serve" /\ Head(Buy) = "getCompleted"
      /\ Head(<<"setUsage">>) = "setUsage"
  BY DEF Usage, Buy
<1>2. Usage \in Counting /\ Buy \in Buying
  BY DEF Counting, Buying
<1>3. \A g \in Counting : Head(g) \in {"getUsage", "setUsage"}
  BY <1>1 DEF Counting
<1>4. \A g \in Creating : Head(g) \in {"auth", "checkLimit", "create"}
  BY DEF Creating
<1>5. \A g \in Limiting : Head(g) \in {"auth", "checkLimit"}
  BY DEF Limiting
<1>6. \A g \in Accessing : Head(g) \in {"auth", "hasAccess", "getCompleted"}
  BY DEF Accessing
<1>7. \A g \in Accessing : g \notin Creating
  BY DEF Accessing, Creating
<1> QED
  BY <1>1, <1>2, <1>3, <1>4, <1>5, <1>6, <1>7 DEF Begun, Named, Whole

\* Lists of one function, ...
LEMMA One ==
    ASSUME NEW g \in Begun, g \notin Creating,
           Head(g) \notin {"hasPurchase", "setPurchase", "serve", "addPurchase", "confirm", "setUsage"}
    PROVE  /\ <<g>> \in Todos /\ <<g>> # <<>> /\ Passed(<<g>>)
           /\ Op(<<g>>) \notin {"addPurchase", "confirm", "setUsage"}
           /\ Counts(<<g>>) => g \in Counting
<1> DEFINE t == <<g>>
<1>1. t \in Seq(Begun) /\ t # <<>> /\ Head(t) = g /\ DOMAIN t = {1} /\ t[1] = g
  OBVIOUS
<1> HIDE DEF t
<1>2. \A i \in DOMAIN t : i = 1 /\ ~ (i > 1)
  BY <1>1
<1>3. t \in Todos
  BY <1>1, <1>2 DEF Todos
<1>4. Passed(t)
  BY <1>1, <1>2 DEF Passed, Op
<1> QED
  BY <1>1, <1>2, <1>3, <1>4 DEF Op, Counts, t

\* ... of two, ...
LEMMA Two ==
    ASSUME NEW g \in Begun, g \notin Counting, NEW h \in Whole, h # <<"serve">>,
           g \in Creating => h \in Counting,
           Head(g) \notin {"hasPurchase", "setPurchase", "serve", "addPurchase", "confirm", "setUsage"}
    PROVE  /\ <<g, h>> \in Todos /\ <<g, h>> # <<>> /\ Passed(<<g, h>>)
           /\ Op(<<g, h>>) \notin {"addPurchase", "confirm", "setUsage"}
           /\ Counts(<<g, h>>) => h \in Counting
           /\ <<g, h>>[1] = g
<1> DEFINE t == <<g, h>>
<1>0. h \in Begun
  BY WholeBegins
<1>1. /\ t \in Seq(Begun) /\ t # <<>> /\ Head(t) = g /\ DOMAIN t = {1, 2}
      /\ t[1] = g /\ t[2] = h
  BY <1>0
<1> HIDE DEF t
<1>2. ~ (1 > 1) /\ \A i \in DOMAIN t : i = 1 \/ i = 2
  BY <1>1
<1>3. t \in Todos
  BY <1>1, <1>2 DEF Todos
<1>4. Passed(t)
  BY <1>1, <1>2 DEF Passed, Op
<1> QED
  BY <1>1, <1>2, <1>3, <1>4 DEF Op, Counts, t

\* ... and the longer ones.
LEMMA Serving ==
    ASSUME NEW g \in Accessing, NEW h \in Plain
    PROVE  StartsWell(<<g, h, <<"serve">> >>)
<1> DEFINE s == <<"serve">>
           t == <<g, h, s>>
<1>0. /\ g \in Begun /\ g \notin Counting /\ g \notin Creating
      /\ Head(g) \in {"auth", "hasAccess", "getCompleted"}
      /\ h \in Begun /\ h \in Whole /\ h \notin Counting
  BY NamedOnes, PlainBegins
<1>1. s \in Whole /\ s \in Begun /\ s \notin Counting
  <2>1. Head(s) = "serve" /\ s \in Whole
    BY DEF Whole
  <2>2. \A x \in Counting : Head(x) \in {"getUsage", "setUsage"}
    BY NamedFollows DEF Follows, Named
  <2> HIDE DEF s
  <2> QED
    BY <2>1, <2>2, WholeBegins
<1> HIDE DEF s
<1>2. /\ t \in Seq(Begun) /\ t # <<>> /\ Head(t) = g /\ DOMAIN t = {1, 2, 3}
      /\ t[1] = g /\ t[2] = h /\ t[3] = s
  BY <1>0, <1>1
<1> HIDE DEF t
<1>3. ~ (1 > 1) /\ \A i \in DOMAIN t : i = 1 \/ i = 2 \/ i = 3
  BY <1>2
<1>4. \A i \in DOMAIN t : t[i] \notin Counting
  BY <1>0, <1>1, <1>2, <1>3
<1>5. t \in Todos
  BY <1>0, <1>1, <1>2, <1>3, <1>4 DEF Todos
<1>6. Passed(t)
  BY <1>0, <1>2 DEF Passed, Op
<1> QED
  BY <1>0, <1>2, <1>4, <1>5, <1>6 DEF StartsWell, Op, Counts, t, s

\* The routes that make a job check the limit, do three plain functions, then count and buy.
LEMMA Scraping ==
    ASSUME NEW g \in Limiting, NEW a \in Plain, NEW b \in Plain, NEW d \in Plain
    PROVE  StartsWell(<<g, a, b, d, Usage, Buy>>)
<1> DEFINE t == <<g, a, b, d, Usage, Buy>>
<1>0. g \in Begun /\ g \notin Counting /\ Head(g) \in {"auth", "checkLimit"}
  BY NamedOnes
<1>a. /\ a \in Begun /\ a \in Whole /\ a \notin Counting /\ a # <<"serve">>
      /\ b \in Begun /\ b \in Whole /\ b \notin Counting /\ b # <<"serve">>
      /\ d \in Begun /\ d \in Whole /\ d \notin Counting /\ d # <<"serve">>
  BY PlainBegins
<1>1. /\ t \in Seq(Begun) /\ t # <<>> /\ Head(t) = g /\ DOMAIN t = {1, 2, 3, 4, 5, 6}
      /\ t[1] = g /\ t[2] = a /\ t[3] = b /\ t[4] = d /\ t[5] = Usage /\ t[6] = Buy
  BY <1>0, <1>a, NamedOnes
<1> HIDE DEF t
<1>2. /\ ~ (1 > 1)
      /\ \A i \in DOMAIN t : i = 1 \/ i = 2 \/ i = 3 \/ i = 4 \/ i = 5 \/ i = 6
  BY <1>1
<1>3. \A i \in DOMAIN t : (i > 1 => t[i] \in Whole /\ t[i] # <<"serve">>)
  BY <1>a, <1>1, <1>2, NamedOnes
<1>4. \A i \in DOMAIN t : t[i] \in Counting <=> i = 5
  BY <1>0, <1>a, <1>1, <1>2, NamedOnes
<1>5. t \in Todos
  <2>1. \A i, j \in DOMAIN t : t[i] \in Counting /\ t[j] \in Counting => i = j
    BY <1>4
  <2>2. \E i \in DOMAIN t : t[i] \in Counting
    BY <1>1, <1>4
  <2> QED
    BY <1>1, <1>3, <2>1, <2>2 DEF Todos
<1>6. Passed(t)
  BY <1>0, <1>1, <1>3 DEF Passed, Op
<1> QED
  BY <1>0, <1>1, <1>5, <1>6 DEF StartsWell, Op, t

\* Routes of ordinary commands only.
LEMMA PlainOnes ==
    /\ <<"setKey">> \in Plain /\ <<"wait">> \in Plain /\ <<"emitError">> \in Plain
    /\ \A x \in Contents : <<x>> \in Plain
    /\ \A s \in JobStates : To(s) \in Plain
    /\ Price \in Plain /\ <<"getJob", "countView">> \in Plain
    /\ <<"cached", "getJob", "countView", "remember">> \in Plain
    /\ <<"getJob", "del", "unlist">> \in Plain
    /\ <<"auth", "getUnpriced", "getJob", "setPrice">> \in Plain
<1>1. /\ {"auth", "setKey", "getJob", "unlist", "list", "wait", "setPrice", "cached",
          "countView", "remember", "getUnpriced", "del", "emitError"} \subseteq Ordinary
      /\ JobStates \subseteq Ordinary /\ Contents \subseteq Ordinary
  BY DEF Ordinary
<1> HIDE DEF Ordinary
<1>2. <<"setKey">> \in Plain /\ <<"wait">> \in Plain /\ <<"emitError">> \in Plain
  BY <1>1 DEF Plain
<1>3. \A x \in Contents : <<x>> \in Plain
  BY <1>1 DEF Plain
<1>4. \A s \in JobStates : To(s) \in Plain
  BY <1>1 DEF Plain, To
<1>5. Price \in Plain /\ <<"getJob", "countView">> \in Plain
  BY <1>1 DEF Plain, Price
<1>6. <<"cached", "getJob", "countView", "remember">> \in Plain
  BY <1>1 DEF Plain
<1>7. <<"getJob", "del", "unlist">> \in Plain
  BY <1>1 DEF Plain
<1>8. <<"auth", "getUnpriced", "getJob", "setPrice">> \in Plain
  BY <1>1 DEF Plain
<1> QED
  BY <1>2, <1>3, <1>4, <1>5, <1>6, <1>7, <1>8

\* One ordinary command is a plain function.
LEMMA OnePlain ==
    ASSUME NEW g \in Plain
    PROVE  StartsWell(<<g>>) /\ ~ Counts(<<g>>)
<1>1. /\ g \in Begun /\ g \notin Creating /\ g \notin Counting
      /\ Head(g) \notin {"hasPurchase", "setPurchase", "serve", "addPurchase", "confirm", "setUsage"}
  BY PlainBegins DEF Special
<1> QED
  BY <1>1, One DEF StartsWell

\* Two ordinary commands are a plain function.
LEMMA TwoPlain ==
    ASSUME NEW g \in Plain, NEW h \in Plain
    PROVE  StartsWell(<<g, h>>) /\ ~ Counts(<<g, h>>)
<1>1. /\ g \in Begun /\ g \notin Creating /\ g \notin Counting
      /\ Head(g) \notin {"hasPurchase", "setPurchase", "serve", "addPurchase", "confirm", "setUsage"}
      /\ h \in Whole /\ h # <<"serve">> /\ h \notin Counting
  BY PlainBegins DEF Special
<1> QED
  BY <1>1, Two DEF StartsWell

\* One command before others.
LEMMA ConcatTwo ==
    ASSUME NEW x, NEW y, NEW a, NEW b
    PROVE  <<x, y>> \o <<a, b>> = <<x, y, a, b>>
<1> DEFINE S == {x, y, a, b}
           r == <<x, y>> \o <<a, b>>
           t == <<x, y, a, b>>
<1>1. /\ r \in Seq(S) /\ Len(r) = 4
      /\ r[1] = x /\ r[2] = y /\ r[3] = a /\ r[4] = b
  OBVIOUS
<1>2. /\ t \in Seq(S) /\ Len(t) = 4
      /\ t[1] = x /\ t[2] = y /\ t[3] = a /\ t[4] = b
  OBVIOUS
<1> HIDE DEF r, t
<1>3. \A i \in 1 .. 4 : i = 1 \/ i = 2 \/ i = 3 \/ i = 4
  OBVIOUS
<1>4. r = t
  BY <1>1, <1>2, <1>3, SeqEqual
<1> QED
  BY <1>4 DEF r, t

\* Putting one element before five makes six.
LEMMA ConcatFive ==
    ASSUME NEW x, NEW a, NEW b, NEW c, NEW d, NEW e
    PROVE  <<x>> \o <<a, b, c, d, e>> = <<x, a, b, c, d, e>>
<1> DEFINE S == {x, a, b, c, d, e}
           r == <<x>> \o <<a, b, c, d, e>>
           t == <<x, a, b, c, d, e>>
<1>1. /\ r \in Seq(S) /\ Len(r) = 6
      /\ r[1] = x /\ r[2] = a /\ r[3] = b /\ r[4] = c /\ r[5] = d /\ r[6] = e
  OBVIOUS
<1>2. /\ t \in Seq(S) /\ Len(t) = 6
      /\ t[1] = x /\ t[2] = a /\ t[3] = b /\ t[4] = c /\ t[5] = d /\ t[6] = e
  OBVIOUS
<1> HIDE DEF r, t
<1>3. \A i \in 1 .. 6 : i = 1 \/ i = 2 \/ i = 3 \/ i = 4 \/ i = 5 \/ i = 6
  OBVIOUS
<1>4. r = t
  BY <1>1, <1>2, <1>3, SeqEqual
<1> QED
  BY <1>4 DEF r, t

\* Every route begins with such a list; one without a key counts nothing.
LEMMA RoutesStart == \A f \in WithKey : StartsWell(f)
<1>1. StartsWell(RegisterClient)
  BY PlainOnes, OnePlain DEF RegisterClient
<1>2. StartsWell(AddJob)
  <2> DEFINE g == <<"auth", "checkLimit">>
  <2>1. g \in Limiting /\ g \notin Creating
    BY DEF Limiting, Creating
  <2>2. AddJob = <<g, Usage>>
    BY DEF AddJob
  <2> HIDE DEF g
  <2>3. g \in Begun /\ g \notin Counting /\ Head(g) \in {"auth", "checkLimit"}
    BY <2>1, NamedOnes
  <2>4. Usage \in Whole /\ Usage # <<"serve">>
    BY NamedOnes
  <2> QED
    BY <2>1, <2>2, <2>3, <2>4, Two DEF StartsWell
<1>3. StartsWell(ScrapeUrl)
  <2> DEFINE g == <<"auth", "checkLimit", "create">>
             w == <<"wait">>
  <2>1. g \in Limiting
    BY DEF Limiting
  <2>2. ScrapeUrl = <<g, To("ongoing"), w, Price, Usage, Buy>>
    BY DEF ScrapeUrl
  <2>3. To("ongoing") \in Plain /\ w \in Plain /\ Price \in Plain
    BY PlainOnes DEF JobStates
  <2> HIDE DEF g, w
  <2> QED
    BY <2>1, <2>2, <2>3, Scraping
<1>4. StartsWell(Purchase)
  <2> DEFINE g == <<"auth">> \o Buy
  <2>1. g = <<"auth", "getCompleted", "hasPurchase", "setPurchase", "addPurchase", "confirm">>
    BY ConcatFive DEF Buy
  <2>2. g \in Buying /\ Head(g) = "auth"
    BY <2>1 DEF Buying
  <2>3. Purchase = <<g>>
    BY DEF Purchase
  <2> HIDE DEF g
  <2>4. g \in Begun /\ g \in Named
    BY <2>2 DEF Begun, Named
  <2>5. g \notin Creating /\ g \notin Counting
    BY <2>2 DEF Buying, Buy, Creating, Counting, Usage
  <2> QED
    BY <2>2, <2>3, <2>4, <2>5, One DEF StartsWell
<1>5. StartsWell(MarketDownload)
  <2> DEFINE g == <<"auth", "hasAccess", "getCompleted">>
             h == <<"getJob", "countView">>
  <2>1. g \in Accessing /\ h \in Plain
    BY PlainOnes DEF Accessing
  <2>2. MarketDownload = <<g, h, <<"serve">> >>
    BY DEF MarketDownload
  <2> HIDE DEF g, h
  <2> QED
    BY <2>1, <2>2, Serving
<1>6. StartsWell(GetFileContent)
  <2> DEFINE g == <<"auth", "getOwn", "serve">>
  <2>1. g \in Fetching /\ Head(g) = "auth"
    BY DEF Fetching
  <2>2. g \notin Creating /\ g \notin Counting
    BY DEF Creating, Counting, Usage
  <2>3. GetFileContent = <<g>>
    BY DEF GetFileContent
  <2> HIDE DEF g
  <2>4. g \in Begun
    BY <2>1 DEF Begun, Named
  <2> QED
    BY <2>1, <2>2, <2>3, <2>4, One DEF StartsWell
<1>7. StartsWell(Reprice)
  <2> DEFINE g == <<"auth", "getUnpriced">> \o Price
  <2>1. g = <<"auth", "getUnpriced", "getJob", "setPrice">>
    BY ConcatTwo DEF Price
  <2>2. Reprice = <<g>>
    BY DEF Reprice
  <2> HIDE DEF g
  <2> QED
    BY <2>1, <2>2, PlainOnes, OnePlain
<1> QED
  BY <1>1, <1>2, <1>3, <1>4, <1>5, <1>6, <1>7 DEF WithKey, JobDownload

\* The routes that need no key start well and count nothing.
LEMMA OpenRoutesStart == \A f \in WithoutKey : StartsWell(f) /\ ~ Counts(f)
<1>1. StartsWell(Details) /\ ~ Counts(Details)
  BY PlainOnes, OnePlain DEF Details
<1>2. StartsWell(CleanupOldJobs) /\ ~ Counts(CleanupOldJobs)
  BY PlainOnes, OnePlain DEF CleanupOldJobs
<1> QED
  BY <1>1, <1>2 DEF WithoutKey

\* So do the handlers of an answer.
LEMMA AnswersStart ==
    /\ StartsWell(<< To("failed"), <<"emitError">> >>) /\ ~ Counts(<< To("failed"), <<"emitError">> >>)
    /\ \A x \in Contents : /\ StartsWell(<< To("completed"), <<x>> >>)
                           /\ ~ Counts(<< To("completed"), <<x>> >>)
    /\ StartsWell(<<To("failed")>>) /\ ~ Counts(<<To("failed")>>)
BY PlainOnes, OnePlain, TwoPlain DEF JobStates

\* A scrape for another's job goes on to count.
LEMMA UsageLeft ==
    /\ <<Usage>> \in Todos /\ <<Usage>> # <<>> /\ Passed(<<Usage>>) /\ Op(<<Usage>>) = "getUsage"
    /\ Counts(<<Usage>>) /\ <<Usage>>[1] \notin Limiting
<1>1. /\ Usage \in Begun /\ Usage \in Counting /\ Usage \notin Creating /\ Head(Usage) = "getUsage"
      /\ Usage \notin Limiting
  BY NamedOnes
<1>2. <<Usage>> \in Todos /\ <<Usage>> # <<>> /\ Passed(<<Usage>>)
  BY <1>1, One
<1>3. Head(<<Usage>>) = Usage /\ <<Usage>>[1] = Usage /\ 1 \in DOMAIN <<Usage>>
  OBVIOUS
<1> QED
  BY <1>1, <1>2, <1>3 DEF Op, Counts

-----------------------------------------------------------------------------
\* What a request does to the calls when it begins, ...
Begins(c) ==
    /\ mkCall' \in [MkCalls -> CallRecords]
    /\ \A d \in MkCalls : d # c => mkCall'[d] = mkCall[d]
    /\ mkCall[c] = IdleCall
    /\ StartsWell(mkCall'[c].todo) /\ NeverSaid(mkCall'[c].old)
    /\ Counts(mkCall'[c].todo) => mkCall'[c].user \in MkUsers
    /\ mkLoose \subseteq mkLoose'
    /\ \A d \in MkCalls : Busy(d) /\ mkCall[d].user = mkCall'[c].user /\ mkCall[d].user \in MkUsers =>
          mkCall[d].user \in mkLoose'

\* ... and at every step of its own: from the list t to u.
Advances(t, u) ==
    /\ t # <<>>
    /\ u \in Todos
    /\ Op(t) = "setPurchase" => u # <<>> /\ Op(u) = "addPurchase"
    /\ u # <<>> =>
          /\ Op(u) = "addPurchase" => Op(t) = "setPurchase"
          /\ Op(u) = "confirm" => Op(t) = "addPurchase"
          /\ Op(u) = "setUsage" => Op(t) = "getUsage"
    /\ Counts(u) => /\ Counts(t) /\ Op(t) # "setUsage"
                    /\ t[1] \in Limiting /\ Op(t) # "checkLimit" => u[1] \in Limiting
    /\ Passed(t) /\ Op(t) \notin {"getCompleted", "getOwn"} => Passed(u)
Moves(c) ==
    /\ mkCall' \in [MkCalls -> CallRecords]
    /\ \A d \in MkCalls : d # c => mkCall'[d] = mkCall[d]
    /\ Advances(mkCall[c].todo, mkCall'[c].todo)
    /\ mkCall'[c].todo # <<>> => mkCall'[c].user = mkCall[c].user
    /\ mkCall'[c].old \in {mkCall[c].old, mkJob, NoRecord}
    /\ Op(mkCall[c].todo) = "getUsage" /\ mkCall'[c].todo # <<>> =>
          mkCall'[c].usage = mkUsage[mkCall[c].user]

\* Nothing left to do: that counts nothing and passed everything.
LEMMA NoneLeft == <<>> \in Todos /\ ~ Counts(<<>>) /\ Passed(<<>>)
<1>1. <<>> \in Seq(Begun) /\ DOMAIN <<>> = {}
  OBVIOUS
<1> QED
  BY <1>1 DEF Todos, Counts, Passed

\* A request that leaves its first command behind advances.
LEMMA AdvancesByCommand ==
    ASSUME NEW t \in Todos, t # <<>> PROVE Advances(t, AfterCommand(t))
<1> DEFINE u == AfterCommand(t)
<1>1. /\ u \in Todos
      /\ Op(t) = "setPurchase" => u # <<>> /\ Op(u) = "addPurchase"
      /\ u # <<>> =>
            /\ Op(u) = "addPurchase" => Op(t) = "setPurchase"
            /\ Op(u) = "confirm" => Op(t) = "addPurchase"
            /\ Op(u) = "setUsage" => Op(t) = "getUsage"
      /\ Counts(u) => Counts(t) /\ Op(t) # "setUsage"
      /\ t[1] \in Limiting /\ Op(t) # "checkLimit" => u # <<>> /\ u[1] \in Limiting
      /\ Passed(t) /\ Op(t) \notin {"getCompleted", "getOwn"} => Passed(u)
  BY CommandDone
<1> HIDE DEF u
<1>2. Advances(t, u)
  BY <1>1, Zenon DEF Advances
<1> QED
  BY <1>2 DEF u

\* What the first command says of the first function.
LEMMA FirstOf ==
    ASSUME NEW t \in Todos, t # <<>>
    PROVE  /\ Op(t) \in {"setUsage", "getUsage"} => Counts(t) /\ t[1] \notin Limiting
           /\ t[1] \in Limiting => Op(t) \in {"auth", "checkLimit"}
           /\ t[1] \in Accessing => Op(t) \in {"auth", "hasAccess", "getCompleted"}
           /\ Op(t) = "checkLimit" => t[1] \in Limiting
           /\ Op(t) = "create" => Counts(t)
           /\ t[1] \in Counting => Op(t) \in {"setUsage", "getUsage"}
<1>1. /\ 1 \in DOMAIN t /\ t[1] = Head(t) /\ t[1] \in Begun
      /\ Head(t) \in Creating => \E i \in DOMAIN t : t[i] \in Counting
  BY TailOf DEF Todos
<1>2. Going(t[1]) /\ Op(t) = Head(t[1])
  BY <1>1, GoesOn DEF Op
<1> QED
  BY <1>1, <1>2 DEF Going, Counts

\* ... when there is a next command,
LEMMA AdvancesToNext ==
    ASSUME NEW t \in Todos, t # <<>>, Op(t) \in {"getJob", "hasPurchase"} \cup JobStates
    PROVE  Advances(t, Tail(t))
<1> DEFINE u == Tail(t)
<1>1. /\ u \in Todos
      /\ u # <<>> =>
            Op(u) \notin {"hasPurchase", "setPurchase", "addPurchase", "confirm", "setUsage"}
      /\ Counts(u) => Counts(t) /\ t[1] \notin Counting
      /\ Passed(t) /\ t[1] \notin Accessing => Passed(u)
  BY FunctionDropped
<1>2. /\ Op(t) \notin {"setPurchase", "setUsage"}
      /\ t[1] \notin Limiting /\ t[1] \notin Accessing
  BY FirstOf DEF JobStates
<1> HIDE DEF u
<1>3. Advances(t, u)
  BY <1>1, <1>2 DEF Advances
<1> QED
  BY <1>3 DEF u

\* ... when there is none,
LEMMA AdvancesToEnd ==
    ASSUME NEW t \in Todos, t # <<>>, Op(t) # "setPurchase" PROVE Advances(t, <<>>)
BY NoneLeft DEF Advances

\* ... when it goes on to count its use,
LEMMA AdvancesToUsage ==
    ASSUME NEW t \in Todos, t # <<>>, Op(t) = "create" PROVE Advances(t, <<Usage>>)
<1>1. Counts(t) /\ t[1] \notin Limiting
  BY FirstOf
<1> DEFINE u == <<Usage>>
<1>2. /\ u \in Todos /\ u # <<>> /\ Passed(u) /\ Op(u) = "getUsage"
  BY UsageLeft
<1> HIDE DEF u
<1> QED
  BY <1>1, <1>2 DEF Advances, u

\* ... and when it goes on to fail the job.
LEMMA AdvancesToFailed ==
    ASSUME NEW t \in Todos, t # <<>>, Op(t) = "wait" PROVE Advances(t, <<To("failed")>>)
<1> DEFINE u == <<To("failed")>>
<1>1. StartsWell(u) /\ ~ Counts(u)
  BY AnswersStart
<1> HIDE DEF u
<1> QED
  BY <1>1 DEF Advances, StartsWell, u

\* How a step replaces the list of a call.
LEMMA EndsWithMoves ==
    ASSUME MkTypeOK, NEW c \in MkCalls, NEW f, EndsWith(c, f),
           Advances(mkCall[c].todo, f), Op(mkCall[c].todo) # "getUsage"
    PROVE  Moves(c)
<1>1. /\ mkCall \in [MkCalls -> CallRecords] /\ mkCall[c] \in CallRecords /\ f \in Todos
  BY DEF MkTypeOK, Advances
<1>2. CASE f = <<>>
  <2>1. /\ Over \in CallRecords /\ Over.todo = <<>> /\ Over.old = NoRecord
    BY NoneLeft DEF Over, IdleCall, CallRecords, JobRecords, NoRecord
  <2>2. mkCall' = [mkCall EXCEPT ![c] = Over]
    BY <1>2 DEF EndsWith
  <2>3. mkCall' \in [MkCalls -> CallRecords] /\ mkCall'[c] = Over
        /\ \A d \in MkCalls : d # c => mkCall'[d] = mkCall[d]
    BY <1>1, <2>1, <2>2
  <2> QED
    BY <1>2, <2>1, <2>3 DEF Moves
<1>3. CASE f # <<>>
  <2> DEFINE r == [mkCall[c] EXCEPT !.todo = f]
  <2>1. /\ r \in CallRecords /\ r.todo = f /\ r.old = mkCall[c].old /\ r.user = mkCall[c].user
    BY <1>1 DEF CallRecords
  <2>2. mkCall' = [mkCall EXCEPT ![c] = r]
    BY <1>3 DEF EndsWith
  <2> HIDE DEF r
  <2>3. mkCall' \in [MkCalls -> CallRecords] /\ mkCall'[c] = r
        /\ \A d \in MkCalls : d # c => mkCall'[d] = mkCall[d]
    BY <1>1, <2>1, <2>2
  <2> QED
    BY <1>3, <2>1, <2>3 DEF Moves
<1> QED
  BY <1>2, <1>3

\* What a request has left is a function it may have left.
LEMMA TodoType ==
    ASSUME MkTypeOK, NEW c \in MkCalls
    PROVE  mkCall[c].todo \in Todos /\ mkCall[c] \in CallRecords
BY DEF MkTypeOK, CallRecords

\* A step that goes on to the next command moves its request.
LEMMA ContinueMoves ==
    ASSUME MkTypeOK, NEW c \in MkCalls, Busy(c), Continue(c), Op(mkCall[c].todo) # "getUsage"
    PROVE  Moves(c)
BY TodoType, AdvancesByCommand, EndsWithMoves DEF Continue, Busy

\* So does one that fails,
LEMMA FailsMoves ==
    ASSUME MkTypeOK, NEW c \in MkCalls, Busy(c), Fails(c),
           Op(mkCall[c].todo) \in {"getJob", "hasPurchase"} \cup JobStates
    PROVE  Moves(c)
<1>1. Op(mkCall[c].todo) # "getUsage"
  BY DEF JobStates
<1> QED
  BY <1>1, TodoType, AdvancesToNext, EndsWithMoves DEF Fails, Busy

\* and one that ends the request.
LEMMA EndMoves ==
    ASSUME MkTypeOK, NEW c \in MkCalls, Busy(c), EndsWith(c, <<>>),
           Op(mkCall[c].todo) \notin {"getUsage", "setPurchase"}
    PROVE  Moves(c)
BY TodoType, AdvancesToEnd, EndsWithMoves DEF Busy

\* Requests and answers begin.
LEMMA StartsBegins ==
    ASSUME MkTypeOK, NEW c \in MkCalls, NEW f, NEW u \in MkUsers \cup {Nobody}, Starts(c, f, u),
           StartsWell(f), Counts(f) => u \in MkUsers
    PROVE  Begins(c)
<1>1. mkCall \in [MkCalls -> CallRecords] /\ mkCall[c] = IdleCall /\ IdleCall \in CallRecords
  BY DEF MkTypeOK, Starts
<1>2. PICK r1 : r1 = [IdleCall EXCEPT !.user = u]
  OBVIOUS
<1>3. PICK r : r = [r1 EXCEPT !.todo = f]
  OBVIOUS
<1>4. r1 \in CallRecords /\ r1.user = u /\ r1.old = NoRecord
  BY <1>1, <1>2 DEF CallRecords, IdleCall
<1>5. r \in CallRecords /\ r.user = u /\ r.old = NoRecord /\ r.todo = f
  BY <1>3, <1>4 DEF CallRecords, StartsWell
<1>6. mkCall' = [mkCall EXCEPT ![c] = r]
  <2>1. mkCall' = [[mkCall EXCEPT ![c] = [mkCall[c] EXCEPT !.user = u]] EXCEPT ![c] = [[mkCall[c] EXCEPT !.user = u] EXCEPT !.todo = f]]
    BY <1>1 DEF Starts
  <2>2. mkCall' = [[mkCall EXCEPT ![c] = r1] EXCEPT ![c] = r]
    BY <2>1, <1>1, <1>2, <1>3
  <2> QED
    BY <2>2, <1>1
<1>7. mkCall' \in [MkCalls -> CallRecords] /\ mkCall'[c] = r
      /\ \A d \in MkCalls : d # c => mkCall'[d] = mkCall[d]
  BY <1>1, <1>5, <1>6
<1>8. NeverSaid(NoRecord)
  BY DEF NeverSaid, NoRecord
<1>9. /\ mkCall'[c].todo = f /\ mkCall'[c].old = NoRecord /\ mkCall'[c].user = u
  BY <1>5, <1>7
<1>10. /\ mkLoose \subseteq mkLoose'
       /\ \A d \in MkCalls : Busy(d) /\ mkCall[d].user = u /\ u \in MkUsers => u \in mkLoose'
  BY MkAssumption DEF Starts
<1> QED
  BY <1>1, <1>7, <1>8, <1>9, <1>10 DEF Begins

\* A new request begins a function that starts well.
LEMMA RequestBegins ==
    ASSUME MkTypeOK, NEW c \in MkCalls, MkRequest(c) PROVE Begins(c)
<1>1. CASE \E f \in WithKey, u \in MkUsers : Starts(c, f, u)
  BY <1>1, RoutesStart, StartsBegins
<1>2. CASE \E f \in WithoutKey : Starts(c, f, Nobody)
  BY <1>2, OpenRoutesStart, StartsBegins
<1> QED
  BY <1>1, <1>2 DEF MkRequest

\* So does an answer frame.
LEMMA AnswerBegins ==
    ASSUME MkTypeOK, NEW c \in MkCalls, AnswerArrives(c) PROVE Begins(c)
<1>1. mkCall \in [MkCalls -> CallRecords] /\ mkCall[c] = IdleCall /\ IdleCall \in CallRecords
  BY DEF MkTypeOK, AnswerArrives
<1>2. PICK f : /\ StartsWell(f) /\ ~ Counts(f)
               /\ mkCall' = [mkCall EXCEPT ![c].todo = f]
  BY AnswersStart DEF AnswerArrives
<1>3. PICK r : r = [IdleCall EXCEPT !.todo = f]
  OBVIOUS
<1>4. r \in CallRecords /\ r.old = NoRecord /\ r.todo = f /\ r.user = Nobody
  BY <1>1, <1>2, <1>3 DEF CallRecords, StartsWell, IdleCall
<1>5. mkCall' = [mkCall EXCEPT ![c] = r]
  BY <1>1, <1>2, <1>3
<1>6. mkCall' \in [MkCalls -> CallRecords] /\ mkCall'[c] = r
      /\ \A d \in MkCalls : d # c => mkCall'[d] = mkCall[d]
  BY <1>1, <1>4, <1>5
<1>7. NeverSaid(NoRecord)
  BY DEF NeverSaid, NoRecord
<1>8. /\ mkCall'[c].todo = f /\ mkCall'[c].old = NoRecord /\ mkCall'[c].user = Nobody
  BY <1>4, <1>6
<1>9. mkLoose' = mkLoose /\ Nobody \notin MkUsers
  BY MkAssumption DEF AnswerArrives, mkHistory
<1> QED
  BY <1>1, <1>2, <1>6, <1>7, <1>8, <1>9 DEF Begins

\* Every other step of a request moves it on.
LEMMA AtOp ==
    ASSUME NEW c, NEW op, At(c, op)
    PROVE  Busy(c) /\ mkCall[c].todo # <<>> /\ Op(mkCall[c].todo) = op
BY DEF At, Busy, Op

\* Each action of a request moves it: the middleware and the keys,
LEMMA AuthorizesMoves == ASSUME MkTypeOK, NEW c \in MkCalls, Authorizes(c) PROVE Moves(c)
BY AtOp, ContinueMoves, EndMoves DEF Authorizes

LEMMA CheckMoves == ASSUME MkTypeOK, NEW c \in MkCalls, CheckRateLimit(c) PROVE Moves(c)
BY AtOp, ContinueMoves, EndMoves DEF CheckRateLimit

LEMMA GetUsageMoves == ASSUME MkTypeOK, NEW c \in MkCalls, GetUsage(c) PROVE Moves(c)
<1>1. /\ mkCall[c].todo # <<>> /\ Op(mkCall[c].todo) = "getUsage"
      /\ mkCall \in [MkCalls -> CallRecords] /\ mkCall[c] \in CallRecords
      /\ mkCall[c].todo \in Todos
  BY AtOp, TodoType DEF GetUsage, MkTypeOK
<1>2. mkUsage[mkCall[c].user] \in Nat
  BY <1>1, FirstOf DEF MkTypeOK
<1>3. PICK n \in Nat : n = mkUsage[mkCall[c].user]
  BY <1>2
<1>4. PICK u : u = AfterCommand(mkCall[c].todo)
  OBVIOUS
<1>5. Advances(mkCall[c].todo, u) /\ u \in Todos
  BY <1>1, <1>4, AdvancesByCommand DEF Advances
<1>6. PICK r1 : r1 = [mkCall[c] EXCEPT !.todo = u]
  OBVIOUS
<1>7. PICK r : r = [r1 EXCEPT !.usage = n]
  OBVIOUS
<1>8. r1 \in CallRecords /\ r1.user = mkCall[c].user /\ r1.old = mkCall[c].old /\ r1.todo = u
  BY <1>1, <1>5, <1>6 DEF CallRecords
<1>9. r \in CallRecords /\ r.user = mkCall[c].user /\ r.old = mkCall[c].old /\ r.todo = u /\ r.usage = n
  BY <1>7, <1>8 DEF CallRecords
<1>10. mkCall' = [mkCall EXCEPT ![c] = r]
  <2>1. mkCall' = [[mkCall EXCEPT ![c] = [mkCall[c] EXCEPT !.todo = u]] EXCEPT ![c] = [[mkCall[c] EXCEPT !.todo = u] EXCEPT !.usage = n]]
    BY <1>1, <1>3, <1>4 DEF GetUsage
  <2>2. mkCall' = [[mkCall EXCEPT ![c] = r1] EXCEPT ![c] = r]
    BY <2>1, <1>6, <1>7
  <2> QED
    BY <2>2, <1>1
<1>11. mkCall' \in [MkCalls -> CallRecords] /\ mkCall'[c] = r
      /\ \A d \in MkCalls : d # c => mkCall'[d] = mkCall[d]
  BY <1>1, <1>9, <1>10
<1> QED
  BY <1>1, <1>3, <1>5, <1>9, <1>11 DEF Moves

LEMMA IncrementMoves == ASSUME MkTypeOK, NEW c \in MkCalls, IncrementAPIUsage(c) PROVE Moves(c)
BY AtOp, ContinueMoves DEF IncrementAPIUsage

LEMMA CreateKeyMoves == ASSUME MkTypeOK, NEW c \in MkCalls, CreateAPIKey(c) PROVE Moves(c)
BY AtOp, ContinueMoves DEF CreateAPIKey

LEMMA CreateMoves == ASSUME MkTypeOK, NEW c \in MkCalls, Create(c) PROVE Moves(c)
<1>1. Busy(c) /\ mkCall[c].todo # <<>> /\ Op(mkCall[c].todo) = "create" /\ mkCall[c].todo \in Todos
  BY AtOp, TodoType DEF Create
<1>2. CASE Continue(c)
  BY <1>1, <1>2, ContinueMoves
<1>3. CASE EndsWith(c, <<>>)
  BY <1>1, <1>3, EndMoves
<1>4. CASE EndsWith(c, <<Usage>>)
  BY <1>1, <1>4, AdvancesToUsage, EndsWithMoves
<1> QED
  BY <1>2, <1>3, <1>4 DEF Create

\* A call that goes on with a field of its own replaced.
LEMMA OldMoves ==
    ASSUME MkTypeOK, NEW c \in MkCalls, Busy(c), Op(mkCall[c].todo) # "getUsage",
           mkCall' = [mkCall EXCEPT ![c] = [@ EXCEPT !.todo = AfterCommand(mkCall[c].todo), !.old = mkJob]]
    PROVE  Moves(c)
<1>1. /\ mkCall[c].todo # <<>> /\ mkCall[c].todo \in Todos
      /\ mkCall \in [MkCalls -> CallRecords] /\ mkCall[c] \in CallRecords
  BY TodoType DEF MkTypeOK, Busy
<1>3. PICK n \in JobRecords : n = mkJob
  BY DEF MkTypeOK
<1>4. PICK u : u = AfterCommand(mkCall[c].todo)
  OBVIOUS
<1>5. Advances(mkCall[c].todo, u) /\ u \in Todos
  BY <1>1, <1>4, AdvancesByCommand DEF Advances
<1>6. PICK r1 : r1 = [mkCall[c] EXCEPT !.todo = u]
  OBVIOUS
<1>7. PICK r : r = [r1 EXCEPT !.old = n]
  OBVIOUS
<1>8. r1 \in CallRecords /\ r1.user = mkCall[c].user /\ r1.todo = u
  BY <1>1, <1>5, <1>6 DEF CallRecords
<1>9. r \in CallRecords /\ r.user = mkCall[c].user /\ r.todo = u /\ r.old = n
  BY <1>7, <1>8 DEF CallRecords
<1>10. mkCall' = [mkCall EXCEPT ![c] = r]
  <2>1. mkCall' = [[mkCall EXCEPT ![c] = [mkCall[c] EXCEPT !.todo = u]] EXCEPT ![c] = [[mkCall[c] EXCEPT !.todo = u] EXCEPT !.old = n]]
    BY <1>1, <1>3, <1>4
  <2>2. mkCall' = [[mkCall EXCEPT ![c] = r1] EXCEPT ![c] = r]
    BY <2>1, <1>6, <1>7
  <2> QED
    BY <2>2, <1>1
<1>11. mkCall' \in [MkCalls -> CallRecords] /\ mkCall'[c] = r
      /\ \A d \in MkCalls : d # c => mkCall'[d] = mkCall[d]
  BY <1>1, <1>9, <1>10
<1> QED
  BY <1>1, <1>3, <1>5, <1>9, <1>11 DEF Moves

\* A step that says what state the job is to get moves its request,
LEMMA NewMoves ==
    ASSUME MkTypeOK, NEW c \in MkCalls, Busy(c), Op(mkCall[c].todo) # "getUsage", NEW s \in JobStates,
           mkCall' = [mkCall EXCEPT ![c] = [@ EXCEPT !.todo = AfterCommand(mkCall[c].todo), !.new = s]]
    PROVE  Moves(c)
<1>1. /\ mkCall[c].todo # <<>> /\ mkCall[c].todo \in Todos
      /\ mkCall \in [MkCalls -> CallRecords] /\ mkCall[c] \in CallRecords
  BY TodoType DEF MkTypeOK, Busy
<1>4. PICK u : u = AfterCommand(mkCall[c].todo)
  OBVIOUS
<1>5. Advances(mkCall[c].todo, u) /\ u \in Todos
  BY <1>1, <1>4, AdvancesByCommand DEF Advances
<1>6. PICK r1 : r1 = [mkCall[c] EXCEPT !.todo = u]
  OBVIOUS
<1>7. PICK r : r = [r1 EXCEPT !.new = s]
  OBVIOUS
<1>8. r1 \in CallRecords /\ r1.user = mkCall[c].user /\ r1.old = mkCall[c].old /\ r1.todo = u
  BY <1>1, <1>5, <1>6 DEF CallRecords
<1>9. r \in CallRecords /\ r.user = mkCall[c].user /\ r.todo = u /\ r.old = mkCall[c].old
  BY <1>7, <1>8 DEF CallRecords
<1>10. mkCall' = [mkCall EXCEPT ![c] = r]
  <2>1. mkCall' = [[mkCall EXCEPT ![c] = [mkCall[c] EXCEPT !.todo = u]] EXCEPT ![c] = [[mkCall[c] EXCEPT !.todo = u] EXCEPT !.new = s]]
    BY <1>1, <1>4
  <2>2. mkCall' = [[mkCall EXCEPT ![c] = r1] EXCEPT ![c] = r]
    BY <2>1, <1>6, <1>7
  <2> QED
    BY <2>2, <1>1
<1>11. mkCall' \in [MkCalls -> CallRecords] /\ mkCall'[c] = r
      /\ \A d \in MkCalls : d # c => mkCall'[d] = mkCall[d]
  BY <1>1, <1>9, <1>10
<1> QED
  BY <1>1, <1>5, <1>9, <1>11 DEF Moves

\* reading and writing the job,
\* A read of the usage, or of the job, changes the call alone.
LEMMA GetUsageFrame ==
    ASSUME NEW c \in MkCalls, GetUsage(c)
    PROVE  /\ Busy(c) /\ Op(mkCall[c].todo) = "getUsage"
           /\ UNCHANGED <<mkJob, mkOwner, mkListed, mkBought, mkBoughtBy, mkUsage, mkAnswer, mkCached,
                         mkCrashCount>>
           /\ UNCHANGED <<mkCompleted, mkShown, mkConfirmed, mkServed, mkLoose>>
<1>1. At(c, "getUsage") /\ UNCHANGED <<mkRecords, mkAnswer, mkCached, mkCrashCount, mkHistory>>
  BY DEF GetUsage
<1> QED
  BY <1>1, AtOp DEF mkRecords, mkHistory

LEMMA GetJobFrame ==
    ASSUME NEW c \in MkCalls, GetJob(c)
    PROVE  /\ Busy(c) /\ Op(mkCall[c].todo) = "getJob"
           /\ UNCHANGED <<mkJob, mkOwner, mkListed, mkBought, mkBoughtBy, mkUsage, mkAnswer, mkCached,
                         mkCrashCount>>
           /\ UNCHANGED <<mkCompleted, mkShown, mkConfirmed, mkServed, mkLoose>>
<1>1. At(c, "getJob") /\ UNCHANGED <<mkRecords, mkAnswer, mkCached, mkCrashCount, mkHistory>>
  BY DEF GetJob
<1> QED
  BY <1>1, AtOp DEF mkRecords, mkHistory

LEMMA GetJobMoves == ASSUME MkTypeOK, NEW c \in MkCalls, GetJob(c) PROVE Moves(c)
<1>1. Busy(c) /\ Op(mkCall[c].todo) = "getJob"
  BY AtOp DEF GetJob
<1>2. CASE Fails(c)
  BY <1>1, <1>2, FailsMoves
<1>3. CASE EndsWith(c, <<>>)
  BY <1>1, <1>3, EndMoves
<1>4. CASE mkCall' = [mkCall EXCEPT ![c] = [@ EXCEPT !.todo = AfterCommand(mkCall[c].todo), !.old = mkJob]]
  BY <1>1, <1>4, OldMoves
<1> QED
  BY <1>2, <1>3, <1>4 DEF GetJob

LEMMA ReadsMoves == ASSUME MkTypeOK, NEW c \in MkCalls, Reads(c) PROVE Moves(c)
BY AtOp, ContinueMoves, EndMoves DEF Reads

LEMMA SetStateMoves == ASSUME MkTypeOK, NEW c \in MkCalls, NEW s \in JobStates, SetState(c, s) PROVE Moves(c)
<1>1. Busy(c) /\ Op(mkCall[c].todo) = s
  BY AtOp DEF SetState
<1>2. CASE Fails(c)
  BY <1>1, <1>2, FailsMoves
<1>3. CASE mkCall' = [mkCall EXCEPT ![c] = [@ EXCEPT !.todo = AfterCommand(mkCall[c].todo), !.new = s]]
  <2>1. s # "getUsage"
    BY DEF JobStates
  <2> QED
    BY <2>1, <1>1, <1>3, NewMoves
<1> QED
  BY <1>2, <1>3 DEF SetState

LEMMA SetJobMoves == ASSUME MkTypeOK, NEW c \in MkCalls, SetJob(c) PROVE Moves(c)
BY AtOp, ContinueMoves DEF SetJob

LEMMA IndexMoves == ASSUME MkTypeOK, NEW c \in MkCalls, Index(c) PROVE Moves(c)
BY AtOp, ContinueMoves DEF Index

LEMMA EmitsMoves == ASSUME MkTypeOK, NEW c \in MkCalls, Emits(c) PROVE Moves(c)
BY AtOp, ContinueMoves DEF Emits, Contents

LEMMA WaitsMoves == ASSUME MkTypeOK, NEW c \in MkCalls, Waits(c) PROVE Moves(c)
<1>1. Busy(c) /\ mkCall[c].todo # <<>> /\ Op(mkCall[c].todo) = "wait" /\ mkCall[c].todo \in Todos
  BY AtOp, TodoType DEF Waits
<1>2. CASE Continue(c)
  BY <1>1, <1>2, ContinueMoves
<1>3. CASE EndsWith(c, <<>>)
  BY <1>1, <1>3, EndMoves
<1>4. CASE EndsWith(c, <<To("failed")>>)
  BY <1>1, <1>4, AdvancesToFailed, EndsWithMoves
<1> QED
  BY <1>2, <1>3, <1>4 DEF Waits

\* and showing and selling it.
LEMMA CachedMoves == ASSUME MkTypeOK, NEW c \in MkCalls, GetCachedJobDetails(c) PROVE Moves(c)
BY AtOp, ContinueMoves, EndMoves DEF GetCachedJobDetails

LEMMA RememberMoves == ASSUME MkTypeOK, NEW c \in MkCalls, SetCachedJobDetails(c) PROVE Moves(c)
BY AtOp, ContinueMoves DEF SetCachedJobDetails

LEMMA ServesMoves == ASSUME MkTypeOK, NEW c \in MkCalls, Serves(c) PROVE Moves(c)
BY AtOp, ContinueMoves DEF Serves

LEMMA AccessMoves == ASSUME MkTypeOK, NEW c \in MkCalls, HasPurchaseAccess(c) PROVE Moves(c)
BY AtOp, ContinueMoves, FailsMoves DEF HasPurchaseAccess

LEMMA StorePurchaseMoves == ASSUME MkTypeOK, NEW c \in MkCalls, StorePurchase(c) PROVE Moves(c)
BY AtOp, ContinueMoves DEF StorePurchase

LEMMA ConfirmsMoves == ASSUME MkTypeOK, NEW c \in MkCalls, Confirms(c) PROVE Moves(c)
BY AtOp, ContinueMoves DEF Confirms

\* What begins, or moves on, keeps the calls well formed.
CallsOK ==
    /\ mkCall \in [MkCalls -> CallRecords]
    /\ \A c \in MkCalls : Counts(mkCall[c].todo) => mkCall[c].user \in MkUsers

\* A step of one call leaves the others as they were.
LEMMA CallsKept ==
    ASSUME MkTypeOK, NEW c \in MkCalls, Begins(c) \/ Moves(c)
    PROVE  CallsOK'
<1>1. \A d \in MkCalls : Counts(mkCall[d].todo) => mkCall[d].user \in MkUsers
  BY DEF MkTypeOK
<1>2. CASE Begins(c)
  BY <1>1, <1>2 DEF Begins, CallsOK
<1>3. CASE Moves(c)
  <2>1. Counts(mkCall'[c].todo) => Counts(mkCall[c].todo) /\ mkCall'[c].todo # <<>>
    BY <1>3, NoneLeft DEF Moves, Advances
  <2> QED
    BY <1>1, <1>3, <2>1 DEF Moves, CallsOK
<1> QED
  BY <1>2, <1>3

\* The records that are written are records.
LEMMA RecordsWritten ==
    ASSUME MkTypeOK, NEW c \in MkCalls, MkStep(c)
    PROVE  /\ mkJob' \in JobRecords /\ mkCrashCount' \in Nat
           /\ mkUsage' \in [MkUsers -> Nat] /\ mkServed' \in [MkUsers -> Nat]
<1>1. /\ mkJob \in JobRecords /\ mkUsage \in [MkUsers -> Nat] /\ mkServed \in [MkUsers -> Nat]
      /\ mkCall[c].old \in JobRecords /\ mkCall[c].usage \in Nat /\ mkCrashCount \in Nat
  BY TodoType DEF MkTypeOK, CallRecords
<1>2. CASE MkRequest(c) \/ Authorizes(c)
  BY <1>1, <1>2 DEF MkRequest, Starts, Authorizes, mkRecords, mkHistory
<1>3. CASE CreateAPIKey(c)
  BY <1>1, <1>3 DEF CreateAPIKey
<1>4. CASE CheckRateLimit(c) \/ GetUsage(c)
  BY <1>1, <1>4 DEF CheckRateLimit, GetUsage, mkRecords, mkHistory
<1>5. CASE IncrementAPIUsage(c)
  <2>1. PICK m \in Nat : m = mkCall[c].usage
    BY <1>1
  <2>0. mkCall[c].user \in MkUsers
    BY <1>5, AtOp, FirstOf, TodoType DEF IncrementAPIUsage, MkTypeOK
  <2>2. PICK u \in MkUsers : u = mkCall[c].user
    BY <2>0
  <2>3. /\ mkUsage' = [mkUsage EXCEPT ![u] = m + 1]
        /\ mkServed' = [mkServed EXCEPT ![u] = mkServed[u] + 1]
        /\ mkJob' = mkJob /\ mkCrashCount' = mkCrashCount
    BY <1>5, <2>1, <2>2 DEF IncrementAPIUsage, Incremented
  <2> QED
    BY <1>1, <2>1, <2>3
<1>6. CASE Create(c)
  BY <1>1, <1>6 DEF Create, JobRecords, NoRecord, JobStates, mkHistory
<1>7. CASE GetJob(c) \/ Reads(c) \/ Index(c)
  BY <1>1, <1>7 DEF GetJob, Reads, Index, mkRecords, mkHistory
<1>8. CASE SetJob(c)
  <2>1. PICK old \in JobRecords : old = mkCall[c].old
    BY <1>1
  <2>2. [old EXCEPT !.priced = TRUE] \in JobRecords /\ NoRecord \in JobRecords
    BY DEF JobRecords, NoRecord
  <2>3. mkJob' \in {old, [old EXCEPT !.priced = TRUE], NoRecord}
    BY <1>8, <2>1 DEF SetJob
  <2> QED
    BY <1>1, <1>8, <2>2, <2>3 DEF SetJob, mkHistory
<1>9. CASE \E s \in JobStates : SetState(c, s)
  <2>1. PICK s \in JobStates : SetState(c, s)
    BY <1>9
  <2>2. PICK old \in JobRecords : old = mkCall[c].old
    BY <1>1
  <2>3. PICK b \in BOOLEAN : mkJob' = [old EXCEPT !.state = s, !.stored = b]
    BY <2>1, <2>2 DEF SetState, JobRecords
  <2>4. mkJob' \in JobRecords
    BY <2>3 DEF JobRecords
  <2> QED
    BY <1>1, <2>1, <2>4 DEF SetState
<1>10. CASE AnswerArrives(c) \/ Emits(c) \/ Waits(c)
  BY <1>1, <1>10 DEF AnswerArrives, Emits, Waits, mkRecords, mkHistory
<1>11. CASE GetCachedJobDetails(c) \/ SetCachedJobDetails(c) \/ Serves(c)
  BY <1>1, <1>11 DEF GetCachedJobDetails, SetCachedJobDetails, Serves, mkRecords, mkHistory
<1>12. CASE HasPurchaseAccess(c) \/ StorePurchase(c) \/ Confirms(c)
  BY <1>1, <1>12 DEF HasPurchaseAccess, StorePurchase, Confirms, mkRecords, mkHistory
<1> QED
  BY <1>2, <1>3, <1>4, <1>5, <1>6, <1>7, <1>8, <1>9, <1>10, <1>11, <1>12 DEF MkStep

\* Every step of a request moves it.
LEMMA StepMoves ==
    ASSUME MkTypeOK, NEW c \in MkCalls, MkStep(c) PROVE Begins(c) \/ Moves(c)
BY RequestBegins, AnswerBegins, AuthorizesMoves, CreateKeyMoves, CheckMoves, GetUsageMoves,
   IncrementMoves, CreateMoves, GetJobMoves, ReadsMoves, SetJobMoves, IndexMoves, SetStateMoves,
   EmitsMoves, WaitsMoves, CachedMoves, RememberMoves, ServesMoves, AccessMoves,
   StorePurchaseMoves, ConfirmsMoves DEF MkStep

\* After a crash no request is left.
LEMMA CrashEnds ==
    ASSUME MkTypeOK, MkCrash
    PROVE  /\ CallsOK'
           /\ \A c \in MkCalls : /\ mkCall'[c].todo = <<>>
                                 /\ mkCall'[c].old \in {mkCall[c].old, NoRecord}
<1>1. Over \in CallRecords /\ Over.todo = <<>> /\ Over.old = NoRecord
  BY NoneLeft DEF Over, IdleCall, CallRecords, JobRecords, NoRecord
<1>2. mkCall \in [MkCalls -> CallRecords]
  BY DEF MkTypeOK
<1>3. mkCall' = [c \in MkCalls |-> IF Busy(c) THEN Over ELSE mkCall[c]]
  BY DEF MkCrash
<1>4. \A c \in MkCalls : mkCall'[c] = IF Busy(c) THEN Over ELSE mkCall[c]
  BY <1>3
<1>5. mkCall' \in [MkCalls -> CallRecords]
  BY <1>1, <1>2, <1>3
<1>6. \A c \in MkCalls : mkCall'[c].todo = <<>>
  BY <1>1, <1>4 DEF Busy
<1> QED
  BY <1>1, <1>4, <1>5, <1>6, NoneLeft DEF CallsOK

\* The initial state is well formed.
LEMMA MkInitTypeOK == MkInit => MkTypeOK
<1> SUFFICES ASSUME MkInit PROVE MkTypeOK
  OBVIOUS
<1>1. IdleCall \in CallRecords /\ ~ Counts(IdleCall.todo)
  BY NoneLeft DEF IdleCall, CallRecords, JobRecords, NoRecord
<1>2. mkJob \in JobRecords
  BY DEF MkInit, NoRecord, JobRecords
<1> QED
  BY <1>1, <1>2 DEF MkInit, MkTypeOK

\* Every step keeps records and requests well formed.
LEMMA MkNextTypeOK == MkTypeOK /\ [MkNext]_mkVars => MkTypeOK'
<1> SUFFICES ASSUME MkTypeOK, [MkNext]_mkVars PROVE MkTypeOK'
  OBVIOUS
<1>1. ASSUME NEW c \in MkCalls, MkStep(c) PROVE MkTypeOK'
  BY <1>1, CallsKept, StepMoves, RecordsWritten DEF MkTypeOK, CallsOK
<1>2. CASE CacheExpires
  BY <1>2 DEF CacheExpires, MkTypeOK, mkRecords, mkHistory
<1>3. CASE MkCrash
  <2>1. CallsOK'
    BY <1>3, CrashEnds
  <2>2. /\ mkJob' = mkJob /\ mkUsage' = mkUsage /\ mkServed' = mkServed
        /\ mkCrashCount' = mkCrashCount + 1
    BY <1>3 DEF MkCrash, mkRecords
  <2> QED
    BY <2>1, <2>2 DEF MkTypeOK, CallsOK
<1>4. CASE UNCHANGED mkVars
  BY <1>4 DEF mkVars, MkTypeOK, mkRecords, mkMemory, mkHistory
<1> QED
  BY <1>1, <1>2, <1>3, <1>4 DEF MkNext

-----------------------------------------------------------------------------
(***************************************************************************)
(* Purchases.                                                              *)
(***************************************************************************)
\* The step of a request that is not at a purchase, and the beginning of one.
LEMMA BoughtKept ==
    ASSUME MkTypeOK, BoughtInv, NEW c \in MkCalls,
           Begins(c) \/ (Moves(c) /\ Op(mkCall[c].todo) \notin {"setPurchase", "addPurchase"}),
           mkBought' = mkBought, mkBoughtBy' = mkBoughtBy,
           mkConfirmed' \in {mkConfirmed, mkConfirmed \cup {mkCall[c].user}},
           mkConfirmed' = mkConfirmed \/ mkCall[c].user \in mkBought,
           mkCrashCount' = mkCrashCount
    PROVE  BoughtInv'
<1>1. \A d \in MkCalls : d # c => mkCall'[d] = mkCall[d]
  BY DEF Begins, Moves
<1>2. /\ mkCall'[c].todo # <<>> => Op(mkCall'[c].todo) \notin {"addPurchase", "confirm"}
      /\ mkCall[c].todo # <<>> => Op(mkCall[c].todo) # "addPurchase"
  BY DEF Begins, Moves, StartsWell, Advances, IdleCall
<1>3. ASSUME NEW d \in MkCalls, At(d, "addPurchase")' \/ At(d, "confirm")'
      PROVE  mkCall'[d].user \in mkBought'
  BY <1>1, <1>2, <1>3 DEF At, Busy, Op, BoughtInv
<1>4. ASSUME NEW u \in mkBought', u \notin mkBoughtBy', ~ (mkCrashCount' > 0)
      PROVE  \E d \in MkCalls : mkCall'[d].user = u /\ At(d, "addPurchase")'
  <2>1. PICK d \in MkCalls : mkCall[d].user = u /\ At(d, "addPurchase")
    BY <1>4 DEF BoughtInv
  <2>2. d # c
    BY <2>1, <1>2 DEF At, Busy, Op
  <2> QED
    BY <2>1, <2>2, <1>1 DEF At, Busy
<1>5. mkConfirmed' \subseteq mkBought'
  BY DEF BoughtInv
<1> QED
  BY <1>3, <1>4, <1>5 DEF BoughtInv

\* Storing a purchase: the record first, and then the user's list.
LEMMA BoughtStored ==
    ASSUME MkTypeOK, BoughtInv, NEW c \in MkCalls, StorePurchase(c) PROVE BoughtInv'
<1> DEFINE u == mkCall[c].user
<1>1. /\ Moves(c) /\ mkCall[c].todo # <<>>
      /\ mkConfirmed' = mkConfirmed /\ mkCrashCount' = mkCrashCount
      /\ \/ Op(mkCall[c].todo) = "setPurchase" /\ mkBought' = mkBought \cup {u} /\ mkBoughtBy' = mkBoughtBy
         \/ Op(mkCall[c].todo) = "addPurchase" /\ mkBoughtBy' = mkBoughtBy \cup {u} /\ mkBought' = mkBought
  BY StorePurchaseMoves, AtOp DEF StorePurchase, mkHistory
<1>2. /\ \A d \in MkCalls : d # c => mkCall'[d] = mkCall[d]
      /\ mkCall'[c].todo # <<>> => mkCall'[c].user = u
      /\ Op(mkCall[c].todo) = "setPurchase" =>
            mkCall'[c].todo # <<>> /\ Op(mkCall'[c].todo) = "addPurchase"
      /\ mkCall'[c].todo # <<>> /\ Op(mkCall'[c].todo) = "addPurchase" => Op(mkCall[c].todo) = "setPurchase"
  BY <1>1, Zenon DEF Moves, Advances
<1>3. mkConfirmed' \subseteq mkBought'
  BY <1>1 DEF BoughtInv
<1>4. CASE Op(mkCall[c].todo) = "setPurchase"
  <2>1. mkBought' = mkBought \cup {u} /\ mkBoughtBy' = mkBoughtBy
    BY <1>1, <1>4
  <2>2. ASSUME NEW d \in MkCalls, At(d, "addPurchase")' \/ At(d, "confirm")'
        PROVE  mkCall'[d].user \in mkBought'
    BY <1>2, <2>1, <2>2 DEF At, Busy, BoughtInv
  <2>3. ASSUME NEW v \in mkBought', v \notin mkBoughtBy', ~ (mkCrashCount' > 0)
        PROVE  \E d \in MkCalls : mkCall'[d].user = v /\ At(d, "addPurchase")'
    <3>1. CASE v = u
      BY <3>1, <1>2, <1>4 DEF At, Busy, Op
    <3>2. CASE v # u
      <4>1. PICK d \in MkCalls : mkCall[d].user = v /\ At(d, "addPurchase")
        BY <1>1, <2>1, <2>3, <3>2 DEF BoughtInv
      <4>2. d # c
        BY <4>1, <3>2
      <4> QED
        BY <4>1, <4>2, <1>2 DEF At, Busy
    <3> QED
      BY <3>1, <3>2
  <2> QED
    BY <1>3, <2>2, <2>3 DEF BoughtInv
<1>5. CASE Op(mkCall[c].todo) = "addPurchase"
  <2>1. mkBought' = mkBought /\ mkBoughtBy' = mkBoughtBy \cup {u}
    BY <1>1, <1>5
  <2>2. u \in mkBought
    BY <1>1, <1>5 DEF BoughtInv, At, Busy, Op
  <2>3. ASSUME NEW d \in MkCalls, At(d, "addPurchase")' \/ At(d, "confirm")'
        PROVE  mkCall'[d].user \in mkBought'
    BY <1>2, <2>1, <2>2, <2>3 DEF At, Busy, BoughtInv
  <2>4. ASSUME NEW v \in mkBought', v \notin mkBoughtBy', ~ (mkCrashCount' > 0)
        PROVE  \E d \in MkCalls : mkCall'[d].user = v /\ At(d, "addPurchase")'
    <3>1. PICK d \in MkCalls : mkCall[d].user = v /\ At(d, "addPurchase")
      BY <1>1, <2>1, <2>4 DEF BoughtInv
    <3>2. d # c
      BY <3>1, <2>1, <2>4
    <3> QED
      BY <3>1, <3>2, <1>2 DEF At, Busy
  <2> QED
    BY <1>3, <2>3, <2>4 DEF BoughtInv
<1> QED
  BY <1>1, <1>4, <1>5

\* A step of a call keeps what is known of confirmed purchases.
LEMMA BoughtByCall ==
    ASSUME MkTypeOK, BoughtInv, NEW c \in MkCalls, MkStep(c) PROVE BoughtInv'
<1> DEFINE Kept == mkBought' = mkBought /\ mkBoughtBy' = mkBoughtBy /\ mkConfirmed' = mkConfirmed
                   /\ mkCrashCount' = mkCrashCount
           Elsewhere == Begins(c) \/ (Moves(c) /\ Op(mkCall[c].todo) \notin {"setPurchase", "addPurchase"})
<1>1. ASSUME Kept, Elsewhere PROVE BoughtInv'
  BY <1>1, BoughtKept
<1>2. CASE MkRequest(c)
  BY <1>1, <1>2, RequestBegins DEF MkRequest, Starts, mkRecords
<1>3. CASE AnswerArrives(c)
  BY <1>1, <1>3, AnswerBegins DEF AnswerArrives, mkRecords, mkHistory
<1>4. CASE Authorizes(c) \/ CheckRateLimit(c) \/ GetUsage(c)
  BY <1>1, <1>4, AuthorizesMoves, CheckMoves, GetUsageMoves, GetUsageFrame, AtOp
     DEF Authorizes, CheckRateLimit, mkRecords, mkHistory
<1>5. CASE CreateAPIKey(c) \/ IncrementAPIUsage(c)
  BY <1>1, <1>5, CreateKeyMoves, IncrementMoves, AtOp DEF CreateAPIKey, IncrementAPIUsage
<1>6. CASE Create(c)
  BY <1>1, <1>6, CreateMoves, AtOp DEF Create, mkHistory
<1>7. CASE GetJob(c) \/ Reads(c) \/ Index(c)
  BY <1>1, <1>7, GetJobMoves, GetJobFrame, ReadsMoves, IndexMoves, AtOp
     DEF Reads, Index, mkRecords, mkHistory
<1>8. CASE SetJob(c)
  BY <1>1, <1>8, SetJobMoves, AtOp DEF SetJob, mkHistory
<1>9. CASE \E s \in JobStates : SetState(c, s)
  <2>1. PICK s \in JobStates : SetState(c, s)
    BY <1>9
  <2>2. Moves(c) /\ Op(mkCall[c].todo) = s
    BY <2>1, SetStateMoves, AtOp DEF SetState
  <2>3. s \notin {"setPurchase", "addPurchase"}
    BY DEF JobStates
  <2>4. Kept
    BY <2>1 DEF SetState
  <2> QED
    BY <1>1, <2>2, <2>3, <2>4
<1>10. CASE Emits(c)
  <2>1. Op(mkCall[c].todo) \in {"emitError"} \cup Contents
    BY <1>10, AtOp DEF Emits
  <2>2. Kept
    BY <1>10 DEF Emits, mkRecords, mkHistory
  <2> QED
    BY <1>1, <1>10, <2>1, <2>2, EmitsMoves DEF Contents
<1>11. CASE Waits(c)
  BY <1>1, <1>11, WaitsMoves, AtOp DEF Waits, mkRecords, mkHistory
<1>12. CASE GetCachedJobDetails(c) \/ SetCachedJobDetails(c) \/ Serves(c)
  <2>1. Op(mkCall[c].todo) \in {"cached", "remember", "serve"}
    BY <1>12, AtOp DEF GetCachedJobDetails, SetCachedJobDetails, Serves
  <2>2. Kept
    BY <1>12 DEF GetCachedJobDetails, SetCachedJobDetails, Serves, mkRecords
  <2>3. Moves(c)
    BY <1>12, CachedMoves, RememberMoves, ServesMoves
  <2> QED
    BY <1>1, <2>1, <2>2, <2>3
<1>13. CASE HasPurchaseAccess(c)
  <2>1. /\ Moves(c) /\ Op(mkCall[c].todo) = "hasPurchase"
        /\ mkBought' = mkBought /\ mkBoughtBy' = mkBoughtBy /\ mkCrashCount' = mkCrashCount
        /\ mkConfirmed' = mkConfirmed \/ (mkCall[c].user \in mkBought /\ mkConfirmed' = mkConfirmed \cup {mkCall[c].user})
    BY <1>13, AccessMoves, AtOp DEF HasPurchaseAccess, mkRecords
  <2> QED
    BY <2>1, BoughtKept
<1>14. CASE StorePurchase(c)
  BY <1>14, BoughtStored
<1>15. CASE Confirms(c)
  <2>1. /\ Moves(c) /\ Op(mkCall[c].todo) = "confirm" /\ At(c, "confirm")
        /\ mkBought' = mkBought /\ mkBoughtBy' = mkBoughtBy /\ mkCrashCount' = mkCrashCount
        /\ mkConfirmed' = mkConfirmed \cup {mkCall[c].user}
    BY <1>15, ConfirmsMoves, AtOp DEF Confirms, mkRecords
  <2>2. mkCall[c].user \in mkBought
    BY <2>1 DEF BoughtInv
  <2> QED
    BY <2>1, <2>2, BoughtKept
<1> QED
  BY <1>2, <1>3, <1>4, <1>5, <1>6, <1>7, <1>8, <1>9, <1>10, <1>11, <1>12, <1>13, <1>14, <1>15 DEF MkStep

\* So does every step.
LEMMA BoughtNext == MkTypeOK /\ BoughtInv /\ [MkNext]_mkVars => BoughtInv'
<1> SUFFICES ASSUME MkTypeOK, BoughtInv, [MkNext]_mkVars PROVE BoughtInv'
  OBVIOUS
<1>1. ASSUME NEW c \in MkCalls, MkStep(c) PROVE BoughtInv'
  BY <1>1, BoughtByCall
<1>2. CASE CacheExpires
  BY <1>2 DEF CacheExpires, BoughtInv, At, Busy, mkRecords, mkHistory
<1>3. CASE MkCrash
  <2>1. \A c \in MkCalls : mkCall'[c].todo = <<>>
    BY <1>3, CrashEnds
  <2>2. mkCrashCount' > 0
    BY <1>3 DEF MkCrash, MkTypeOK
  <2>3. mkBought' = mkBought /\ mkConfirmed' = mkConfirmed
    BY <1>3 DEF MkCrash, mkRecords
  <2> QED
    BY <2>1, <2>2, <2>3 DEF BoughtInv, At, Busy
<1>4. CASE UNCHANGED mkVars
  BY <1>4 DEF mkVars, BoughtInv, At, Busy, mkRecords, mkMemory, mkHistory
<1> QED
  BY <1>1, <1>2, <1>3, <1>4 DEF MkNext

-----------------------------------------------------------------------------
(***************************************************************************)
(* What is seen before the job was completed: nothing.                     *)
(***************************************************************************)
LEMMA SeenKept ==
    ASSUME MkTypeOK, SeenInv, ~ mkCompleted, NEW c \in MkCalls,
           \/ Begins(c)
           \/ Moves(c) /\ (Op(mkCall[c].todo) \in {"getCompleted", "getOwn"} => mkCall'[c].todo = <<>>),
           ~ mkShown', ~ mkCached', mkBought' = {}, NeverSaid(mkJob')
    PROVE  SeenInv'
<1>1. /\ NeverSaid(mkJob)
      /\ \A d \in MkCalls : NeverSaid(mkCall[d].old) /\ Passed(mkCall[d].todo)
  BY DEF SeenInv
<1>2. NeverSaid(NoRecord)
  BY DEF NeverSaid, NoRecord
<1>3. NeverSaid(mkCall'[c].old)
  <2>1. CASE Begins(c)
    BY <2>1 DEF Begins
  <2>2. CASE Moves(c)
    <3>1. mkCall'[c].old \in {mkCall[c].old, mkJob, NoRecord}
      BY <2>2 DEF Moves
    <3> QED
      BY <3>1, <1>1, <1>2
  <2> QED
    BY <2>1, <2>2
<1>4. Passed(mkCall'[c].todo)
  BY <1>1, NoneLeft DEF Begins, Moves, StartsWell, Advances
<1>5. \A d \in MkCalls : d # c => mkCall'[d] = mkCall[d]
  BY DEF Begins, Moves
<1>6. \A d \in MkCalls : NeverSaid(mkCall'[d].old) /\ Passed(mkCall'[d].todo)
  BY <1>1, <1>3, <1>4, <1>5
<1> QED
  BY <1>6 DEF SeenInv

\* A step of a call keeps unfinished jobs from being sold, shown or cached.
LEMMA SeenByCall ==
    ASSUME MkTypeOK, SeenInv, NEW c \in MkCalls, MkStep(c) PROVE SeenInv'
<1> SUFFICES ASSUME ~ mkCompleted' PROVE SeenInv'
  BY DEF SeenInv
<1>0. ~ mkCompleted
  BY DEF MkStep, MkRequest, Starts, Authorizes, CreateAPIKey, CheckRateLimit, GetUsage, IncrementAPIUsage,
         Create, GetJob, Reads, SetJob, Index, SetState, AnswerArrives, Emits, Waits, GetCachedJobDetails,
         SetCachedJobDetails, Serves, HasPurchaseAccess, StorePurchase, Confirms, mkHistory
<1>a. /\ ~ mkShown /\ ~ mkCached /\ mkBought = {} /\ NeverSaid(mkJob)
      /\ NeverSaid(mkCall[c].old) /\ Passed(mkCall[c].todo)
  BY <1>0 DEF SeenInv
<1> DEFINE Quiet == Op(mkCall[c].todo) \notin {"getCompleted", "getOwn"}
           Kept == ~ mkShown' /\ ~ mkCached' /\ mkBought' = {}
<1>b. ASSUME Begins(c) \/ (Moves(c) /\ Quiet), Kept, NeverSaid(mkJob') PROVE SeenInv'
  BY <1>0, <1>b, SeenKept
<1>2. CASE MkRequest(c)
  BY <1>a, <1>b, <1>2, RequestBegins DEF MkRequest, Starts, mkRecords
<1>3. CASE AnswerArrives(c)
  BY <1>a, <1>b, <1>3, AnswerBegins DEF AnswerArrives, mkRecords, mkHistory
<1>4. CASE Authorizes(c) \/ CheckRateLimit(c) \/ GetUsage(c)
  BY <1>a, <1>b, <1>4, AuthorizesMoves, CheckMoves, GetUsageMoves, GetUsageFrame, AtOp
     DEF Authorizes, CheckRateLimit, mkRecords, mkHistory
<1>5. CASE CreateAPIKey(c) \/ IncrementAPIUsage(c)
  BY <1>a, <1>b, <1>5, CreateKeyMoves, IncrementMoves, AtOp DEF CreateAPIKey, IncrementAPIUsage
<1>6. CASE Create(c)
  <2>1. NeverSaid([NoRecord EXCEPT !.state = "pending"])
    BY DEF NeverSaid, NoRecord
  <2>2. NeverSaid(mkJob') /\ Kept
    BY <1>a, <1>6, <2>1 DEF Create, mkHistory
  <2> QED
    BY <1>b, <1>6, <2>2, CreateMoves, AtOp DEF Create
<1>7. CASE GetJob(c) \/ Index(c)
  BY <1>a, <1>b, <1>7, GetJobMoves, GetJobFrame, IndexMoves, AtOp DEF Index, mkRecords, mkHistory
<1>8. CASE Reads(c)
  <2>1. Moves(c) /\ Kept /\ NeverSaid(mkJob')
    BY <1>a, <1>8, ReadsMoves DEF Reads, mkRecords, mkHistory
  <2>2. ASSUME Op(mkCall[c].todo) \in {"getCompleted", "getOwn"} PROVE mkCall'[c].todo = <<>>
    <3>1. PICK op : op = Op(mkCall[c].todo) /\ (IF Admits(c, op) THEN Continue(c) ELSE EndsWith(c, <<>>))
      BY <1>8, AtOp DEF Reads
    <3>2. ~ Admits(c, op)
      BY <3>1, <2>2, <1>a DEF Admits, NeverSaid
    <3>3. mkCall' = [mkCall EXCEPT ![c] = Over]
      BY <3>1, <3>2 DEF EndsWith
    <3>4. Over.todo = <<>>
      BY DEF Over, IdleCall
    <3> QED
      BY <3>3, <3>4 DEF MkTypeOK
  <2> QED
    BY <1>0, <2>1, <2>2, SeenKept
<1>9. CASE SetJob(c)
  <2>1. PICK old \in JobRecords : old = mkCall[c].old
    BY TodoType DEF CallRecords
  <2>2. NeverSaid([old EXCEPT !.priced = TRUE]) /\ NeverSaid(NoRecord) /\ NeverSaid(old)
    BY <1>a, <2>1 DEF NeverSaid, NoRecord, JobRecords
  <2>3. mkJob' \in {old, [old EXCEPT !.priced = TRUE], NoRecord}
    BY <1>9, <2>1 DEF SetJob
  <2>4. NeverSaid(mkJob') /\ Kept
    BY <1>a, <1>9, <2>2, <2>3 DEF SetJob, mkHistory
  <2> QED
    BY <1>b, <1>9, <2>4, SetJobMoves, AtOp DEF SetJob
<1>10. CASE \E s \in JobStates : SetState(c, s)
  <2>1. PICK s \in JobStates : SetState(c, s)
    BY <1>10
  <2>2. Moves(c) /\ Op(mkCall[c].todo) = s
    BY <2>1, SetStateMoves, AtOp DEF SetState
  <2>3. s \notin {"getCompleted", "getOwn"}
    BY DEF JobStates
  <2>4. s # "completed"
    BY <2>1 DEF SetState
  <2>5. PICK old \in JobRecords : old = mkCall[c].old
    BY TodoType DEF CallRecords
  <2>6. PICK b \in {old.stored} : mkJob' = [old EXCEPT !.state = s, !.stored = b]
    BY <2>1, <2>4, <2>5 DEF SetState
  <2>7. NeverSaid(old) /\ b = old.stored
    BY <1>a, <2>5, <2>6
  <2>8. mkJob'.state = s /\ mkJob'.stored = b
    BY <2>6 DEF JobRecords
  <2>9. NeverSaid(mkJob')
    BY <2>4, <2>7, <2>8 DEF NeverSaid
  <2>10. Kept
    BY <1>a, <2>1 DEF SetState
  <2> QED
    BY <1>b, <2>2, <2>3, <2>9, <2>10
<1>11. CASE Emits(c)
  <2>1. Op(mkCall[c].todo) \in {"emitError"} \cup Contents
    BY <1>11, AtOp DEF Emits
  <2>2. Kept /\ NeverSaid(mkJob')
    BY <1>a, <1>11 DEF Emits, mkRecords, mkHistory
  <2> QED
    BY <1>b, <1>11, <2>1, <2>2, EmitsMoves DEF Contents
<1>12. CASE Waits(c)
  BY <1>a, <1>b, <1>12, WaitsMoves, AtOp DEF Waits, mkRecords, mkHistory
<1>13. CASE GetCachedJobDetails(c)
  BY <1>a, <1>b, <1>13, CachedMoves, AtOp DEF GetCachedJobDetails, mkRecords
<1>14. CASE SetCachedJobDetails(c)
  <2>1. ~ Displayable(mkCall[c].old)
    BY <1>a DEF Displayable, NeverSaid
  <2>2. mkCached' = mkCached /\ mkShown' = mkShown
    BY <1>14, <2>1 DEF SetCachedJobDetails
  <2>3. Kept /\ NeverSaid(mkJob')
    BY <1>a, <1>14, <2>2 DEF SetCachedJobDetails, mkRecords
  <2>4. Op(mkCall[c].todo) = "remember"
    BY <1>14, AtOp DEF SetCachedJobDetails
  <2>5. Moves(c) /\ Quiet
    BY <1>14, <2>4, RememberMoves
  <2> QED
    BY <1>b, <2>3, <2>5
<1>15. CASE Serves(c)
  BY <1>a, <1>15, AtOp DEF Serves, Passed
<1>16. CASE HasPurchaseAccess(c)
  BY <1>a, <1>16, AtOp DEF HasPurchaseAccess, Passed
<1>17. CASE StorePurchase(c)
  <2>1. Op(mkCall[c].todo) = "addPurchase" /\ mkBought' = mkBought
    BY <1>a, <1>17, AtOp DEF StorePurchase, Passed
  <2> QED
    BY <1>a, <1>b, <1>17, <2>1, StorePurchaseMoves DEF StorePurchase, mkHistory
<1>18. CASE Confirms(c)
  BY <1>a, <1>b, <1>18, ConfirmsMoves, AtOp DEF Confirms, mkRecords
<1> QED
  BY <1>2, <1>3, <1>4, <1>5, <1>6, <1>7, <1>8, <1>9, <1>10, <1>11, <1>12, <1>13, <1>14, <1>15,
     <1>16, <1>17, <1>18 DEF MkStep

\* So does every step.
LEMMA SeenNext == MkTypeOK /\ SeenInv /\ [MkNext]_mkVars => SeenInv'
<1> SUFFICES ASSUME MkTypeOK, SeenInv, [MkNext]_mkVars PROVE SeenInv'
  OBVIOUS
<1>1. ASSUME NEW c \in MkCalls, MkStep(c) PROVE SeenInv'
  BY <1>1, SeenByCall
<1>2. CASE CacheExpires
  BY <1>2 DEF CacheExpires, SeenInv, mkRecords, mkHistory
<1>3. CASE MkCrash
  <2>1. \A c \in MkCalls : mkCall'[c].todo = <<>> /\ mkCall'[c].old \in {mkCall[c].old, NoRecord}
    BY <1>3, CrashEnds
  <2>2. /\ mkBought' = mkBought /\ mkJob' = mkJob /\ mkCompleted' = mkCompleted /\ mkShown' = mkShown
        /\ mkCached' = FALSE
    BY <1>3 DEF MkCrash, mkRecords
  <2>3. NeverSaid(NoRecord)
    BY DEF NeverSaid, NoRecord
  <2> QED
    BY <2>1, <2>2, <2>3, NoneLeft DEF SeenInv
<1>4. CASE UNCHANGED mkVars
  BY <1>4 DEF mkVars, SeenInv, mkRecords, mkMemory, mkHistory
<1> QED
  BY <1>1, <1>2, <1>3, <1>4 DEF MkNext

-----------------------------------------------------------------------------
(***************************************************************************)
(* The limit of a key.                                                     *)
(***************************************************************************)
\* What LimitInv says of one user.
Serial(u) ==
    /\ mkUsage[u] = mkServed[u] /\ mkServed[u] <= UsageLimit
    /\ \A c, d \in MkCalls :
          Busy(c) /\ Busy(d) /\ mkCall[c].user = u /\ mkCall[d].user = u => c = d
    /\ \A c \in MkCalls : Busy(c) /\ mkCall[c].user = u => Room(c)

\* The limit invariant, user by user.
LEMMA LimitBySerial == LimitInv <=> \A u \in MkUsers \ mkLoose : Serial(u)
BY DEF LimitInv, Serial

\* A request that begins does not overlap, or is noted.
LEMMA LimitBegins ==
    ASSUME MkTypeOK, LimitInv, NEW c \in MkCalls, Begins(c),
           mkUsage' = mkUsage, mkServed' = mkServed
    PROVE  LimitInv'
<1> SUFFICES ASSUME NEW u \in MkUsers, u \notin mkLoose' PROVE Serial(u)'
  BY DEF LimitInv, Serial
<1>1. Serial(u)
  BY LimitBySerial DEF Begins
<1>2. /\ \A d \in MkCalls : d # c => mkCall'[d] = mkCall[d]
      /\ StartsWell(mkCall'[c].todo)
      /\ mkCall'[c].user = u => \A d \in MkCalls : ~ (Busy(d) /\ mkCall[d].user = u)
  BY DEF Begins
<1>3. Room(c)'
  BY <1>2 DEF StartsWell, Room, At, Busy, Op
<1>4. ASSUME NEW d \in MkCalls, d # c, Busy(d)', mkCall'[d].user = u PROVE Room(d)' /\ Busy(d) /\ mkCall[d].user = u
  BY <1>1, <1>2, <1>4 DEF Serial, Busy, Room, At
<1>5. ASSUME NEW d \in MkCalls, NEW e \in MkCalls, Busy(d)', Busy(e)', mkCall'[d].user = u, mkCall'[e].user = u
      PROVE  d = e
  BY <1>1, <1>2, <1>4, <1>5 DEF Serial
<1> QED
  BY <1>1, <1>3, <1>4, <1>5 DEF Serial

\* What a step of a request leaves of the rest of Serial, for its user or another.
LEMMA OthersWait ==
    ASSUME MkTypeOK, NEW c \in MkCalls, Moves(c), NEW u \in MkUsers, Serial(u)
    PROVE  /\ \A d, e \in MkCalls :
                 Busy(d)' /\ Busy(e)' /\ mkCall'[d].user = u /\ mkCall'[e].user = u => d = e
           /\ \A d \in MkCalls : Busy(d)' /\ mkCall'[d].user = u => Busy(d) /\ mkCall[d].user = u
           /\ \A d \in MkCalls : d # c => mkCall'[d] = mkCall[d]
           /\ At(c, "setUsage")' => /\ Op(mkCall[c].todo) = "getUsage"
                                    /\ mkCall'[c].usage = mkUsage[mkCall[c].user]
           /\ Counts(mkCall'[c].todo) => Counts(mkCall[c].todo) /\ Op(mkCall[c].todo) # "setUsage"
           /\ Counts(mkCall'[c].todo) /\ mkCall'[c].todo[1] \notin Limiting =>
                 mkCall[c].todo[1] \notin Limiting \/ Op(mkCall[c].todo) = "checkLimit"
<1>1. /\ \A d \in MkCalls : d # c => mkCall'[d] = mkCall[d]
      /\ Advances(mkCall[c].todo, mkCall'[c].todo)
      /\ mkCall'[c].todo # <<>> => mkCall'[c].user = mkCall[c].user
      /\ Op(mkCall[c].todo) = "getUsage" /\ mkCall'[c].todo # <<>> =>
            mkCall'[c].usage = mkUsage[mkCall[c].user]
  BY DEF Moves
<1>2. \A d \in MkCalls : Busy(d)' /\ mkCall'[d].user = u => Busy(d) /\ mkCall[d].user = u
  BY <1>1 DEF Busy, Advances
<1>3. \A d, e \in MkCalls :
         Busy(d)' /\ Busy(e)' /\ mkCall'[d].user = u /\ mkCall'[e].user = u => d = e
  BY <1>2 DEF Serial
<1>4. At(c, "setUsage")' => /\ Op(mkCall[c].todo) = "getUsage"
                            /\ mkCall'[c].usage = mkUsage[mkCall[c].user]
  BY <1>1 DEF Advances, At, Busy, Op
<1>5. /\ Counts(mkCall'[c].todo) => Counts(mkCall[c].todo) /\ Op(mkCall[c].todo) # "setUsage"
      /\ Counts(mkCall'[c].todo) /\ mkCall'[c].todo[1] \notin Limiting =>
            mkCall[c].todo[1] \notin Limiting \/ Op(mkCall[c].todo) = "checkLimit"
  BY <1>1 DEF Advances
<1> QED
  BY <1>1, <1>2, <1>3, <1>4, <1>5

\* A step that does not change the count.
LEMMA LimitKept ==
    ASSUME MkTypeOK, LimitInv, NEW c \in MkCalls, Moves(c),
           mkUsage' = mkUsage, mkServed' = mkServed, mkLoose' = mkLoose,
           Op(mkCall[c].todo) = "checkLimit" /\ Busy(c)' => mkUsage[mkCall[c].user] < UsageLimit
    PROVE  LimitInv'
<1> SUFFICES ASSUME NEW u \in MkUsers, u \notin mkLoose PROVE Serial(u)'
  BY DEF LimitInv, Serial
<1>1. Serial(u)
  BY LimitBySerial
<1>2. /\ \A d, e \in MkCalls :
            Busy(d)' /\ Busy(e)' /\ mkCall'[d].user = u /\ mkCall'[e].user = u => d = e
      /\ \A d \in MkCalls : Busy(d)' /\ mkCall'[d].user = u => Busy(d) /\ mkCall[d].user = u
      /\ \A d \in MkCalls : d # c => mkCall'[d] = mkCall[d]
      /\ At(c, "setUsage")' => mkCall'[c].usage = mkUsage[mkCall[c].user]
      /\ Counts(mkCall'[c].todo) => Counts(mkCall[c].todo) /\ Op(mkCall[c].todo) # "setUsage"
      /\ Counts(mkCall'[c].todo) /\ mkCall'[c].todo[1] \notin Limiting =>
            mkCall[c].todo[1] \notin Limiting \/ Op(mkCall[c].todo) = "checkLimit"
  BY <1>1, OthersWait
<1>3. ASSUME NEW d \in MkCalls, d # c, Busy(d)', mkCall'[d].user = u PROVE Room(d)'
  <2>1. mkCall'[d] = mkCall[d] /\ Room(d)
    BY <1>1, <1>2, <1>3 DEF Serial
  <2> QED
    BY <2>1 DEF Room, At, Busy
<1>4. ASSUME Busy(c)', mkCall'[c].user = u PROVE Room(c)'
  <2>1. Busy(c) /\ mkCall[c].user = u /\ Room(c) /\ mkUsage[u] = mkServed[u]
    BY <1>1, <1>2, <1>4 DEF Serial
  <2>2. At(c, "setUsage")' => mkCall'[c].usage = mkUsage'[mkCall'[c].user]
    BY <1>2, <1>4, <2>1
  <2>3. ASSUME Counts(mkCall'[c].todo), mkCall'[c].todo[1] \notin Limiting
        PROVE  mkServed'[mkCall'[c].user] < UsageLimit
    <3>1. CASE Op(mkCall[c].todo) = "checkLimit"
      BY <3>1, <1>4, <2>1
    <3>2. CASE mkCall[c].todo[1] \notin Limiting
      BY <3>2, <1>2, <1>4, <2>1, <2>3 DEF Room
    <3> QED
      BY <3>1, <3>2, <1>2, <2>3
  <2> QED
    BY <2>2, <2>3 DEF Room
<1> QED
  BY <1>1, <1>2, <1>3, <1>4 DEF Serial

\* The count is raised once, and only with room for it ...
LEMMA LimitCounted ==
    ASSUME MkTypeOK, LimitInv, NEW c \in MkCalls, IncrementAPIUsage(c) PROVE LimitInv'
<1> DEFINE v == mkCall[c].user
<1>1. /\ Moves(c) /\ Busy(c) /\ mkCall[c].todo \in Todos /\ mkCall[c].todo # <<>>
      /\ Op(mkCall[c].todo) = "setUsage" /\ At(c, "setUsage") /\ mkLoose' = mkLoose
  BY IncrementMoves, AtOp, TodoType DEF IncrementAPIUsage
<1>2. Counts(mkCall[c].todo) /\ mkCall[c].todo[1] \notin Limiting /\ v \in MkUsers
  BY <1>1, FirstOf DEF MkTypeOK
<1>3. PICK m \in Nat : m = mkCall[c].usage
  BY TodoType DEF CallRecords
<1>4. PICK w \in MkUsers : w = v
  BY <1>2
<1>5. /\ mkUsage \in [MkUsers -> Nat] /\ mkServed \in [MkUsers -> Nat]
      /\ mkUsage' = [mkUsage EXCEPT ![w] = m + 1]
      /\ mkServed' = [mkServed EXCEPT ![w] = mkServed[w] + 1]
  BY <1>3, <1>4 DEF IncrementAPIUsage, Incremented, MkTypeOK
<1> SUFFICES ASSUME NEW u \in MkUsers, u \notin mkLoose PROVE Serial(u)'
  BY <1>1 DEF LimitInv, Serial
<1>6. Serial(u)
  BY LimitBySerial
<1>7. /\ \A d, e \in MkCalls :
            Busy(d)' /\ Busy(e)' /\ mkCall'[d].user = u /\ mkCall'[e].user = u => d = e
      /\ \A d \in MkCalls : Busy(d)' /\ mkCall'[d].user = u => Busy(d) /\ mkCall[d].user = u
      /\ \A d \in MkCalls : d # c => mkCall'[d] = mkCall[d]
      /\ ~ At(c, "setUsage")'
      /\ ~ Counts(mkCall'[c].todo)
  BY <1>1, <1>6, OthersWait
<1>8. Room(c)'
  BY <1>7 DEF Room
<1>9. CASE u = w
  <2>1. mkUsage[u] = mkServed[u] /\ m = mkUsage[u] /\ mkServed[u] < UsageLimit
    BY <1>1, <1>2, <1>3, <1>4, <1>6, <1>9 DEF Serial, Room
  <2>2. mkUsage'[u] = m + 1 /\ mkServed'[u] = mkServed[u] + 1
    BY <1>5, <1>9
  <2>3. PICK k \in Nat : k = mkServed[u]
    BY <1>5
  <2>4. mkUsage'[u] = mkServed'[u] /\ mkServed'[u] <= UsageLimit
    BY <2>1, <2>2, <2>3, MkAssumption
  <2>5. ASSUME NEW d \in MkCalls, Busy(d)', mkCall'[d].user = u PROVE d = c
    BY <1>1, <1>4, <1>6, <1>7, <1>9, <2>5 DEF Serial
  <2> QED
    BY <1>7, <1>8, <2>4, <2>5 DEF Serial
<1>10. CASE u # w
  <2>1. mkUsage'[u] = mkUsage[u] /\ mkServed'[u] = mkServed[u]
    BY <1>5, <1>10
  <2>2. ASSUME NEW d \in MkCalls, Busy(d)', mkCall'[d].user = u PROVE Room(d)'
    <3>1. d # c
      BY <1>4, <1>7, <1>10, <2>2
    <3>2. mkCall'[d] = mkCall[d] /\ Room(d) /\ mkCall[d].user = u
      BY <1>6, <1>7, <2>2, <3>1 DEF Serial
    <3> QED
      BY <3>2, <2>1 DEF Room, At, Busy
  <2> QED
    BY <1>6, <1>7, <2>1, <2>2 DEF Serial
<1> QED
  BY <1>9, <1>10

\* ... and a new key starts from 0.
LEMMA LimitReset ==
    ASSUME MkTypeOK, LimitInv, NEW c \in MkCalls, CreateAPIKey(c) PROVE LimitInv'
<1> DEFINE v == mkCall[c].user
<1>1. /\ Moves(c) /\ Busy(c) /\ Op(mkCall[c].todo) = "setKey" /\ mkLoose' = mkLoose
  BY CreateKeyMoves, AtOp DEF CreateAPIKey
<1>2. /\ mkUsage \in [MkUsers -> Nat] /\ mkServed \in [MkUsers -> Nat]
      /\ mkUsage' = [mkUsage EXCEPT ![v] = 0] /\ mkServed' = [mkServed EXCEPT ![v] = 0]
  BY DEF CreateAPIKey, MkTypeOK
<1> SUFFICES ASSUME NEW u \in MkUsers, u \notin mkLoose PROVE Serial(u)'
  BY <1>1 DEF LimitInv, Serial
<1>3. Serial(u)
  BY LimitBySerial
<1>4. /\ \A d, e \in MkCalls :
            Busy(d)' /\ Busy(e)' /\ mkCall'[d].user = u /\ mkCall'[e].user = u => d = e
      /\ \A d \in MkCalls : Busy(d)' /\ mkCall'[d].user = u => Busy(d) /\ mkCall[d].user = u
      /\ \A d \in MkCalls : d # c => mkCall'[d] = mkCall[d]
      /\ ~ At(c, "setUsage")'
      /\ Counts(mkCall'[c].todo) => Counts(mkCall[c].todo)
      /\ Counts(mkCall'[c].todo) /\ mkCall'[c].todo[1] \notin Limiting => mkCall[c].todo[1] \notin Limiting
  BY <1>1, <1>3, OthersWait
<1>5. /\ mkUsage'[u] \in {0, mkUsage[u]} /\ mkServed'[u] \in {0, mkServed[u]}
      /\ u = v => mkUsage'[u] = 0 /\ mkServed'[u] = 0
      /\ u # v => mkUsage'[u] = mkUsage[u] /\ mkServed'[u] = mkServed[u]
  BY <1>2
<1>6. mkUsage'[u] = mkServed'[u] /\ mkServed'[u] <= UsageLimit
  BY <1>2, <1>3, <1>5, MkAssumption DEF Serial
<1>7. \A n : n = mkServed[u] => (n < UsageLimit => mkServed'[u] < UsageLimit)
  <2>1. PICK n \in Nat : n = mkServed[u]
    BY <1>2
  <2>2. n < UsageLimit => 0 < UsageLimit
    BY MkAssumption
  <2> QED
    BY <2>1, <2>2, <1>5
<1>8. ASSUME NEW d \in MkCalls, Busy(d)', mkCall'[d].user = u PROVE Room(d)'
  <2>1. Room(d) /\ mkCall[d].user = u /\ Busy(d)
    BY <1>3, <1>4, <1>8 DEF Serial
  <2>2. CASE d = c
    BY <2>1, <2>2, <1>4, <1>7, <1>8 DEF Room
  <2>3. CASE d # c
    <3>1. mkCall'[d] = mkCall[d] /\ u # v
      BY <1>1, <1>3, <1>4, <2>1, <2>3 DEF Serial
    <3> QED
      BY <3>1, <2>1, <1>5 DEF Room, At, Busy
  <2> QED
    BY <2>2, <2>3
<1> QED
  BY <1>4, <1>6, <1>8 DEF Serial

\* A step of a call keeps the count of its user, if that user makes one request at a time.
LEMMA LimitByCall ==
    ASSUME MkTypeOK, LimitInv, NEW c \in MkCalls, MkStep(c) PROVE LimitInv'
<1> DEFINE Kept == mkUsage' = mkUsage /\ mkServed' = mkServed
           Unnoted == Kept /\ mkLoose' = mkLoose
           Elsewhere == Moves(c) /\ Op(mkCall[c].todo) # "checkLimit"
<1>1. ASSUME Elsewhere, Unnoted PROVE LimitInv'
  BY <1>1, LimitKept
<1>2. CASE MkRequest(c)
  <2>1. Begins(c) /\ Kept
    BY <1>2, RequestBegins DEF MkRequest, Starts, mkRecords
  <2> QED
    BY <2>1, LimitBegins
<1>3. CASE AnswerArrives(c)
  <2>1. Begins(c) /\ Kept
    BY <1>3, AnswerBegins DEF AnswerArrives, mkRecords, mkHistory
  <2> QED
    BY <2>1, LimitBegins
<1>4. CASE Authorizes(c) \/ GetUsage(c)
  BY <1>1, <1>4, AuthorizesMoves, GetUsageMoves, GetUsageFrame, AtOp
     DEF Authorizes, mkRecords, mkHistory
<1>5. CASE CheckRateLimit(c)
  <2>1. Moves(c) /\ Unnoted
    BY <1>5, CheckMoves DEF CheckRateLimit, mkRecords, mkHistory
  <2>2. ASSUME Busy(c)' PROVE mkUsage[mkCall[c].user] < UsageLimit
    <3>1. ~ EndsWith(c, <<>>)
      BY <2>2 DEF EndsWith, Over, IdleCall, Busy, MkTypeOK
    <3> QED
      BY <3>1, <1>5 DEF CheckRateLimit, WithinLimit
  <2> QED
    BY <2>1, <2>2, LimitKept
<1>6. CASE IncrementAPIUsage(c)
  BY <1>6, LimitCounted
<1>7. CASE CreateAPIKey(c)
  BY <1>7, LimitReset
<1>8. CASE Create(c)
  BY <1>1, <1>8, CreateMoves, AtOp DEF Create, mkHistory
<1>9. CASE GetJob(c) \/ Reads(c) \/ Index(c)
  <2>1. Unnoted
    BY <1>9 DEF GetJob, Reads, Index, mkRecords, mkHistory
  <2>2. Elsewhere
    BY <1>9, GetJobMoves, GetJobFrame, ReadsMoves, IndexMoves, AtOp DEF Reads, Index
  <2> QED
    BY <1>1, <2>1, <2>2
<1>10. CASE SetJob(c)
  BY <1>1, <1>10, SetJobMoves, AtOp DEF SetJob, mkHistory
<1>11. CASE \E s \in JobStates : SetState(c, s)
  <2>1. PICK s \in JobStates : SetState(c, s)
    BY <1>11
  <2>2. Moves(c) /\ Op(mkCall[c].todo) = s
    BY <2>1, SetStateMoves, AtOp DEF SetState
  <2>3. s # "checkLimit"
    BY DEF JobStates
  <2>4. Unnoted
    BY <2>1 DEF SetState
  <2> QED
    BY <1>1, <2>2, <2>3, <2>4
<1>12. CASE Emits(c)
  <2>1. Op(mkCall[c].todo) \in {"emitError"} \cup Contents
    BY <1>12, AtOp DEF Emits
  <2>2. Unnoted
    BY <1>12 DEF Emits, mkRecords, mkHistory
  <2> QED
    BY <1>1, <1>12, <2>1, <2>2, EmitsMoves DEF Contents
<1>13. CASE Waits(c)
  BY <1>1, <1>13, WaitsMoves, AtOp DEF Waits, mkRecords, mkHistory
<1>14. CASE GetCachedJobDetails(c) \/ SetCachedJobDetails(c) \/ Serves(c)
  <2>1. Op(mkCall[c].todo) \in {"cached", "remember", "serve"}
    BY <1>14, AtOp DEF GetCachedJobDetails, SetCachedJobDetails, Serves
  <2>2. Unnoted
    BY <1>14 DEF GetCachedJobDetails, SetCachedJobDetails, Serves, mkRecords
  <2>3. Moves(c)
    BY <1>14, CachedMoves, RememberMoves, ServesMoves
  <2> QED
    BY <1>1, <2>1, <2>2, <2>3
<1>15. CASE HasPurchaseAccess(c)
  BY <1>1, <1>15, AccessMoves, AtOp DEF HasPurchaseAccess, mkRecords
<1>16. CASE StorePurchase(c)
  BY <1>1, <1>16, StorePurchaseMoves, AtOp DEF StorePurchase, mkHistory
<1>17. CASE Confirms(c)
  BY <1>1, <1>17, ConfirmsMoves, AtOp DEF Confirms, mkRecords
<1> QED
  BY <1>2, <1>3, <1>4, <1>5, <1>6, <1>7, <1>8, <1>9, <1>10, <1>11, <1>12, <1>13, <1>14, <1>15,
     <1>16, <1>17 DEF MkStep

\* So does every step.
LEMMA LimitNext == MkTypeOK /\ LimitInv /\ [MkNext]_mkVars => LimitInv'
<1> SUFFICES ASSUME MkTypeOK, LimitInv, [MkNext]_mkVars PROVE LimitInv'
  OBVIOUS
<1>1. ASSUME NEW c \in MkCalls, MkStep(c) PROVE LimitInv'
  BY <1>1, LimitByCall
<1>2. CASE CacheExpires
  BY <1>2 DEF CacheExpires, LimitInv, Room, At, Busy, mkRecords, mkHistory
<1>3. CASE MkCrash
  <2>1. \A c \in MkCalls : mkCall'[c].todo = <<>>
    BY <1>3, CrashEnds
  <2>2. mkUsage' = mkUsage /\ mkServed' = mkServed /\ mkLoose \subseteq mkLoose'
    BY <1>3 DEF MkCrash, mkRecords
  <2> QED
    BY <2>1, <2>2 DEF LimitInv, Busy
<1>4. CASE UNCHANGED mkVars
  BY <1>4 DEF mkVars, LimitInv, Room, At, Busy, mkRecords, mkMemory, mkHistory
<1> QED
  BY <1>1, <1>2, <1>3, <1>4 DEF MkNext

-----------------------------------------------------------------------------
\* The invariants hold at the start.
LEMMA MkInitInvs == MkInit => BoughtInv /\ SeenInv /\ LimitInv
<1> SUFFICES ASSUME MkInit PROVE BoughtInv /\ SeenInv /\ LimitInv
  OBVIOUS
<1>1. \A c \in MkCalls : mkCall[c].todo = <<>> /\ mkCall[c].old = NoRecord
  BY DEF MkInit, IdleCall
<1>2. NeverSaid(NoRecord)
  BY DEF NeverSaid, NoRecord
<1>3. BoughtInv
  BY <1>1 DEF MkInit, BoughtInv, At, Busy
<1>4. SeenInv
  BY <1>1, <1>2, NoneLeft DEF MkInit, SeenInv
<1>5. LimitInv
  <2>1. \A c \in MkCalls : ~Busy(c)
    BY <1>1 DEF Busy
  <2>2. \A u \in MkUsers : mkUsage[u] = 0 /\ mkServed[u] = 0
    BY DEF MkInit
  <2>3. 0 <= UsageLimit
    BY MkAssumption
  <2>4. \A u \in MkUsers : mkUsage[u] = mkServed[u] /\ mkServed[u] <= UsageLimit
    BY <2>2, <2>3
  <2> QED
    BY <2>1, <2>4 DEF LimitInv
<1> QED
  BY <1>3, <1>4, <1>5

\* Records and requests stay well formed: what a request may still have to do,
\* whatever function it failed in.
THEOREM MarketTypeCorrect == MkSpec => []MkTypeOK
BY MkInitTypeOK, MkNextTypeOK, PTL DEF MkSpec

\* A key never serves more requests than its limit, as long as its user makes
\* them one at a time: checkRateLimit reads the count before the job is created
\* and incrementAPIUsage writes it after the answer.
THEOREM LimitHolds == MkSpec => []LimitRespected
<1>1. MkInit => MkTypeOK /\ LimitInv
  BY MkInitTypeOK, MkInitInvs
<1>2. MkTypeOK /\ LimitInv /\ [MkNext]_mkVars => MkTypeOK' /\ LimitInv'
  BY MkNextTypeOK, LimitNext
<1>3. LimitInv => LimitRespected
  BY DEF LimitInv, LimitRespected
<1> QED
  BY <1>1, <1>2, <1>3, PTL DEF MkSpec

\* Who was told of a purchase has it, and finds it in the list of purchases, but
\* for a crash or a request between the two writes of storePurchase.
THEOREM PurchasesListed == MkSpec => []PurchaseIsListed
<1>1. MkInit => MkTypeOK /\ BoughtInv
  BY MkInitTypeOK, MkInitInvs
<1>2. MkTypeOK /\ BoughtInv /\ [MkNext]_mkVars => MkTypeOK' /\ BoughtInv'
  BY MkNextTypeOK, BoughtNext
<1>3. BoughtInv => PurchaseIsListed
  BY DEF BoughtInv, PurchaseIsListed
<1> QED
  BY <1>1, <1>2, <1>3, PTL DEF MkSpec

\* Nothing of a job is sold, shown or cached before it was completed, though
\* its whole record is written back from copies of any age.
THEOREM OnlyCompletedIsSeen == MkSpec => []SeenOnlyCompleted
<1>1. MkInit => MkTypeOK /\ SeenInv
  BY MkInitTypeOK, MkInitInvs
<1>2. MkTypeOK /\ SeenInv /\ [MkNext]_mkVars => MkTypeOK' /\ SeenInv'
  BY MkNextTypeOK, SeenNext
<1>3. SeenInv => SeenOnlyCompleted
  BY DEF SeenInv, SeenOnlyCompleted
<1> QED
  BY <1>1, <1>2, <1>3, PTL DEF MkSpec
-----------------------------------------------------------------------------
(* Scripts.                                                                *)

\* A script is where its kind can be.
ScInPlace ==
    /\ script.op = "none" <=> script.pc = "idle"
    /\ script.op \in {"add", "clean"} => script.pc \in {"each", "done"}
    /\ script.op = "fix" => script.pc \in {"each", "sum", "fetch", "pay", "done"}
    /\ script.op = "codes" => script.pc \notin {"each", "sum", "fetch", "pay"}
    /\ script.pc \in {"sum", "fetch", "pay"} => script.user \in script.todo
    /\ script.pc = "each" => script.user = ScNone
    /\ script.pc \in {"audit", "done", "fixing", "indexing", "others"} => script.user = ScNone
    /\ script.pc \in {"done", "fixing", "indexing", "write"} => script.todo = {}
    /\ script.pc \in {"fixing", "others", "update", "set", "old", "drop"} => script.stage = "fix"
    /\ script.pc \in {"indexing", "write"} => script.stage = "index"
    /\ script.pc \in {"update", "set", "old", "drop"} =>
          script.user \in script.todo /\ script.new \in ScCodes
    /\ script.pc \in {"others", "update", "set", "old", "drop", "write"} => script.code \in ScCodes
    /\ script.pc = "write" => script.user \in ScUsers

\* Clients are never removed: copies, loops and jobs are of clients that are there.
ScKnown ==
    /\ \A u \in ScUsers : scClient[u].code = ScNone => scClient[u] = NoClient
    /\ \A u \in ScUsers : script.seen[u].code = ScNone => script.seen[u] = NoClient
    /\ \A u \in script.todo : scClient[u].code # ScNone
    /\ script.pc \in {"each", "sum", "fetch", "pay", "audit"} => 
          \A u \in script.todo : script.seen[u].code # ScNone
    /\ \A u \in ScUsers : scWork[u] # {} => scClient[u].code # ScNone
    /\ \A u \in ScUsers : scPaying[u] \subseteq scWork[u] /\ IsFiniteSet(scPaying[u])
    /\ \A u \in scCreating : scClient[u].code # ScNone

ScWell == ScTypeOK /\ ScInPlace /\ ScKnown

\* Until a client is migrated it has the one job of before; after that its jobs
\* are in activeJobs.
JobsInv ==
    \A u \in ScUsers \ scOverwrote :
       IF scClient[u].multi THEN scWork[u] \subseteq scClient[u].active
       ELSE /\ scWork[u] \subseteq scClient[u].legacy
            /\ scClient[u].active = {}
            /\ \A i, k \in scClient[u].legacy : i = k

\* What a client has and is about to get, and what an old copy of it had, is owed.
OwedInv ==
    \A u \in ScUsers :
       /\ scEarned[u] <= scDue[u] /\ scLedger[u] <= scDue[u]
       /\ u \notin scRaced =>
             /\ scClient[u].balance + Cardinality(scPaying[u]) <= scDue[u]
             /\ script.seen[u].balance + Cardinality(scPaying[u]) <= scDue[u]

\* The compensation at work knows the balance, and what is missing.
CheckInv ==
    script.op = "fix" /\ script.user \in ScUsers \ scRaced =>
       LET u == script.user
       IN  /\ scPaying[u] = {}
           /\ script.pc \in {"sum", "fetch", "pay"} /\ script.read = scClient[u].balance
           /\ script.pc \in {"fetch", "pay"} => script.read + script.owed \in {scEarned[u], scLedger[u]}

Settled(u) ==
    LET due == scClient[u].balance + Cardinality(scPaying[u])
    IN  due >= scEarned[u] \/ due >= scLedger[u]
SettledInv ==
    script.op = "fix" =>
       \A u \in ScUsers \ scRaced : script.seen[u] # NoClient /\ u \notin script.todo => Settled(u)

PointsInv == OwedInv /\ CheckInv /\ SettledInv

\* What a copy says of a client's code is true, but while codes are replaced.
SeenCodes ==
    ~ (script.op = "codes" /\ script.stage = "fix") =>
       /\ \A u \in ScUsers : script.seen[u].code \in {ScNone, scClient[u].code}
       /\ \A e \in script.missing : scClient[e[1]].code = e[2]
\* The code of a client being created is its own.
OwnCodes ==
    /\ \A v \in scCreating : \A w \in ScUsers \ {v} : scClient[v].code # scClient[w].code
    /\ script.pc \in {"update", "set"} => \A v \in scCreating : scClient[v].code # script.new
\* The client whose code is replaced, and those who are next.
Replacing ==
    /\ script.pc \in {"others", "update", "set", "old", "drop"} => script.todo \cap scCreating = {}
    /\ script.pc \in {"others", "update"} => \A u \in script.todo : scClient[u].code = script.code
    /\ script.pc \in {"set", "old", "drop"} =>
          \A u \in script.todo \ {script.user} : scClient[u].code = script.code
    /\ script.pc = "set" => scClient[script.user].code = script.new \/ script.new \in scBroken
    /\ script.pc = "write" => scClient[script.user].code = script.code
EntriesLead ==
    \A c \in ScCodes \ scBroken :
       scLookup[c] # ScNone /\ scClient[scLookup[c]].code # c =>
          script.pc \in {"set", "old", "drop"} /\ script.user = scLookup[c] /\ script.code = c
Auditing == script.op = "codes" /\ script.stage # "fix"
\* What the audit at work has passed is indexed or reported missing.
Audited ==
    Auditing =>
       /\ \A c \in script.dups : scLookup[c] # ScNone
       /\ \A u \in ScUsers \ script.todo :
             LET c == script.seen[u].code
             IN  /\ c \notin scBroken \cup {ScNone} =>
                       \/ scLookup[c] # ScNone
                       \/ <<u, c>> \in script.missing
                       \/ (script.pc = "write" /\ script.code = c)
                 /\ c # ScNone /\ script.stage = "verify" /\ script.missing = {} /\ script.dups = {} =>
                       scLookup[c] = u
       \* Clients that came since are indexed when their creation ends.
       /\ \A u \in ScUsers \ scCreating :
             LET c == scClient[u].code
             IN  /\ script.seen[u].code = ScNone /\ c # ScNone => scLookup[c] # ScNone
                 /\ script.stage = "verify" /\ c \notin scBroken \cup {ScNone} => scLookup[c] # ScNone
Reported ==
    /\ script.report # "none" => script.pc = "done"
    /\ script.report = "success" => script.stage = "verify" /\ script.missing = {} /\ script.dups = {}
    /\ script.op = "codes" /\ script.pc = "done" =>
          script.stage = "verify" \/ (script.stage = "initial" /\ script.missing = {})
CodesInv == SeenCodes /\ OwnCodes /\ Replacing /\ EntriesLead /\ Audited /\ Reported

\* The server.
LEMMA ScServerWell == ASSUME ScWell, ServerStep PROVE ScWell'
<1> USE DEF ScWell, ScTypeOK, serverVars, scHistories
<1>1. ASSUME NEW u \in ScUsers, NEW j \in ScJobs, ScAssigns(u, j) PROVE ScWell'
  <2>0. /\ scClient' = [scClient EXCEPT ![u] = Given(scClient[u], j)]
        /\ scClient[u] \in ClientRecords
    BY <1>1 DEF ScAssigns
  <2>00. Given(scClient[u], j) \in ClientRecords /\ Given(scClient[u], j).code = scClient[u].code
    BY <2>0 DEF ClientRecords, Given
  <2>1. ScTypeOK'
    BY <1>1, <2>0, <2>00 DEF ScAssigns
  <2>2. ScInPlace'
    BY <1>1 DEF ScAssigns, ScInPlace
  <2>3. scClient[u].code # ScNone
    BY <1>1 DEF ScAssigns, ScKnown, Known
  <2>4. \A v \in ScUsers : scClient'[v].code = scClient[v].code
    BY <2>0, <2>00
  <2>5. \A v \in ScUsers \ {u} : scClient'[v] = scClient[v]
    BY <1>1 DEF ScAssigns
  <2>6. ScKnown'
    BY <1>1, <2>3, <2>4, <2>5 DEF ScAssigns, ScKnown, ScriptRecords
  <2> QED
    BY <2>1, <2>2, <2>6
<1>2. ASSUME NEW u \in ScUsers, NEW j \in ScJobs, ScCompletes(u, j) PROVE ScWell'
  <2>1. ScTypeOK'
    BY <1>2 DEF ScCompletes, ClientRecords
  <2>2. ScInPlace' 
    BY <1>2 DEF ScCompletes, ScInPlace
  <2>3. ScKnown'
    BY <1>2, FS_AddElement DEF ScCompletes, ScKnown
  <2> QED
    BY <2>1, <2>2, <2>3
<1>3. ASSUME NEW u \in ScUsers, NEW j \in ScJobs, ScCredits(u, j) PROVE ScWell'
  <2>0. /\ scClient' = [scClient EXCEPT ![u] = Rewarded(scClient[u], j)]
        /\ scClient[u] \in ClientRecords
    BY <1>3 DEF ScCredits
  <2>00. Rewarded(scClient[u], j) \in ClientRecords
         /\ Rewarded(scClient[u], j).code = scClient[u].code
    <3>1. PICK client : client = scClient[u]
      OBVIOUS
    <3>2. client \in ClientRecords
      BY <2>0, <3>1
    <3>3. PICK active, balance : active = client.active \ {j} /\ balance = client.balance + 1
      OBVIOUS
    <3>4. active \in SUBSET ScJobs /\ balance \in Nat
      BY <3>2, <3>3 DEF ClientRecords
    <3>5. PICK r : r = [client EXCEPT !.multi = TRUE, !.active = active, !.balance = balance]
      OBVIOUS
    <3>6. r \in ClientRecords /\ r.code = client.code
      BY <3>2, <3>4, <3>5 DEF ClientRecords
    <3>7. r = Rewarded(client, j)
      BY <3>3, <3>5, Zenon DEF Rewarded
    <3> QED
      BY <3>1, <3>6, <3>7
  <2>000. /\ scPaying' = [scPaying EXCEPT ![u] = scPaying[u] \ {j}]
          /\ scWork' = [scWork EXCEPT ![u] = scWork[u] \ {j}]
          /\ scRaced' \in {scRaced, scRaced \cup {u}}
          /\ j \in scPaying[u]
          /\ UNCHANGED <<scLookup, scEarned, scLedger, scCreating, scTaken, scDue, script, scRuns,
                        scOverwrote, scBroken>>
    BY <1>3 DEF ScCredits
  <2>1. ScTypeOK'
    <3>1. scClient' \in [ScUsers -> ClientRecords]
      BY <2>0, <2>00
    <3>2. /\ scPaying' \in [ScUsers -> SUBSET ScJobs] /\ scWork' \in [ScUsers -> SUBSET ScJobs]
          /\ scRaced' \in SUBSET ScUsers
      BY <2>000
    <3> QED
      BY <2>000, <3>1, <3>2
  <2>2. ScInPlace' 
    BY <1>3 DEF ScCredits, ScInPlace
  <2>3. ScKnown'
    <3>1. \A v \in ScUsers : scClient'[v].code = scClient[v].code /\ (v # u => scClient'[v] = scClient[v])
      BY <2>0, <2>00
    <3>2. scClient[u].code # ScNone
      BY <1>3 DEF ScCredits, ScKnown
    <3>3. scPaying'[u] = scPaying[u] \ {j} /\ IsFiniteSet(scPaying'[u])
      BY <2>000, FS_RemoveElement DEF ScKnown
    <3>4. \A v \in ScUsers : scPaying'[v] \subseteq scWork'[v] /\ IsFiniteSet(scPaying'[v])
      BY <2>000, <3>3 DEF ScKnown
    <3>5. \A v \in ScUsers : scWork'[v] # {} => scWork[v] # {}
      BY <2>000
    <3>6. \A v \in ScUsers : scClient'[v].code = ScNone => scClient'[v] = NoClient
      BY <3>1, <3>2 DEF ScKnown
    <3>7. script' = script /\ scCreating' = scCreating
      BY <2>000
    <3>8. \A v \in ScUsers : scWork'[v] # {} => scClient'[v].code # ScNone
      BY <3>1, <3>5 DEF ScKnown
    <3>9. \A v \in scCreating' : scClient'[v].code # ScNone
      BY <3>1, <3>7 DEF ScKnown
    <3>10. \A v \in script'.todo : scClient'[v].code # ScNone
      BY <3>1, <3>7 DEF ScKnown, ScriptRecords
    <3>11. /\ \A v \in ScUsers : script'.seen[v].code = ScNone => script'.seen[v] = NoClient
           /\ script'.pc \in {"each", "sum", "fetch", "pay", "audit"} =>
                \A v \in script'.todo : script'.seen[v].code # ScNone
      BY <3>7 DEF ScKnown
    <3> QED
      BY <3>4, <3>6, <3>8, <3>9, <3>10, <3>11 DEF ScKnown
  <2> QED
    BY <2>1, <2>2, <2>3
<1>4. ASSUME NEW u \in ScUsers, NEW c \in ScCodes, ScCreates(u, c) PROVE ScWell'
  <2>1. ScTypeOK'
    BY <1>4 DEF ScCreates, ClientRecords, NewClient, NoClient
  <2>2. ScInPlace' 
    BY <1>4 DEF ScCreates, ScInPlace
  <2>3. c # ScNone /\ NewClient(c).code = c
    BY ScriptsAssumption DEF NewClient, NoClient
  <2>4. /\ scClient' = [scClient EXCEPT ![u] = NewClient(c)]
        /\ scCreating' = scCreating \cup {u}
        /\ UNCHANGED <<scPaying, scWork, script>>
    BY <1>4 DEF ScCreates
  <2>5. ScKnown'
    BY <2>3, <2>4 DEF ScKnown
  <2> QED
    BY <2>1, <2>2, <2>5
<1>5. ASSUME NEW u \in ScUsers, ScIndexes(u) PROVE ScWell'
  <2>1. ScTypeOK'
    BY <1>5 DEF ScIndexes, ClientRecords, ScKnown
  <2>2. ScInPlace' /\ ScKnown'
    BY <1>5 DEF ScIndexes, ScInPlace, ScKnown
  <2> QED
    BY <2>1, <2>2
<1> QED
  BY <1>1, <1>2, <1>3, <1>4, <1>5 DEF ServerStep

\* The next client of a loop, and the end of it.
LEMMA AfterWell ==
    ASSUME ScWell, NEW u \in ScUsers, script' = After(u), u \in script.todo,
           script.op \in {"add", "clean", "fix"}
    PROVE  /\ script' \in ScriptRecords
           /\ ScInPlace'
           /\ script'.op = script.op /\ script'.seen = script.seen
           /\ script'.todo = script.todo \ {u}
           /\ script'.user = ScNone
           /\ script'.stage = script.stage /\ script'.missing = script.missing
           /\ script'.dups = script.dups /\ script'.report = script.report
           /\ script'.pc \in {"each", "done"}
<1>1. script \in ScriptRecords
  BY DEF ScWell, ScTypeOK
<1>2. /\ script' \in ScriptRecords
      /\ script'.op = script.op /\ script'.seen = script.seen
      /\ script'.todo = script.todo \ {u}
      /\ script'.user = ScNone
      /\ script'.stage = script.stage /\ script'.missing = script.missing
      /\ script'.dups = script.dups /\ script'.report = script.report
      /\ script'.pc = IF script.todo = {u} THEN "done" ELSE "each"
  BY <1>1 DEF After, ScriptRecords
<1>3. ScInPlace'
  BY <1>2 DEF ScWell, ScInPlace
<1> QED
  BY <1>2, <1>3

LEMMA IdleWell == NoClient \in ClientRecords /\ ScriptIdle \in ScriptRecords /\ NoClient.code = ScNone
<1>1. NoClient \in ClientRecords /\ NoClient.code = ScNone
  BY DEF NoClient, ClientRecords
<1>2. [u \in ScUsers |-> NoClient] \in [ScUsers -> ClientRecords]
  BY <1>1
<1> QED
  BY <1>1, <1>2 DEF ScriptIdle, ScriptRecords

LEMMA StartedScript ==
    ASSUME NEW op \in {"add", "clean", "fix", "codes"}, NEW p \in {"audit", "each"},
           NEW todo \in SUBSET ScUsers, NEW seen \in [ScUsers -> ClientRecords]
    PROVE  [ScriptIdle EXCEPT !.op = op, !.pc = p, !.todo = todo, !.seen = seen] \in ScriptRecords
<1>1. ScriptIdle \in ScriptRecords
  BY IdleWell
<1> QED
  BY <1>1 DEF ScriptRecords

\* A script begins.
LEMMA ScStartsWell == ASSUME ScWell, NEW op \in {"add", "clean", "fix", "codes"}, ScStarts(op) PROVE ScWell'
<1> USE DEF ScWell, ScTypeOK, serverVars, scHistories
<1>1. script' \in ScriptRecords
  <2>1. Known \in SUBSET ScUsers
    BY DEF Known
  <2> QED
    <3> DEFINE p == IF op = "codes" THEN "audit" ELSE "each"
    <3>1. p \in {"audit", "each"}
      OBVIOUS
    <3>2. script' = [ScriptIdle EXCEPT !.op = op, !.pc = p, !.todo = Known, !.seen = scClient]
      BY DEF ScStarts
    <3> HIDE DEF p
    <3> QED
      BY <2>1, <3>1, <3>2, StartedScript
<1>2. /\ script'.op = op /\ script'.pc = (IF op = "codes" THEN "audit" ELSE "each")
      /\ script'.todo = Known /\ script'.seen = scClient /\ script'.user = ScNone
      /\ script'.stage = "initial"
  BY DEF ScStarts, ScriptIdle
<1>3. ScInPlace'
  BY <1>2 DEF ScInPlace
<1>4. Known = {u \in ScUsers : scClient[u].code # ScNone}
  BY IdleWell DEF Known, ScKnown
<1>5. ScKnown'
  BY <1>2, <1>4 DEF ScKnown, ScStarts
<1> QED
  BY <1>1, <1>3, <1>5, ScriptsAssumption DEF ScStarts

\* A copy that goes back.
LEMMA ReplacesWell ==
    ASSUME ScWell, NEW u \in ScUsers, NEW client \in ClientRecords, u \in script.todo,
           script.op \in {"add", "clean"}, script' = After(u),
           client.code # ScNone, Replaces(u, client),
           UNCHANGED <<scLookup, serverVars, scRuns, scRaced, scBroken>>
    PROVE  ScWell'
<1> USE DEF ScWell, ScTypeOK, serverVars
<1>1. /\ script' \in ScriptRecords /\ ScInPlace' /\ script'.seen = script.seen
      /\ script'.todo = script.todo \ {u} /\ script.todo \subseteq ScUsers
  BY AfterWell DEF ScriptRecords
<1>2. ScTypeOK'
  BY <1>1 DEF Replaces
<1>3. ScKnown'
  <2>1. scClient' = [scClient EXCEPT ![u] = client]
    BY DEF Replaces
  <2>2. script.pc \in {"each", "sum", "fetch", "pay", "audit"} \/ script'.pc = "done"
    BY AfterWell DEF ScInPlace
  <2> QED
    BY <1>1, <2>1, <2>2 DEF ScKnown
<1> QED
  BY <1>1, <1>2, <1>3

LEMMA ScClientWell == ASSUME ScWell, ClientStep PROVE ScWell'
<1> USE DEF ScWell, ScTypeOK, serverVars, scHistories
<1>1. ASSUME NEW u \in ScUsers, AddMultiJobToClient(u) PROVE ScWell'
  <2>1. u \in script.todo /\ script.pc = "each" /\ script.op = "add" /\ script' = After(u)
    BY <1>1 DEF AddMultiJobToClient, Each
  <2>2. script.seen[u] \in ClientRecords /\ script.seen[u].code # ScNone
    BY <2>1 DEF ScKnown, ScriptRecords
  <2>3. CASE script.seen[u].multi
    <3>1. UNCHANGED <<scClient, scOverwrote, scLookup, serverVars, scRuns, scRaced, scBroken>>
      BY <1>1, <2>3 DEF AddMultiJobToClient
    <3> QED
      BY <2>1, <3>1, AfterWell DEF ScKnown
  <2>4. CASE ~ script.seen[u].multi
    <3> DEFINE client == [script.seen[u] EXCEPT !.multi = TRUE, !.active = script.seen[u].legacy]
    <3>1. client \in ClientRecords /\ client.code # ScNone
      BY <2>2 DEF ClientRecords
    <3>2. Replaces(u, client) /\ UNCHANGED <<scLookup, serverVars, scRuns, scRaced, scBroken>>
      BY <1>1, <2>4 DEF AddMultiJobToClient
    <3> HIDE DEF client
    <3> QED
      BY <2>1, <3>1, <3>2, ReplacesWell
  <2> QED
    BY <2>3, <2>4
<1>2. ASSUME NEW u \in ScUsers, CleanupClient(u) PROVE ScWell'
  <2>1. u \in script.todo /\ script.pc = "each" /\ script.op = "clean" /\ script' = After(u)
    BY <1>2 DEF CleanupClient, Each
  <2>2. script.seen[u] \in ClientRecords /\ script.seen[u].code # ScNone
    BY <2>1 DEF ScKnown, ScriptRecords
  <2>3. CASE ~ Cleanable(script.seen[u])
    <3>1. UNCHANGED <<scClient, scOverwrote, scLookup, serverVars, scRuns, scRaced, scBroken>>
      BY <1>2, <2>3 DEF CleanupClient
    <3> QED
      BY <2>1, <3>1, AfterWell DEF ScKnown
  <2>4. CASE Cleanable(script.seen[u])
    <3> DEFINE client == [script.seen[u] EXCEPT !.old = FALSE, !.legacy = {}]
    <3>1. client \in ClientRecords /\ client.code # ScNone
      BY <2>2 DEF ClientRecords
    <3>2. Replaces(u, client) /\ UNCHANGED <<scLookup, serverVars, scRuns, scRaced, scBroken>>
      BY <1>2, <2>4 DEF CleanupClient
    <3> HIDE DEF client
    <3> QED
      BY <2>1, <3>1, <3>2, ReplacesWell
  <2> QED
    BY <2>3, <2>4
<1>3. ASSUME NEW u \in ScUsers, CheckUserDiscrepancy(u) PROVE ScWell'
  <2>1. u \in script.todo /\ script.pc = "each" /\ script.op = "fix"
    BY <1>3 DEF CheckUserDiscrepancy, Each
  <2>2. script' = [script EXCEPT !.pc = "sum", !.user = u, !.read = scClient[u].balance]
    BY <1>3 DEF CheckUserDiscrepancy
  <2>3. scClient[u].balance \in Nat
    BY DEF ClientRecords
  <2>4. script' \in ScriptRecords
    BY <2>2, <2>3 DEF ScriptRecords
  <2>5. ScInPlace'
    BY <2>1, <2>2 DEF ScInPlace, ScriptRecords
  <2>6. ScKnown'
    <3>1. /\ script'.todo = script.todo /\ script'.seen = script.seen
          /\ UNCHANGED <<scClient, serverVars>>
      BY <1>3, <2>2 DEF CheckUserDiscrepancy, ScriptRecords
    <3> QED
      BY <2>1, <3>1 DEF ScKnown
  <2> QED
    BY <1>3, <2>4, <2>5, <2>6 DEF CheckUserDiscrepancy
<1>4. CASE CalculateExpectedBalance
  <2>1. script.pc = "sum" /\ UNCHANGED <<scClient, scLookup, serverVars, scRuns, scHistories>>
    BY <1>4 DEF CalculateExpectedBalance
  <2>2. script.op = "fix" /\ script.user \in script.todo /\ script.user \in ScUsers
    BY <2>1 DEF ScInPlace, ScriptRecords
  <2>3. CASE script' = After(script.user)
    <3>1. /\ script' \in ScriptRecords /\ ScInPlace' /\ script'.seen = script.seen
          /\ script'.todo = script.todo \ {script.user} /\ script.todo \subseteq ScUsers
      BY <2>2, <2>3, AfterWell DEF ScriptRecords
    <3>3. script.pc = "sum"
      BY <2>1
    <3>2. ScKnown'
      BY <2>1, <3>1 DEF ScKnown
    <3> QED
      BY <2>1, <3>1, <3>2
  <2>4. ASSUME NEW expected \in {scEarned[script.user], scLedger[script.user]},
               expected > script.read,
               script' = [script EXCEPT !.pc = "fetch", !.owed = expected - script.read]
        PROVE  ScWell'
    <3>1. expected - script.read \in Nat
      BY <2>2, <2>4 DEF ScriptRecords
    <3>2. script' \in ScriptRecords
      BY <2>4, <3>1 DEF ScriptRecords
    <3>3. ScInPlace'
      BY <2>1, <2>4 DEF ScInPlace, ScriptRecords
    <3>4. ScKnown'
      BY <2>1, <2>4 DEF ScKnown, ScriptRecords
    <3> QED
      BY <2>1, <3>2, <3>3, <3>4
  <2> QED
    BY <1>4, <2>3, <2>4 DEF CalculateExpectedBalance
<1>5. CASE CompensateUser
  <2>1. /\ script.pc = "fetch" /\ UNCHANGED <<scClient, scLookup, serverVars, scRuns, scHistories>>
        /\ script' = [script EXCEPT !.pc = "pay", !.read = scClient[script.user].balance]
    BY <1>5 DEF CompensateUser
  <2>2. script.op = "fix" /\ script.user \in script.todo /\ script.user \in ScUsers
    BY <2>1 DEF ScInPlace, ScriptRecords
  <2>3. scClient[script.user].balance \in Nat
    BY <2>2 DEF ClientRecords
  <2>4. script' \in ScriptRecords
    BY <2>1, <2>3 DEF ScriptRecords
  <2>5. ScInPlace'
    BY <2>1, <2>2 DEF ScInPlace, ScriptRecords
  <2>6. ScKnown'
    BY <2>1 DEF ScKnown, ScriptRecords
  <2> QED
    BY <2>1, <2>4, <2>5, <2>6
<1>6. CASE Compensates
  <2>1. /\ script.pc = "pay" /\ UNCHANGED <<scLookup, serverVars, scRuns, scHistories>>
        /\ script' = After(script.user)
        /\ scClient' = [scClient EXCEPT ![script.user].balance = Compensated(script.read, script.owed)]
    BY <1>6 DEF Compensates
  <2>2. script.op = "fix" /\ script.user \in script.todo /\ script.user \in ScUsers
    BY <2>1 DEF ScInPlace, ScriptRecords
  <2>3. Compensated(script.read, script.owed) \in Nat
    BY DEF ScriptRecords, Compensated
  <2>4. scClient' \in [ScUsers -> ClientRecords]
    BY <2>1, <2>2, <2>3 DEF ClientRecords
  <2>5. \A v \in ScUsers : scClient'[v].code = scClient[v].code
    BY <2>1, <2>2 DEF ClientRecords
  <2>6. \A v \in ScUsers \ {script.user} : scClient'[v] = scClient[v]
    BY <2>1, <2>2
  <2>7. ScKnown'
    <3>1. /\ script'.seen = script.seen /\ script'.todo = script.todo \ {script.user}
          /\ script.todo \subseteq ScUsers
      BY <2>1, <2>2, AfterWell DEF ScriptRecords
    <3> QED
      BY <2>1, <2>2, <2>5, <2>6, <3>1 DEF ScKnown
  <2> QED
    BY <2>1, <2>2, <2>4, <2>7, AfterWell
<1> QED
  BY <1>1, <1>2, <1>3, <1>4, <1>5, <1>6 DEF ClientStep

\* A new audit.
LEMMA AuditsWell ==
    ASSUME ScWell, script.pc \in {"audit", "fixing", "indexing"}, NEW stage \in {"index", "fix", "verify"},
           script' = Audits(stage), UNCHANGED <<scClient, scLookup, serverVars, scRuns, scHistories>>
    PROVE  /\ ScWell'
           /\ script'.op = "codes" /\ script'.pc = "audit" /\ script'.stage = stage
           /\ script'.todo = Known /\ script'.seen = scClient /\ script'.user = ScNone
           /\ script'.missing = {} /\ script'.dups = {} /\ script'.report = script.report
<1> USE DEF ScWell, ScTypeOK, serverVars, scHistories
<1>1. Known \in SUBSET ScUsers
  BY DEF Known
<1>2. script' \in ScriptRecords
  BY <1>1 DEF Audits, ScriptRecords
<1>3. /\ script'.op = "codes" /\ script'.pc = "audit" /\ script'.stage = stage
      /\ script'.user = ScNone
      /\ script'.todo = Known /\ script'.seen = scClient
      /\ script'.missing = {} /\ script'.dups = {} /\ script'.report = script.report
  BY DEF Audits, ScriptRecords, ScInPlace
<1>4. ScInPlace'
  BY <1>3 DEF ScInPlace
<1>5. Known = {u \in ScUsers : scClient[u].code # ScNone}
  BY IdleWell DEF Known, ScKnown
<1>6. ScKnown'
  BY <1>3, <1>5 DEF ScKnown
<1> QED
  BY <1>2, <1>3, <1>4, <1>6

\* A step of the migration of codes that leaves the clients and their copies.
LEMMA CodeStepKnown ==
    ASSUME ScWell, script'.seen = script.seen,
           script'.pc = "audit" => script.pc = "audit" /\ script'.todo \subseteq script.todo,
           script'.pc \notin {"each", "sum", "fetch", "pay"},
           \A u \in script'.todo : scClient'[u].code # ScNone,
           \A u \in ScUsers : scClient[u].code # ScNone => scClient'[u].code # ScNone,
           \A u \in ScUsers : scClient'[u] = scClient[u] \/ scClient[u].code # ScNone,
           UNCHANGED serverVars
    PROVE  ScKnown'
<1>1. scCreating \subseteq ScUsers /\ scCreating' = scCreating /\ scWork' = scWork /\ scPaying' = scPaying
  BY DEF ScWell, ScTypeOK, serverVars
<1>2. ScKnown
  BY DEF ScWell
<1>3. \A u \in ScUsers : scClient'[u].code = ScNone => scClient'[u] = NoClient
  BY <1>2 DEF ScKnown
<1>4. script'.pc = "audit" => \A u \in script'.todo : script'.seen[u].code # ScNone
  BY <1>2 DEF ScKnown
<1>5. \A u \in ScUsers : scWork'[u] # {} => scClient'[u].code # ScNone
  BY <1>1, <1>2 DEF ScKnown
<1>6. \A u \in scCreating' : scClient'[u].code # ScNone
  BY <1>1, <1>2 DEF ScKnown
<1>7. \A u \in ScUsers : scPaying'[u] \subseteq scWork'[u] /\ IsFiniteSet(scPaying'[u])
  BY <1>1, <1>2 DEF ScKnown
<1>8. \A u \in ScUsers : script'.seen[u].code = ScNone => script'.seen[u] = NoClient
  BY <1>2 DEF ScKnown
<1> QED
  BY <1>3, <1>4, <1>5, <1>6, <1>7, <1>8 DEF ScKnown

LEMMA AuditWell == ASSUME ScWell, NEW u \in ScUsers, AuditReferralCodeIndex(u) PROVE ScWell'
<1> DEFINE c == script.seen[u].code
<1> DEFINE missing == IF scLookup[c] = ScNone THEN script.missing \cup {<<u, c>>} ELSE script.missing
<1> DEFINE dups == IF scLookup[c] \in {ScNone, u} THEN script.dups ELSE script.dups \cup {c}
<1>1. /\ script.pc = "audit" /\ u \in script.todo
      /\ script' = [script EXCEPT !.todo = @ \ {u}, !.missing = missing, !.dups = dups]
      /\ UNCHANGED <<scClient, scLookup, serverVars, scRuns, scHistories>>
  BY DEF AuditReferralCodeIndex
<1>2. c \in ScCodes
  BY <1>1 DEF ScWell, ScKnown, ScTypeOK, ScriptRecords, ClientRecords
<1>3. script \in ScriptRecords
  BY DEF ScWell, ScTypeOK
<1>4. missing \in SUBSET (ScUsers \X ScCodes) /\ dups \in SUBSET ScCodes
  BY <1>2, <1>3 DEF ScriptRecords
<1> HIDE DEF c, missing, dups
<1>5. script' \in ScriptRecords
  BY <1>1, <1>3, <1>4 DEF ScriptRecords
<1>6. /\ script'.pc = script.pc /\ script'.op = script.op /\ script'.seen = script.seen
      /\ script'.todo = script.todo \ {u} /\ script'.user = script.user /\ script'.stage = script.stage
      /\ script.todo \subseteq ScUsers
  BY <1>1, <1>3 DEF ScriptRecords
<1>7. ScInPlace'
  BY <1>1, <1>6 DEF ScWell, ScInPlace
<1>8. ScKnown'
  BY <1>1, <1>6 DEF ScWell, ScKnown, serverVars
<1> QED
  BY <1>1, <1>5, <1>7, <1>8 DEF ScWell, ScTypeOK, serverVars, scHistories

LEMMA RunWell == ASSUME ScWell, RunReferralCodeMigration PROVE ScWell'
<1>1. /\ script.pc = "audit" /\ script.todo = {}
      /\ UNCHANGED <<scClient, scLookup, serverVars, scRuns, scHistories>>
  BY DEF RunReferralCodeMigration
<1>2. script \in ScriptRecords /\ script.op = "codes"
  BY <1>1 DEF ScWell, ScTypeOK, ScInPlace, ScriptRecords
<1>3. ASSUME NEW s \in {"index", "fix"}, script' = Audits(s) PROVE ScWell'
  BY <1>1, <1>2, <1>3, AuditsWell
<1>4. ASSUME NEW p \in {"done", "fixing", "indexing"}, NEW r \in {"none", "nothing", "success", "issues"},
             script' = [script EXCEPT !.pc = p, !.report = r],
             p = "fixing" => script.stage = "fix", p = "indexing" => script.stage = "index",
             p = "done" => script.user = ScNone
      PROVE  ScWell'
  <2>1. /\ script' \in ScriptRecords /\ script'.pc = p /\ script'.op = "codes" /\ script'.todo = {}
        /\ script'.seen = script.seen /\ script'.user = script.user /\ script'.stage = script.stage
    BY <1>1, <1>2, <1>4 DEF ScriptRecords
  <2>2. ScInPlace'
    BY <1>1, <1>4, <2>1 DEF ScWell, ScInPlace
  <2>3. ScKnown'
    BY <1>1, <1>4, <2>1 DEF ScWell, ScKnown, serverVars
  <2> QED
    BY <1>1, <2>1, <2>2, <2>3 DEF ScWell, ScTypeOK, serverVars, scHistories
<1>5. script.user = ScNone
  BY <1>1 DEF ScWell, ScInPlace
<1>6. \/ \E s \in {"index", "fix"} : script' = Audits(s)
      \/ \E p \in {"done", "fixing", "indexing"}, r \in {"none", "nothing", "success", "issues"} :
            /\ script' = [script EXCEPT !.pc = p, !.report = r]
            /\ p = "fixing" => script.stage = "fix"
            /\ p = "indexing" => script.stage = "index"
  <2>1. script.report \in {"none", "nothing", "success", "issues"}
    BY <1>2 DEF ScriptRecords
  <2>2. script.stage \in {"initial", "fix", "index", "verify"}
    BY <1>2 DEF ScriptRecords
  <2>3. CASE script.stage = "initial" /\ script.missing = {}
    BY <2>3 DEF RunReferralCodeMigration
  <2>4. CASE script.stage = "initial" /\ script.missing # {}
    BY <2>4 DEF RunReferralCodeMigration
  <2>5. CASE script.stage \in {"fix", "index"}
    <3>1. script = [script EXCEPT !.report = script.report]
      BY <1>2 DEF ScriptRecords
    <3>2. \A p : [script EXCEPT !.pc = p] = [script EXCEPT !.pc = p, !.report = script.report]
      BY <1>2 DEF ScriptRecords
    <3> QED
      BY <2>1, <2>5, <3>2 DEF RunReferralCodeMigration
  <2>6. CASE script.stage = "verify"
    BY <2>6 DEF RunReferralCodeMigration
  <2> QED
    BY <2>2, <2>3, <2>4, <2>5, <2>6
<1> QED
  BY <1>3, <1>4, <1>5, <1>6

\* A step that leaves clients and entries alone and goes on with the replacement.
LEMMA FixWell == ASSUME ScWell, FixDuplicateReferralCodes PROVE ScWell'
<1>1. /\ script.pc = "fixing" /\ UNCHANGED <<scClient, scLookup, serverVars, scRuns, scHistories>>
  BY DEF FixDuplicateReferralCodes
<1>2. script \in ScriptRecords /\ script.op = "codes" /\ script.user = ScNone /\ script.stage = "fix"
  BY <1>1 DEF ScWell, ScTypeOK, ScInPlace, ScriptRecords
<1>3. CASE script' = Audits("index")
  BY <1>1, <1>3, AuditsWell
<1>4. ASSUME NEW c \in script.dups, NEW first,
             script' = [script EXCEPT !.pc = "others", !.dups = @ \ {c}, !.code = c,
                                      !.todo = {u \in Known : scClient[u].code = c} \ {first}]
      PROVE  ScWell'
  <2> DEFINE todo == {u \in Known : scClient[u].code = c} \ {first}
  <2>1. c \in ScCodes /\ todo \in SUBSET ScUsers
    BY <1>2 DEF ScriptRecords, Known
  <2>2. \A u \in todo : scClient[u].code # ScNone
    BY <2>1, ScriptsAssumption
  <2> HIDE DEF todo
  <2>3. script' = [script EXCEPT !.pc = "others", !.dups = @ \ {c}, !.code = c, !.todo = todo]
    BY <1>4 DEF todo
  <2>4. /\ script' \in ScriptRecords /\ script'.pc = "others" /\ script'.op = script.op
        /\ script'.todo = todo /\ script'.seen = script.seen /\ script'.user = script.user
        /\ script'.stage = script.stage /\ script'.code = c
    BY <1>2, <2>1, <2>3 DEF ScriptRecords
  <2>5. ScInPlace'
    BY <1>2, <2>1, <2>4 DEF ScInPlace
  <2>6. ScKnown'
    BY <1>1, <2>2, <2>4, CodeStepKnown
  <2> QED
    BY <1>1, <2>4, <2>5, <2>6 DEF ScWell, ScTypeOK, serverVars, scHistories
<1> QED
  BY <1>1, <1>3, <1>4 DEF FixDuplicateReferralCodes

\* The others who share a code are done with, or given up.
LEMMA GenerateWell == ASSUME ScWell, GenerateUniqueReferralCode PROVE ScWell'
<1>1. /\ script.pc = "others" /\ UNCHANGED <<scClient, scLookup, serverVars, scRuns, scHistories>>
  BY DEF GenerateUniqueReferralCode
<1>2. /\ script \in ScriptRecords /\ script.op = "codes" /\ script.user = ScNone
      /\ script.stage = "fix" /\ script.code \in ScCodes
  BY <1>1 DEF ScWell, ScTypeOK, ScInPlace, ScriptRecords
<1>3. CASE script.todo = {} /\ script' = [script EXCEPT !.pc = "fixing", !.code = ScNone]
  <2>1. /\ script' \in ScriptRecords /\ script'.pc = "fixing" /\ script'.op = script.op
        /\ script'.todo = {} /\ script'.seen = script.seen /\ script'.user = script.user
        /\ script'.stage = script.stage
    BY <1>2, <1>3 DEF ScriptRecords
  <2>2. ScInPlace'
    BY <1>2, <2>1 DEF ScInPlace
  <2>3. ScKnown'
    BY <1>1, <2>1, CodeStepKnown
  <2> QED
    BY <1>1, <2>1, <2>2, <2>3 DEF ScWell, ScTypeOK, serverVars, scHistories
<1>4. ASSUME NEW u \in script.todo, NEW c \in ScCodes,
             script' = [script EXCEPT !.pc = "update", !.user = u, !.new = c]
      PROVE  ScWell'
  <2>1. u \in ScUsers
    BY <1>2 DEF ScriptRecords
  <2>2. /\ script' \in ScriptRecords /\ script'.pc = "update" /\ script'.op = script.op
        /\ script'.todo = script.todo /\ script'.seen = script.seen /\ script'.user = u
        /\ script'.stage = script.stage /\ script'.code = script.code /\ script'.new = c
    BY <1>2, <1>4, <2>1 DEF ScriptRecords
  <2>3. ScInPlace'
    BY <1>2, <1>4, <2>2 DEF ScInPlace
  <2>4. \A v \in script'.todo : scClient'[v].code # ScNone
    BY <1>1, <2>2 DEF ScWell, ScKnown
  <2>5. ScKnown'
    BY <1>1, <2>2, <2>4, CodeStepKnown
  <2> QED
    BY <1>1, <2>2, <2>3, <2>5 DEF ScWell, ScTypeOK, serverVars, scHistories
<1> QED
  BY <1>3, <1>4, <1>1 DEF GenerateUniqueReferralCode

\* The replacement of one client's code.
LEMMA ReplacementWell ==
    ASSUME ScWell, GivesNewCode \/ IndexesNewCode \/ ReadsOldCode \/ DropsOldCode
    PROVE  ScWell'
<1>1. script.pc \in {"update", "set", "old", "drop"}
  BY DEF GivesNewCode, IndexesNewCode, ReadsOldCode, DropsOldCode
<1>2. /\ script \in ScriptRecords /\ script.op = "codes" /\ script.user \in script.todo
      /\ script.user \in ScUsers /\ script.new \in ScCodes
      /\ script.stage = "fix" /\ script.code \in ScCodes
  BY <1>1 DEF ScWell, ScTypeOK, ScInPlace, ScriptRecords
<1>3. script.todo \subseteq ScUsers
  BY <1>2 DEF ScriptRecords
<1>4. \A u \in script.todo : scClient[u].code # ScNone
  BY DEF ScWell, ScKnown
<1>5. ASSUME NEW p \in {"set", "old", "drop"}, script' = [script EXCEPT !.pc = p]
      PROVE  script' \in ScriptRecords /\ ScInPlace' /\ script'.seen = script.seen
             /\ script'.todo = script.todo /\ script'.pc = p
  <2>1. /\ script' \in ScriptRecords /\ script'.pc = p /\ script'.op = script.op
        /\ script'.todo = script.todo /\ script'.seen = script.seen /\ script'.user = script.user
        /\ script'.stage = script.stage /\ script'.code = script.code /\ script'.new = script.new
    BY <1>2, <1>5 DEF ScriptRecords
  <2> QED
    BY <1>2, <2>1 DEF ScInPlace
<1>6. ASSUME script' = NextOther
      PROVE  script' \in ScriptRecords /\ ScInPlace' /\ script'.seen = script.seen
             /\ script'.todo = script.todo \ {script.user} /\ script'.pc = "others"
  <2>1. /\ script' \in ScriptRecords /\ script'.pc = "others" /\ script'.op = script.op
        /\ script'.todo = script.todo \ {script.user} /\ script'.seen = script.seen
        /\ script'.user = ScNone /\ script'.stage = script.stage /\ script'.code = script.code
    BY <1>2, <1>6 DEF ScriptRecords, NextOther
  <2> QED
    BY <1>2, <2>1 DEF ScInPlace
<1>7. ASSUME UNCHANGED <<scClient, serverVars>>, script'.seen = script.seen,
             script'.todo \subseteq script.todo, script'.pc \in {"set", "old", "drop", "others"}
      PROVE  ScKnown'
  BY <1>4, <1>7, CodeStepKnown
<1>8. CASE GivesNewCode
  <2>1. /\ script' = [script EXCEPT !.pc = "set"]
        /\ UNCHANGED <<scLookup, serverVars, scRuns, scOverwrote, scRaced>>
        /\ \/ scClient' = [scClient EXCEPT ![script.user].code = script.new] /\ scBroken' = scBroken
           \/ scBroken' = scBroken \cup {script.code, script.new} /\ scClient' = scClient
    BY <1>8 DEF GivesNewCode
  <2>2. scClient' \in [ScUsers -> ClientRecords] /\ scBroken' \in SUBSET ScCodes
    BY <1>2, <2>1 DEF ScWell, ScTypeOK, ClientRecords
  <2>3. /\ \A u \in ScUsers \ {script.user} : scClient'[u] = scClient[u]
        /\ scClient'[script.user].code # ScNone
    BY <1>2, <1>4, <2>1, ScriptsAssumption DEF ScWell, ScTypeOK, ClientRecords
  <2>4. script' \in ScriptRecords /\ ScInPlace' /\ script'.seen = script.seen
        /\ script'.todo = script.todo /\ script'.pc = "set"
    BY <1>5, <2>1
  <2>5. ScKnown'
    BY <1>2, <1>3, <1>4, <2>1, <2>3, <2>4, CodeStepKnown
  <2> QED
    BY <2>1, <2>2, <2>4, <2>5 DEF ScWell, ScTypeOK, serverVars
<1>9. CASE IndexesNewCode
  <2>1. /\ script' = [script EXCEPT !.pc = "old"]
        /\ scLookup' = [scLookup EXCEPT ![script.new] = script.user]
        /\ UNCHANGED <<scClient, serverVars, scRuns, scHistories>>
    BY <1>9 DEF IndexesNewCode
  <2>2. scLookup' \in [ScCodes -> ScUsers \cup {ScNone}]
    BY <1>2, <2>1 DEF ScWell, ScTypeOK
  <2> QED
    BY <1>5, <1>7, <2>1, <2>2 DEF ScWell, ScTypeOK, serverVars, scHistories
<1>10. CASE ReadsOldCode
  <2>1. /\ script' = [script EXCEPT !.pc = "drop"] \/ script' = NextOther
        /\ UNCHANGED <<scClient, scLookup, serverVars, scRuns, scHistories>>
    BY <1>10 DEF ReadsOldCode
  <2> QED
    BY <1>5, <1>6, <1>7, <2>1 DEF ScWell, ScTypeOK, serverVars, scHistories
<1>11. CASE DropsOldCode
  <2>1. /\ script' = NextOther /\ scLookup' = [scLookup EXCEPT ![script.code] = ScNone]
        /\ UNCHANGED <<scClient, serverVars, scRuns, scHistories>>
    BY <1>11 DEF DropsOldCode
  <2>2. scLookup' \in [ScCodes -> ScUsers \cup {ScNone}]
    BY <1>2, <2>1 DEF ScWell, ScTypeOK
  <2> QED
    BY <1>6, <1>7, <2>1, <2>2 DEF ScWell, ScTypeOK, serverVars, scHistories
<1> QED
  BY <1>8, <1>9, <1>10, <1>11

\* Indexing what is missing.
LEMMA MissingWell == ASSUME ScWell, IndexMissingReferralCodes \/ IndexesCode PROVE ScWell'
<1>1. script.pc \in {"indexing", "write"}
  BY DEF IndexMissingReferralCodes, IndexesCode
<1>2. /\ script \in ScriptRecords /\ script.op = "codes" /\ script.stage = "index" /\ script.todo = {}
  BY <1>1 DEF ScWell, ScTypeOK, ScInPlace, ScriptRecords
<1>3. ASSUME script' \in ScriptRecords, ScInPlace', script'.seen = script.seen, script'.todo = {},
             script'.pc \in {"indexing", "write"},
             UNCHANGED <<scClient, serverVars, scRuns, scHistories>>,
             scLookup' \in [ScCodes -> ScUsers \cup {ScNone}]
      PROVE  ScWell'
  <2>1. ScKnown'
    BY <1>3, CodeStepKnown
  <2> QED
    BY <1>3, <2>1 DEF ScWell, ScTypeOK, serverVars, scHistories
<1>4. CASE IndexMissingReferralCodes
  <2>1. script.pc = "indexing" /\ UNCHANGED <<scClient, scLookup, serverVars, scRuns, scHistories>>
    BY <1>4 DEF IndexMissingReferralCodes
  <2>2. script.user = ScNone
    BY <2>1 DEF ScWell, ScInPlace
  <2>3. CASE script' = Audits("verify")
    BY <2>1, <2>3, AuditsWell
  <2>4. ASSUME NEW entry \in script.missing, script' = [script EXCEPT !.missing = @ \ {entry}]
        PROVE  ScWell'
    <3>1. /\ script' \in ScriptRecords /\ script'.pc = script.pc /\ script'.op = script.op
          /\ script'.todo = script.todo /\ script'.seen = script.seen /\ script'.user = script.user
          /\ script'.stage = script.stage
      BY <1>2, <2>4 DEF ScriptRecords
    <3>2. ScInPlace'
      BY <1>2, <2>1, <2>2, <3>1 DEF ScInPlace
    <3> QED
      BY <1>2, <1>3, <2>1, <3>1, <3>2 DEF ScWell, ScTypeOK
  <2>5. ASSUME NEW entry \in script.missing,
               script' = [script EXCEPT !.missing = @ \ {entry}, !.pc = "write",
                                        !.user = entry[1], !.code = entry[2]]
        PROVE  ScWell'
    <3>1. entry[1] \in ScUsers /\ entry[2] \in ScCodes
      BY <1>2 DEF ScriptRecords
    <3>2. /\ script' \in ScriptRecords /\ script'.pc = "write" /\ script'.op = script.op
          /\ script'.todo = script.todo /\ script'.seen = script.seen /\ script'.user \in ScUsers
          /\ script'.stage = script.stage /\ script'.code \in ScCodes
      BY <1>2, <2>5, <3>1 DEF ScriptRecords
    <3>3. ScInPlace'
      BY <1>2, <3>2 DEF ScInPlace
    <3> QED
      BY <1>2, <1>3, <2>1, <3>2, <3>3 DEF ScWell, ScTypeOK
  <2> QED
    BY <1>4, <2>3, <2>4, <2>5 DEF IndexMissingReferralCodes
<1>5. CASE IndexesCode
  <2>1. /\ script.pc = "write" /\ scLookup' = [scLookup EXCEPT ![script.code] = script.user]
        /\ script' = [script EXCEPT !.pc = "indexing", !.user = ScNone, !.code = ScNone]
        /\ UNCHANGED <<scClient, serverVars, scRuns, scHistories>>
    BY <1>5 DEF IndexesCode
  <2>2. script.code \in ScCodes /\ script.user \in ScUsers
    BY <2>1 DEF ScWell, ScInPlace
  <2>3. scLookup' \in [ScCodes -> ScUsers \cup {ScNone}]
    BY <2>1, <2>2 DEF ScWell, ScTypeOK
  <2>4. /\ script' \in ScriptRecords /\ script'.pc = "indexing" /\ script'.op = script.op
        /\ script'.todo = script.todo /\ script'.seen = script.seen /\ script'.user = ScNone
        /\ script'.stage = script.stage
    BY <1>2, <2>1 DEF ScriptRecords
  <2>5. ScInPlace'
    BY <1>2, <2>4 DEF ScInPlace
  <2> QED
    BY <1>2, <1>3, <2>1, <2>3, <2>4, <2>5
<1> QED
  BY <1>4, <1>5

LEMMA TornCodes == ScWell => Torn \in SUBSET ScCodes
BY DEF ScWell, ScTypeOK, ScInPlace, Torn

LEMMA ScFailsWell == ASSUME ScWell, ScFails PROVE ScWell'
<1>1. /\ scBroken' = scBroken \cup Torn
      /\ UNCHANGED <<scClient, scLookup, serverVars, scRuns, scOverwrote>>
  BY DEF ScFails
<1>2. script \in ScriptRecords /\ script.todo \subseteq ScUsers
  BY DEF ScWell, ScTypeOK, ScriptRecords
<1>3. ASSUME script' \in ScriptRecords, ScInPlace', ScKnown', scRaced' \in SUBSET ScUsers
      PROVE  ScWell'
  BY <1>1, <1>3, TornCodes DEF ScWell, ScTypeOK, serverVars
<1>4. ASSUME NEW u \in script.todo, script.op \in {"add", "clean", "fix"}, script' = After(u),
             script.pc \in {"each", "sum", "fetch", "pay"},
             scRaced' = scRaced \cup {u}
      PROVE  ScWell'
  <2>1. u \in ScUsers
    BY <1>2
  <2>2. /\ script' \in ScriptRecords /\ ScInPlace' /\ script'.seen = script.seen
        /\ script'.todo = script.todo \ {u}
    BY <1>4, <2>1, AfterWell
  <2>3. ScKnown'
    BY <1>1, <1>2, <1>4, <2>2 DEF ScWell, ScKnown, serverVars
  <2>4. scRaced' \in SUBSET ScUsers
    BY <1>4, <2>1 DEF ScWell, ScTypeOK
  <2> QED
    BY <1>3, <2>2, <2>3, <2>4
<1>5. CASE /\ script.pc = "each"
           /\ \E u \in script.todo : script' = After(u) /\ scRaced' = scRaced \cup {u}
  <2>1. script.op \in {"add", "clean", "fix"}
    BY <1>2, <1>5 DEF ScWell, ScInPlace, ScriptRecords
  <2> QED
    BY <1>4, <1>5, <2>1
<1>6. CASE /\ script.pc \in {"sum", "fetch", "pay"}
           /\ script' = After(script.user) /\ scRaced' = scRaced \cup {script.user}
  <2>1. script.op = "fix" /\ script.user \in script.todo
    BY <1>2, <1>6 DEF ScWell, ScInPlace, ScriptRecords
  <2> QED
    BY <1>4, <1>6, <2>1
<1>7. CASE /\ script.pc \in {"others", "update", "set", "old", "drop"}
           /\ script' = [script EXCEPT !.pc = "fixing", !.todo = {}, !.user = ScNone,
                                       !.code = ScNone, !.new = ScNone]
           /\ UNCHANGED scRaced
  <2>1. script.op = "codes" /\ script.stage = "fix"
    BY <1>2, <1>7 DEF ScWell, ScInPlace, ScriptRecords
  <2>2. /\ script' \in ScriptRecords /\ script'.pc = "fixing" /\ script'.op = script.op
        /\ script'.todo = {} /\ script'.seen = script.seen /\ script'.user = ScNone
        /\ script'.stage = script.stage
    BY <1>2, <1>7 DEF ScriptRecords
  <2>3. ScInPlace'
    BY <2>1, <2>2 DEF ScInPlace
  <2>4. ScKnown'
    BY <1>1, <2>2, CodeStepKnown
  <2> QED
    BY <1>3, <1>7, <2>2, <2>3, <2>4 DEF ScWell, ScTypeOK
<1>8. CASE /\ script.pc = "write"
           /\ script' = [script EXCEPT !.pc = "indexing", !.user = ScNone, !.code = ScNone]
           /\ UNCHANGED scRaced
  <2>1. script.op = "codes" /\ script.stage = "index" /\ script.todo = {}
    BY <1>2, <1>8 DEF ScWell, ScInPlace, ScriptRecords
  <2>2. /\ script' \in ScriptRecords /\ script'.pc = "indexing" /\ script'.op = script.op
        /\ script'.todo = {} /\ script'.seen = script.seen /\ script'.user = ScNone
        /\ script'.stage = script.stage
    BY <1>2, <1>8, <2>1 DEF ScriptRecords
  <2>3. ScInPlace'
    BY <2>1, <2>2 DEF ScInPlace
  <2>4. ScKnown'
    BY <1>1, <2>2, CodeStepKnown
  <2> QED
    BY <1>3, <1>8, <2>2, <2>3, <2>4 DEF ScWell, ScTypeOK
<1> QED
  BY <1>5, <1>6, <1>7, <1>8 DEF ScFails

LEMMA ScCrashWell == ASSUME ScWell, ScCrash PROVE ScWell'
<1>1. /\ script' = ScriptIdle /\ scBroken' = scBroken \cup Torn
      /\ UNCHANGED <<scClient, scLookup, serverVars, scRuns, scOverwrote, scRaced>>
  BY DEF ScCrash
<1>2. /\ script' \in ScriptRecords /\ script'.todo = {} /\ script'.op = "none" /\ script'.pc = "idle"
      /\ \A u \in ScUsers : script'.seen[u] = NoClient
  BY <1>1, IdleWell DEF ScriptIdle
<1>3. ScInPlace'
  BY <1>2 DEF ScInPlace
<1>4. ScKnown'
  BY <1>1, <1>2 DEF ScWell, ScKnown, serverVars
<1> QED
  BY <1>1, <1>2, <1>3, <1>4, TornCodes DEF ScWell, ScTypeOK, serverVars

LEMMA ScInitWell == ScInit => ScWell
<1> SUFFICES ASSUME ScInit PROVE ScWell
  OBVIOUS
<1>1. script = ScriptIdle /\ script \in ScriptRecords
  BY IdleWell DEF ScInit
<1>2. /\ script.todo = {} /\ script.op = "none" /\ script.pc = "idle"
      /\ \A u \in ScUsers : script.seen[u] = NoClient
  BY <1>1 DEF ScriptIdle
<1>3. ASSUME NEW k \in OldClients \cup {NoClient}
      PROVE  k \in ClientRecords /\ (k.code = ScNone => k = NoClient)
  <2>1. 0 .. ScPast \subseteq Nat
    OBVIOUS
  <2>2. CASE k \in OldClients
    BY <2>1, <2>2, ScriptsAssumption DEF OldClients, ClientRecords
  <2> QED
    BY <2>2, IdleWell
<1>4. scClient \in [ScUsers -> OldClients \cup {NoClient}]
  BY DEF ScInit
<1>5. \A u \in ScUsers : scClient[u] \in ClientRecords /\ (scClient[u].code = ScNone => scClient[u] = NoClient)
  BY <1>3, <1>4
<1>6. scClient \in [ScUsers -> ClientRecords]
  BY <1>4, <1>5
<1>7. /\ scPaying = [u \in ScUsers |-> {}] /\ scWork = [u \in ScUsers |-> scClient[u].legacy]
      /\ scCreating = {}
  BY DEF ScInit
<1>8. \A u \in ScUsers : scClient[u].legacy \in SUBSET ScJobs
  BY <1>5 DEF ClientRecords
<1>9. ScTypeOK
  BY <1>1, <1>6, <1>7, <1>8, ScriptsAssumption DEF ScInit, ScTypeOK
<1>10. ScInPlace
  BY <1>2 DEF ScInPlace
<1>11. NoClient.legacy = {}
  BY DEF NoClient
<1>12. ScKnown
  BY <1>2, <1>5, <1>7, <1>11, FS_EmptySet DEF ScKnown
<1> QED
  BY <1>9, <1>10, <1>12 DEF ScWell

LEMMA ScWellHolds == ScSpec => []ScWell
<1>1. ScWell /\ [ScNext]_scVars => ScWell'
  <2> SUFFICES ASSUME ScWell, [ScNext]_scVars PROVE ScWell'
    OBVIOUS
  <2>1. CASE UNCHANGED scVars
    BY <2>1 DEF scVars, serverVars, scHistories, ScWell, ScTypeOK, ScInPlace, ScKnown
  <2>2. CASE CodeStep
    BY <2>2, AuditWell, RunWell, FixWell, GenerateWell, ReplacementWell, MissingWell DEF CodeStep
  <2>3. CASE ScNext
    BY <2>2, <2>3, ScStartsWell, ScServerWell, ScClientWell, ScFailsWell, ScCrashWell DEF ScNext
  <2> QED
    BY <2>1, <2>3
<1> QED
  BY <1>1, ScInitWell, PTL DEF ScSpec

\* Whatever a script is doing, clients, entries and the script are well formed,
\* and its loops are over clients that are there (getAllClients).
THEOREM ScriptsTypeCorrect == ScSpec => []ScTypeOK
<1>1. ScWell => ScTypeOK
  BY DEF ScWell
<1> QED
  BY <1>1, ScWellHolds, PTL

\* Whoever does not touch jobs and copies leaves JobsInv alone.
LEMMA JobsUntouched ==
    ASSUME JobsInv, scWork' = scWork, scOverwrote' = scOverwrote,
           \A u \in ScUsers : /\ scClient'[u].multi = scClient[u].multi
                              /\ scClient'[u].active = scClient[u].active
                              /\ scClient'[u].legacy = scClient[u].legacy
    PROVE  JobsInv'
BY DEF JobsInv

LEMMA ServerJobs == ASSUME ScWell, JobsInv, ServerStep PROVE JobsInv'
<1>1. scClient \in [ScUsers -> ClientRecords] /\ scWork \in [ScUsers -> SUBSET ScJobs]
  BY DEF ScWell, ScTypeOK
<1>2. ASSUME NEW u \in ScUsers, NEW j \in ScJobs, ScAssigns(u, j) PROVE JobsInv'
  <2>1. /\ scWork' = [scWork EXCEPT ![u] = @ \cup {j}]
        /\ scClient' = [scClient EXCEPT ![u] = Given(scClient[u], j)]
        /\ scOverwrote' = IF scClient[u].multi THEN scOverwrote ELSE scOverwrote \cup {u}
    BY <1>2 DEF ScAssigns
  <2>2. /\ scClient'[u].multi /\ scClient'[u].active = scClient[u].active \cup {j}
        /\ scWork'[u] = scWork[u] \cup {j}
    <3>1. /\ scClient'[u] = Given(scClient[u], j)
          /\ scClient[u] \in ClientRecords
      BY <1>1, <2>1
    <3>2. scWork'[u] = scWork[u] \cup {j}
      BY <1>1, <2>1
    <3> QED
      BY <3>1, <3>2 DEF ClientRecords, Given
  <2>3. \A v \in ScUsers \ {u} : scClient'[v] = scClient[v] /\ scWork'[v] = scWork[v]
    BY <1>1, <2>1
  <2> QED
    BY <2>1, <2>2, <2>3 DEF JobsInv
<1>3. ASSUME NEW u \in ScUsers, NEW j \in ScJobs, ScCompletes(u, j) PROVE JobsInv'
  BY <1>3, JobsUntouched DEF ScCompletes
<1>4. ASSUME NEW u \in ScUsers, NEW j \in ScJobs, ScCredits(u, j) PROVE JobsInv'
  <2>1. /\ scWork' = [scWork EXCEPT ![u] = @ \ {j}]
        /\ scClient' = [scClient EXCEPT ![u] = Rewarded(@, j)]
        /\ scOverwrote' = scOverwrote
        /\ j \in scWork[u]
    BY <1>4 DEF ScCredits, ScWell, ScKnown
  <2>2. /\ scClient'[u].multi /\ scClient'[u].active = scClient[u].active \ {j}
        /\ scWork'[u] = scWork[u] \ {j}
    BY <1>1, <2>1 DEF ClientRecords, Rewarded
  <2>3. \A v \in ScUsers \ {u} : scClient'[v] = scClient[v] /\ scWork'[v] = scWork[v]
    BY <1>1, <2>1
  <2>4. u \notin scOverwrote => scWork'[u] \subseteq scClient'[u].active
    BY <2>1, <2>2 DEF JobsInv
  <2> QED
    BY <2>1, <2>2, <2>3, <2>4 DEF JobsInv
<1>5. ASSUME NEW u \in ScUsers, NEW c \in ScCodes, ScCreates(u, c) PROVE JobsInv'
  <2>1. /\ scClient' = [scClient EXCEPT ![u] = NewClient(c)] /\ scWork' = scWork
        /\ scOverwrote' = scOverwrote /\ scClient[u] = NoClient
    BY <1>5 DEF ScCreates, scHistories, Known
  <2>2. scWork[u] = {}
    BY <2>1, IdleWell DEF ScWell, ScKnown
  <2>3. scClient'[u].multi
    BY <1>1, <2>1 DEF NewClient, NoClient
  <2>4. \A v \in ScUsers \ {u} : scClient'[v] = scClient[v]
    BY <1>1, <2>1
  <2> QED
    BY <2>1, <2>2, <2>3, <2>4 DEF JobsInv
<1>6. ASSUME NEW u \in ScUsers, ScIndexes(u) PROVE JobsInv'
  BY <1>6, JobsUntouched DEF ScIndexes, scHistories
<1> QED
  BY <1>2, <1>3, <1>4, <1>5, <1>6 DEF ServerStep

\* A copy that goes back over the record it is a copy of.
LEMMA ReplacesJobs ==
    ASSUME ScWell, JobsInv, NEW u \in ScUsers, NEW client \in ClientRecords, Replaces(u, client),
           scWork' = scWork, client.multi,
           client.active = (IF script.seen[u].multi THEN script.seen[u].active
                            ELSE script.seen[u].legacy)
    PROVE  JobsInv'
<1>1. scClient \in [ScUsers -> ClientRecords]
  BY DEF ScWell, ScTypeOK
<1>2. scClient'[u] = client /\ \A v \in ScUsers \ {u} : scClient'[v] = scClient[v]
  BY <1>1 DEF Replaces
<1>3. scOverwrote' = IF scClient[u] # script.seen[u] THEN scOverwrote \cup {u} ELSE scOverwrote
  BY DEF Replaces
<1>4. u \notin scOverwrote' => scWork'[u] \subseteq scClient'[u].active
  BY <1>2, <1>3 DEF JobsInv
<1> QED
  BY <1>2, <1>3, <1>4 DEF JobsInv

LEMMA ClientJobs == ASSUME ScWell, JobsInv, ClientStep PROVE JobsInv'
<1>1. /\ scClient \in [ScUsers -> ClientRecords] /\ script \in ScriptRecords
      /\ script.seen \in [ScUsers -> ClientRecords]
  BY DEF ScWell, ScTypeOK, ScriptRecords
<1>2. ASSUME NEW u \in ScUsers, AddMultiJobToClient(u) PROVE JobsInv'
  <2>1. scWork' = scWork
    BY <1>2 DEF AddMultiJobToClient, serverVars
  <2>2. CASE script.seen[u].multi
    BY <1>2, <2>1, <2>2, JobsUntouched DEF AddMultiJobToClient
  <2>3. CASE ~ script.seen[u].multi
    <3> DEFINE client == [script.seen[u] EXCEPT !.multi = TRUE, !.active = script.seen[u].legacy]
    <3>1. client \in ClientRecords /\ client.multi /\ client.active = script.seen[u].legacy
      BY <1>1 DEF ClientRecords
    <3>2. Replaces(u, client)
      BY <1>2, <2>3 DEF AddMultiJobToClient
    <3> HIDE DEF client
    <3> QED
      BY <2>1, <2>3, <3>1, <3>2, ReplacesJobs
  <2> QED
    BY <2>2, <2>3
<1>3. ASSUME NEW u \in ScUsers, CleanupClient(u) PROVE JobsInv'
  <2>1. scWork' = scWork
    BY <1>3 DEF CleanupClient, serverVars
  <2>2. CASE ~ Cleanable(script.seen[u])
    BY <1>3, <2>1, <2>2, JobsUntouched DEF CleanupClient
  <2>3. CASE Cleanable(script.seen[u])
    <3> DEFINE client == [script.seen[u] EXCEPT !.old = FALSE, !.legacy = {}]
    <3>1. client \in ClientRecords /\ client.active = script.seen[u].active
          /\ client.multi = script.seen[u].multi
      BY <1>1 DEF ClientRecords
    <3>2. Replaces(u, client)
      BY <1>3, <2>3 DEF CleanupClient
    <3>3. script.seen[u].multi
      BY <2>3 DEF Cleanable
    <3> HIDE DEF client
    <3> QED
      BY <2>1, <3>1, <3>2, <3>3, ReplacesJobs
  <2> QED
    BY <2>2, <2>3
<1>4. ASSUME NEW u \in ScUsers, CheckUserDiscrepancy(u) PROVE JobsInv'
  BY <1>4, JobsUntouched DEF CheckUserDiscrepancy, serverVars
<1>5. CASE CalculateExpectedBalance
  BY <1>5, JobsUntouched DEF CalculateExpectedBalance, serverVars, scHistories
<1>6. CASE CompensateUser
  BY <1>6, JobsUntouched DEF CompensateUser, serverVars, scHistories
<1>7. CASE Compensates
  <2>1. scClient' = [scClient EXCEPT ![script.user].balance = Compensated(script.read, script.owed)]
        /\ scWork' = scWork /\ scOverwrote' = scOverwrote
    BY <1>7 DEF Compensates, serverVars, scHistories
  <2>2. \A v \in ScUsers : /\ scClient'[v].multi = scClient[v].multi
                           /\ scClient'[v].active = scClient[v].active
                           /\ scClient'[v].legacy = scClient[v].legacy
    BY <1>1, <2>1 DEF ClientRecords
  <2> QED
    BY <2>1, <2>2, JobsUntouched
<1> QED
  BY <1>2, <1>3, <1>4, <1>5, <1>6, <1>7 DEF ClientStep

LEMMA CodeJobs == ASSUME ScWell, JobsInv, CodeStep \/ ScFails \/ ScCrash PROVE JobsInv'
<1>1. CASE GivesNewCode
  <2>1. /\ \/ scClient' = [scClient EXCEPT ![script.user].code = script.new]
           \/ scClient' = scClient
        /\ scWork' = scWork /\ scOverwrote' = scOverwrote
    BY <1>1 DEF GivesNewCode, serverVars
  <2>2. \A v \in ScUsers : /\ scClient'[v].multi = scClient[v].multi
                           /\ scClient'[v].active = scClient[v].active
                           /\ scClient'[v].legacy = scClient[v].legacy
    BY <2>1 DEF ScWell, ScTypeOK, ClientRecords
  <2> QED
    BY <2>1, <2>2, JobsUntouched
<1>2. CASE /\ ~ GivesNewCode
           /\ CodeStep \/ ScFails \/ ScCrash
  <2>1. /\ scClient' = scClient /\ scWork' = scWork /\ scOverwrote' = scOverwrote
    BY <1>2 DEF CodeStep, AuditReferralCodeIndex, RunReferralCodeMigration,
      FixDuplicateReferralCodes, GenerateUniqueReferralCode, IndexesNewCode, ReadsOldCode,
      DropsOldCode, IndexMissingReferralCodes, IndexesCode, ScFails, ScCrash, serverVars, scHistories
  <2> QED
    BY <2>1, JobsUntouched
<1> QED
  BY <1>1, <1>2

LEMMA JobsHold == ScSpec => []JobsInv
<1>1. ScInit => JobsInv
  <2> SUFFICES ASSUME ScInit, NEW u \in ScUsers
               PROVE  scWork[u] \subseteq scClient[u].legacy /\ ~ scClient[u].multi
                      /\ scClient[u].active = {} /\ \A i, k \in scClient[u].legacy : i = k
    BY DEF JobsInv
  <2>1. scWork[u] = scClient[u].legacy /\ scClient[u] \in OldClients \cup {NoClient}
    BY DEF ScInit
  <2>2. CASE scClient[u] = NoClient
    BY <2>1, <2>2 DEF NoClient
  <2>3. CASE scClient[u] \in OldClients
    <3>1. /\ scClient[u].multi \in {FALSE} /\ scClient[u].active \in {{}}
          /\ scClient[u].legacy \in {{}} \cup {{j} : j \in ScJobs}
      BY <2>3 DEF OldClients
    <3> QED
      BY <2>1, <3>1
  <2> QED
    BY <2>1, <2>2, <2>3
<1>2. ScWell /\ JobsInv /\ [ScNext]_scVars => JobsInv'
  <2> SUFFICES ASSUME ScWell, JobsInv, [ScNext]_scVars PROVE JobsInv'
    OBVIOUS
  <2>1. ASSUME NEW op \in {"add", "clean", "fix", "codes"}, ScStarts(op) PROVE JobsInv'
    BY <2>1, JobsUntouched DEF ScStarts, serverVars, scHistories
  <2>2. CASE UNCHANGED scVars
    BY <2>2, JobsUntouched DEF scVars, serverVars, scHistories
  <2> QED
    BY <2>1, <2>2, ServerJobs, ClientJobs, CodeJobs DEF ScNext
<1> QED
  BY <1>1, <1>2, ScWellHolds, PTL DEF ScSpec

\* Through both migrations, cut short or run again, a client's record names the
\* jobs it works on (AddMultiJobToClient, CleanupClient).
THEOREM JobsSurviveMigration == ScSpec => []JobsSurvive
<1>1. JobsInv => JobsSurvive
  BY DEF JobsInv, JobsSurvive
<1> QED
  BY <1>1, JobsHold, PTL

\* Points.  Jobs not yet credited can be counted.
LEMMA PayingCounted ==
    ASSUME ScWell
    PROVE  /\ \A u \in ScUsers : IsFiniteSet(scPaying[u]) /\ Cardinality(scPaying[u]) \in Nat
           /\ \A u \in ScUsers : scClient[u].balance \in Nat /\ script.seen[u].balance \in Nat
           /\ \A u \in ScUsers : scEarned[u] \in Nat /\ scLedger[u] \in Nat /\ scDue[u] \in Nat
           /\ scClient \in [ScUsers -> ClientRecords] /\ script \in ScriptRecords
           /\ script.read \in Nat /\ script.owed \in Nat
<1>1. \A u \in ScUsers : IsFiniteSet(scPaying[u]) /\ Cardinality(scPaying[u]) \in Nat
  BY FS_CardinalityType DEF ScWell, ScKnown
<1>2. scClient \in [ScUsers -> ClientRecords] /\ script \in ScriptRecords
  BY DEF ScWell, ScTypeOK
<1>3. script.seen \in [ScUsers -> ClientRecords] /\ script.read \in Nat /\ script.owed \in Nat
  BY <1>2 DEF ScriptRecords
<1>4. \A u \in ScUsers : scClient[u].balance \in Nat /\ script.seen[u].balance \in Nat
  BY <1>2, <1>3 DEF ClientRecords
<1>5. \A u \in ScUsers : scEarned[u] \in Nat /\ scLedger[u] \in Nat /\ scDue[u] \in Nat
  BY DEF ScWell, ScTypeOK
<1> QED
  BY <1>1, <1>2, <1>3, <1>4, <1>5

\* Nobody is credited, and a copy is of now, or of before, or none.
LEMMA OwedKept ==
    ASSUME ScWell, OwedInv, UNCHANGED <<scEarned, scLedger, scDue, scPaying>>,
           scRaced \subseteq scRaced',
           \A u \in ScUsers : scClient'[u].balance = scClient[u].balance,
           \A u \in ScUsers :
              script'.seen[u].balance \in {script.seen[u].balance, scClient[u].balance, 0}
    PROVE  OwedInv'
BY PayingCounted DEF OwedInv

\* The compensation does not move.
LEMMA FixKept ==
    ASSUME CheckInv, SettledInv, UNCHANGED <<scEarned, scLedger, scPaying>>, scRaced \subseteq scRaced',
           script'.op = "fix" => script' = script,
           \A u \in ScUsers : scClient'[u].balance = scClient[u].balance
    PROVE  CheckInv' /\ SettledInv'
<1>1. CASE script'.op # "fix"
  BY <1>1 DEF CheckInv, SettledInv
<1>2. CASE script' = script
  BY <1>2 DEF CheckInv, SettledInv, Settled
<1> QED
  BY <1>1, <1>2

LEMMA PointsUntouched ==
    ASSUME ScWell, PointsInv, UNCHANGED <<scEarned, scLedger, scDue, scPaying>>,
           scRaced \subseteq scRaced', script' = script,
           \A u \in ScUsers : scClient'[u].balance = scClient[u].balance
    PROVE  PointsInv'
BY OwedKept, FixKept DEF PointsInv

LEMMA ServerPoints == ASSUME ScWell, PointsInv, ServerStep PROVE PointsInv'
<1>0. /\ \A u \in ScUsers : IsFiniteSet(scPaying[u]) /\ Cardinality(scPaying[u]) \in Nat
      /\ \A u \in ScUsers : scClient[u].balance \in Nat /\ script.seen[u].balance \in Nat
      /\ \A u \in ScUsers : scEarned[u] \in Nat /\ scLedger[u] \in Nat /\ scDue[u] \in Nat
      /\ scClient \in [ScUsers -> ClientRecords] /\ script \in ScriptRecords
  BY PayingCounted
<1>00. /\ scPaying \in [ScUsers -> SUBSET ScJobs] /\ scEarned \in [ScUsers -> Nat]
       /\ scDue \in [ScUsers -> Nat] /\ scWork \in [ScUsers -> SUBSET ScJobs]
  BY DEF ScWell, ScTypeOK
<1>1. ASSUME NEW u \in ScUsers, NEW j \in ScJobs, ScAssigns(u, j) PROVE PointsInv'
  <2>1. scClient' = [scClient EXCEPT ![u] = Given(scClient[u], j)]
    BY <1>1 DEF ScAssigns
  <2>2. Given(scClient[u], j).balance = scClient[u].balance
    BY <1>0 DEF Given, ClientRecords
  <2>3. \A v \in ScUsers : scClient'[v].balance = scClient[v].balance
    BY <1>0, <2>1, <2>2
  <2>4. UNCHANGED <<scEarned, scLedger, scDue, scPaying, script, scRaced>>
    BY <1>1 DEF ScAssigns
  <2> QED
    BY <2>3, <2>4, PointsUntouched
<1>2. ASSUME NEW u \in ScUsers, NEW j \in ScJobs, ScCompletes(u, j) PROVE PointsInv'
  <2>1. /\ j \notin scPaying[u]
        /\ scEarned' = [scEarned EXCEPT ![u] = scEarned[u] + 1]
        /\ scDue' = [scDue EXCEPT ![u] = scDue[u] + 1]
        /\ scPaying' = [scPaying EXCEPT ![u] = scPaying[u] \cup {j}]
        /\ scRaced' = IF Checked(u) THEN scRaced \cup {u} ELSE scRaced
        /\ UNCHANGED <<scClient, scLedger, script>>
    BY <1>2 DEF ScCompletes
  <2>2. Cardinality(scPaying'[u]) = Cardinality(scPaying[u]) + 1
    BY <1>0, <1>00, <2>1, FS_AddElement
  <2>3. /\ scEarned'[u] = scEarned[u] + 1 /\ scDue'[u] = scDue[u] + 1
        /\ \A v \in ScUsers \ {u} : /\ scEarned'[v] = scEarned[v] /\ scDue'[v] = scDue[v]
                                    /\ scPaying'[v] = scPaying[v]
    BY <1>00, <2>1
  <2>4. scRaced \subseteq scRaced'
    BY <2>1
  <2>c. \A v \in ScUsers : scClient'[v] = scClient[v]
    BY <2>1
  <2>5. OwedInv'
    <3> SUFFICES ASSUME NEW v \in ScUsers
                 PROVE  /\ scEarned'[v] <= scDue'[v] /\ scLedger'[v] <= scDue'[v]
                        /\ v \notin scRaced' =>
                              /\ scClient'[v].balance + Cardinality(scPaying'[v]) <= scDue'[v]
                              /\ script'.seen[v].balance + Cardinality(scPaying'[v]) <= scDue'[v]
      BY DEF OwedInv
    <3>1. /\ scEarned[v] <= scDue[v] /\ scLedger[v] <= scDue[v]
          /\ v \notin scRaced' =>
                /\ scClient[v].balance + Cardinality(scPaying[v]) <= scDue[v]
                /\ script.seen[v].balance + Cardinality(scPaying[v]) <= scDue[v]
      BY <2>4 DEF PointsInv, OwedInv
    <3>2. scLedger'[v] = scLedger[v] /\ script'.seen[v] = script.seen[v]
      BY <2>1
    <3>3. CASE v = u
      BY <1>0, <2>2, <2>3, <2>c, <3>1, <3>2, <3>3
    <3>4. CASE v # u
      BY <1>0, <2>2, <2>3, <2>c, <3>1, <3>2, <3>4
    <3> QED
      BY <3>3, <3>4
  <2>6. CheckInv'
    <3>1. script.op = "fix" /\ script.user \notin scRaced' => script.user # u
      BY <2>1 DEF Checked
    <3> QED
      BY <2>1, <2>3, <2>4, <3>1 DEF PointsInv, CheckInv
  <2>7. \A v \in ScUsers : Settled(v) => Settled(v)'
    <3> SUFFICES ASSUME NEW v \in ScUsers, Settled(v) PROVE Settled(v)'
      OBVIOUS
    <3>1. \/ scClient[v].balance + Cardinality(scPaying[v]) >= scEarned[v]
          \/ scClient[v].balance + Cardinality(scPaying[v]) >= scLedger[v]
      BY DEF Settled
    <3>2. scLedger'[v] = scLedger[v]
      BY <2>1
    <3>3. \/ scClient'[v].balance + Cardinality(scPaying'[v]) >= scEarned'[v]
          \/ scClient'[v].balance + Cardinality(scPaying'[v]) >= scLedger'[v]
      <4>1. CASE v = u
        BY <1>0, <2>2, <2>3, <2>c, <3>1, <3>2, <4>1
      <4>2. CASE v # u
        BY <1>0, <2>2, <2>3, <2>c, <3>1, <3>2, <4>2
      <4> QED
        BY <4>1, <4>2
    <3> QED
      BY <3>3 DEF Settled
  <2>8. SettledInv'
    BY <2>1, <2>4, <2>7 DEF PointsInv, SettledInv
  <2> QED
    BY <2>5, <2>6, <2>8 DEF PointsInv
<1>3. ASSUME NEW u \in ScUsers, NEW j \in ScJobs, ScCredits(u, j) PROVE PointsInv'
  <2>1. /\ j \in scPaying[u]
        /\ scPaying' = [scPaying EXCEPT ![u] = scPaying[u] \ {j}]
        /\ scClient' = [scClient EXCEPT ![u] = Rewarded(scClient[u], j)]
        /\ scRaced' = IF Checked(u) THEN scRaced \cup {u} ELSE scRaced
        /\ UNCHANGED <<scEarned, scDue, scLedger, script>>
    BY <1>3 DEF ScCredits
  <2>2. Cardinality(scPaying'[u]) = Cardinality(scPaying[u]) - 1
    BY <1>0, <1>00, <2>1, FS_RemoveElement
  <2>3. scClient'[u].balance = scClient[u].balance + 1
    <3>1. Rewarded(scClient[u], j).balance = scClient[u].balance + 1
      BY <1>0 DEF Rewarded, ClientRecords
    <3> QED
      BY <1>0, <2>1, <3>1
  <2>4. \A v \in ScUsers \ {u} : scClient'[v] = scClient[v] /\ scPaying'[v] = scPaying[v]
    BY <1>0, <1>00, <2>1
  <2>5. scRaced \subseteq scRaced'
    BY <2>1
  <2>d. scEarned' = scEarned /\ scDue' = scDue /\ \A v \in ScUsers \ {u} : scClient'[v] = scClient[v] /\ scPaying'[v] = scPaying[v]
    BY <2>1, <2>4
  <2>6. OwedInv'
    <3> SUFFICES ASSUME NEW v \in ScUsers
                 PROVE  /\ scEarned'[v] <= scDue'[v] /\ scLedger'[v] <= scDue'[v]
                        /\ v \notin scRaced' =>
                              /\ scClient'[v].balance + Cardinality(scPaying'[v]) <= scDue'[v]
                              /\ script'.seen[v].balance + Cardinality(scPaying'[v]) <= scDue'[v]
      BY DEF OwedInv
    <3>1. /\ scEarned[v] <= scDue[v] /\ scLedger[v] <= scDue[v]
          /\ v \notin scRaced' =>
                /\ scClient[v].balance + Cardinality(scPaying[v]) <= scDue[v]
                /\ script.seen[v].balance + Cardinality(scPaying[v]) <= scDue[v]
      BY <2>5 DEF PointsInv, OwedInv
    <3>2. scLedger'[v] = scLedger[v] /\ script'.seen[v] = script.seen[v]
      BY <2>1
    <3>3. CASE v = u
      BY <1>0, <2>2, <2>3, <2>d, <3>1, <3>2, <3>3
    <3>4. CASE v # u
      BY <1>0, <2>2, <2>3, <2>d, <3>1, <3>2, <3>4
    <3> QED
      BY <3>3, <3>4
  <2>7. CheckInv'
    <3>1. script.op = "fix" /\ script.user \notin scRaced' => script.user # u
      BY <2>1 DEF Checked
    <3> QED
      BY <2>1, <2>4, <2>5, <3>1 DEF PointsInv, CheckInv
  <2>8. \A v \in ScUsers : Settled(v) => Settled(v)'
    <3> SUFFICES ASSUME NEW v \in ScUsers, Settled(v) PROVE Settled(v)'
      OBVIOUS
    <3>1. \/ scClient[v].balance + Cardinality(scPaying[v]) >= scEarned[v]
          \/ scClient[v].balance + Cardinality(scPaying[v]) >= scLedger[v]
      BY DEF Settled
    <3>2. scLedger'[v] = scLedger[v]
      BY <2>1
    <3>3. \/ scClient'[v].balance + Cardinality(scPaying'[v]) >= scEarned'[v]
          \/ scClient'[v].balance + Cardinality(scPaying'[v]) >= scLedger'[v]
      <4>1. CASE v = u
        BY <1>0, <2>2, <2>3, <2>d, <3>1, <3>2, <4>1
      <4>2. CASE v # u
        BY <1>0, <2>2, <2>3, <2>d, <3>1, <3>2, <4>2
      <4> QED
        BY <4>1, <4>2
    <3> QED
      BY <3>3 DEF Settled
  <2>9. SettledInv'
    BY <2>1, <2>5, <2>8 DEF PointsInv, SettledInv
  <2> QED
    BY <2>6, <2>7, <2>9 DEF PointsInv
<1>4. ASSUME NEW u \in ScUsers, NEW c \in ScCodes, ScCreates(u, c) PROVE PointsInv'
  <2>1. /\ scClient' = [scClient EXCEPT ![u] = NewClient(c)] /\ scClient[u] = NoClient
        /\ UNCHANGED <<scEarned, scLedger, scDue, scPaying, script, scRaced>>
    BY <1>4 DEF ScCreates, scHistories, Known
  <2>2. NewClient(c).balance = NoClient.balance
    BY DEF NewClient, NoClient
  <2>3. \A v \in ScUsers : scClient'[v].balance = scClient[v].balance
    BY <1>0, <2>1, <2>2
  <2> QED
    BY <2>1, <2>3, PointsUntouched
<1>5. ASSUME NEW u \in ScUsers, ScIndexes(u) PROVE PointsInv'
  BY <1>5, PointsUntouched DEF ScIndexes, scHistories
<1> QED
  BY <1>1, <1>2, <1>3, <1>4, <1>5 DEF ServerStep

\* A script that leaves the points alone, and is not the compensation.
LEMMA PointsElsewhere ==
    ASSUME ScWell, PointsInv, UNCHANGED <<scEarned, scLedger, scDue, scPaying>>,
           scRaced \subseteq scRaced', script'.op # "fix",
           \A u \in ScUsers : scClient'[u].balance = scClient[u].balance,
           \A u \in ScUsers :
              script'.seen[u].balance \in {script.seen[u].balance, scClient[u].balance, 0}
    PROVE  PointsInv'
BY OwedKept, FixKept DEF PointsInv

\* A copy that goes back has the points that were owed when it was made.
LEMMA ReplacesPoints ==
    ASSUME ScWell, PointsInv, NEW u \in ScUsers, NEW client \in ClientRecords, Replaces(u, client),
           client.balance = script.seen[u].balance, script'.op # "fix", script'.seen = script.seen,
           UNCHANGED <<serverVars, scRaced>>
    PROVE  PointsInv'
<1>1. /\ \A v \in ScUsers \ {u} : scClient'[v] = scClient[v]
      /\ scClient'[u].balance = script.seen[u].balance
  BY PayingCounted DEF Replaces
<1>2. UNCHANGED <<scEarned, scLedger, scDue, scPaying, scRaced>>
  BY DEF serverVars
<1>3. OwedInv'
  BY <1>1, <1>2 DEF PointsInv, OwedInv
<1> QED
  BY <1>3 DEF PointsInv, CheckInv, SettledInv

\* The compensation is through with a client whose account is settled.
LEMMA FixPasses ==
    ASSUME ScWell, CheckInv, SettledInv, script.op = "fix", NEW u \in script.todo, script' = After(u),
           UNCHANGED <<scEarned, scLedger, scPaying>>, scRaced \subseteq scRaced',
           \A v \in ScUsers : v # u => scClient'[v].balance = scClient[v].balance,
           u \notin scRaced' => Settled(u)'
    PROVE  CheckInv' /\ SettledInv'
<1>0. script \in ScriptRecords /\ u \in ScUsers
  BY DEF ScWell, ScTypeOK, ScriptRecords
<1>1. script'.user = ScNone /\ script'.seen = script.seen /\ script'.todo = script.todo \ {u}
  BY <1>0, AfterWell
<1>2. CheckInv'
  BY <1>1, ScriptsAssumption DEF CheckInv
<1>3. SettledInv'
  <2>1. \A v \in ScUsers \ {u} : Settled(v) => Settled(v)'
    BY DEF Settled
  <2> QED
    BY <1>1, <2>1 DEF SettledInv
<1> QED
  BY <1>2, <1>3

LEMMA ClientPoints == ASSUME ScWell, PointsInv, ClientStep PROVE PointsInv'
<1>0. /\ \A u \in ScUsers : IsFiniteSet(scPaying[u]) /\ Cardinality(scPaying[u]) \in Nat
      /\ \A u \in ScUsers : scClient[u].balance \in Nat /\ script.seen[u].balance \in Nat
      /\ \A u \in ScUsers : scEarned[u] \in Nat /\ scLedger[u] \in Nat /\ scDue[u] \in Nat
      /\ scClient \in [ScUsers -> ClientRecords] /\ script \in ScriptRecords
      /\ script.read \in Nat /\ script.owed \in Nat
  BY PayingCounted
<1>00. script.seen \in [ScUsers -> ClientRecords] /\ script.todo \subseteq ScUsers
  BY <1>0 DEF ScriptRecords
<1>1. ASSUME NEW u \in ScUsers, AddMultiJobToClient(u) PROVE PointsInv'
  <2>1. /\ script.op = "add" /\ u \in script.todo /\ script' = After(u)
        /\ UNCHANGED <<serverVars, scRaced>>
    BY <1>1 DEF AddMultiJobToClient, Each
  <2>2. script'.op = "add" /\ script'.seen = script.seen
    BY <2>1, AfterWell
  <2>3. CASE script.seen[u].multi
    BY <1>1, <2>1, <2>2, <2>3, PointsElsewhere DEF AddMultiJobToClient, serverVars
  <2>4. CASE ~ script.seen[u].multi
    <3> DEFINE client == [script.seen[u] EXCEPT !.multi = TRUE, !.active = script.seen[u].legacy]
    <3>1. client \in ClientRecords /\ client.balance = script.seen[u].balance
      BY <1>00 DEF ClientRecords
    <3>2. Replaces(u, client)
      BY <1>1, <2>4 DEF AddMultiJobToClient
    <3> HIDE DEF client
    <3> QED
      BY <2>1, <2>2, <3>1, <3>2, ReplacesPoints
  <2> QED
    BY <2>3, <2>4
<1>2. ASSUME NEW u \in ScUsers, CleanupClient(u) PROVE PointsInv'
  <2>1. /\ script.op = "clean" /\ u \in script.todo /\ script' = After(u)
        /\ UNCHANGED <<serverVars, scRaced>>
    BY <1>2 DEF CleanupClient, Each
  <2>2. script'.op = "clean" /\ script'.seen = script.seen
    BY <2>1, AfterWell
  <2>3. CASE ~ Cleanable(script.seen[u])
    BY <1>2, <2>1, <2>2, <2>3, PointsElsewhere DEF CleanupClient, serverVars
  <2>4. CASE Cleanable(script.seen[u])
    <3> DEFINE client == [script.seen[u] EXCEPT !.old = FALSE, !.legacy = {}]
    <3>1. client \in ClientRecords /\ client.balance = script.seen[u].balance
      BY <1>00 DEF ClientRecords
    <3>2. Replaces(u, client)
      BY <1>2, <2>4 DEF CleanupClient
    <3> HIDE DEF client
    <3> QED
      BY <2>1, <2>2, <3>1, <3>2, ReplacesPoints
  <2> QED
    BY <2>3, <2>4
<1>3. ASSUME NEW u \in ScUsers, CheckUserDiscrepancy(u) PROVE PointsInv'
  <2>1. /\ script.op = "fix" /\ u \in script.todo
        /\ script' = [script EXCEPT !.pc = "sum", !.user = u, !.read = scClient[u].balance]
        /\ scRaced' = IF scPaying[u] # {} THEN scRaced \cup {u} ELSE scRaced
        /\ UNCHANGED <<scClient, serverVars>>
    BY <1>3 DEF CheckUserDiscrepancy, Each
  <2>2. /\ script'.op = "fix" /\ script'.pc = "sum" /\ script'.user = u
        /\ script'.read = scClient[u].balance
        /\ script'.todo = script.todo /\ script'.seen = script.seen
    BY <1>0, <2>1 DEF ScriptRecords
  <2>3. UNCHANGED <<scEarned, scLedger, scDue, scPaying, scClient>> /\ scRaced \subseteq scRaced'
    BY <2>1 DEF serverVars
  <2>4. OwedInv'
    BY <2>2, <2>3, OwedKept DEF PointsInv
  <2>5. CheckInv'
    BY <2>1, <2>2, <2>3 DEF CheckInv
  <2>6. SettledInv'
    BY <2>1, <2>2, <2>3 DEF PointsInv, SettledInv, Settled
  <2> QED
    BY <2>4, <2>5, <2>6 DEF PointsInv
<1>4. CASE CalculateExpectedBalance
  <2>1. /\ script.pc = "sum"
        /\ UNCHANGED <<scClient, scEarned, scLedger, scDue, scPaying, scRaced>>
    BY <1>4 DEF CalculateExpectedBalance, serverVars, scHistories
  <2>2. script.op = "fix" /\ script.user \in script.todo /\ script.user \in ScUsers
    BY <1>0, <1>00, <2>1 DEF ScWell, ScInPlace, ScriptRecords
  <2>3. PICK expected \in {scEarned[script.user], scLedger[script.user]} :
           script' = IF expected > script.read
                     THEN [script EXCEPT !.pc = "fetch", !.owed = expected - script.read]
                     ELSE After(script.user)
    BY <1>4 DEF CalculateExpectedBalance
  <2>4. script.user \notin scRaced =>
           scPaying[script.user] = {} /\ script.read = scClient[script.user].balance
    BY <2>2 DEF PointsInv, CheckInv
  <2>5. CASE expected > script.read
    <3>1. script' = [script EXCEPT !.pc = "fetch", !.owed = expected - script.read]
      BY <2>3, <2>5
    <3>2. /\ script'.op = "fix" /\ script'.pc = "fetch" /\ script'.user = script.user
          /\ script'.read = script.read /\ script'.owed = expected - script.read
          /\ script'.todo = script.todo /\ script'.seen = script.seen
      BY <1>0, <2>2, <3>1 DEF ScriptRecords
    <3>3. script'.read + script'.owed = expected
      BY <1>0, <2>2, <2>3, <3>2
    <3>4. OwedInv'
      BY <2>1, <3>2, OwedKept DEF PointsInv
    <3>5. CheckInv'
      BY <2>1, <2>2, <2>3, <2>4, <3>2, <3>3 DEF CheckInv
    <3>6. SettledInv'
      BY <2>1, <2>2, <3>2 DEF PointsInv, SettledInv, Settled
    <3> QED
      BY <3>4, <3>5, <3>6 DEF PointsInv
  <2>6. CASE ~ (expected > script.read)
    <3>0. PICK w : w = script.user
      OBVIOUS
    <3>1. script' = After(w) /\ w \in script.todo /\ w \in ScUsers
      BY <2>2, <2>3, <2>6, <3>0
    <3>2. w \notin scRaced' => Settled(w)'
      <4>1. w \notin scRaced => scClient[w].balance + Cardinality(scPaying[w]) >= expected
        BY <1>0, <2>2, <2>3, <2>4, <2>6, <3>0, FS_EmptySet
      <4>2. w \notin scRaced => Settled(w)
        BY <2>3, <3>0, <4>1 DEF Settled
      <4>3. Settled(w) => Settled(w)'
        BY <2>1 DEF Settled
      <4> QED
        BY <2>1, <4>2, <4>3
    <3>3. CheckInv' /\ SettledInv'
      BY <2>1, <2>2, <3>1, <3>2, FixPasses DEF PointsInv
    <3>4. OwedInv'
      BY <2>1, <2>2, <3>1, AfterWell, OwedKept DEF PointsInv
    <3> QED
      BY <3>3, <3>4 DEF PointsInv
  <2> QED
    BY <2>5, <2>6
<1>5. CASE CompensateUser
  <2>1. /\ script.pc = "fetch"
        /\ script' = [script EXCEPT !.pc = "pay", !.read = scClient[script.user].balance]
        /\ UNCHANGED <<scClient, scEarned, scLedger, scDue, scPaying, scRaced>>
    BY <1>5 DEF CompensateUser, serverVars, scHistories
  <2>2. script.op = "fix" /\ script.user \in ScUsers
    BY <1>0, <1>00, <2>1 DEF ScWell, ScInPlace, ScriptRecords
  <2>3. /\ script'.op = "fix" /\ script'.pc = "pay" /\ script'.user = script.user
        /\ script'.read = scClient[script.user].balance /\ script'.owed = script.owed
        /\ script'.todo = script.todo /\ script'.seen = script.seen
    BY <1>0, <2>1, <2>2 DEF ScriptRecords
  <2>4. OwedInv'
    BY <2>1, <2>3, OwedKept DEF PointsInv
  <2>5. CheckInv'
    BY <2>1, <2>2, <2>3 DEF PointsInv, CheckInv
  <2>6. SettledInv'
    BY <2>1, <2>2, <2>3 DEF PointsInv, SettledInv, Settled
  <2> QED
    BY <2>4, <2>5, <2>6 DEF PointsInv
<1>6. CASE Compensates
  <2>0. PICK u : u = script.user
    OBVIOUS
  <2>1. /\ script.pc = "pay" /\ script' = After(u)
        /\ scClient' = [scClient EXCEPT ![u].balance = script.read + script.owed]
        /\ UNCHANGED <<scEarned, scLedger, scDue, scPaying, scRaced>>
    BY <1>6, <2>0 DEF Compensates, Compensated, serverVars, scHistories
  <2>2. script.op = "fix" /\ u \in script.todo /\ u \in ScUsers
    BY <1>0, <1>00, <2>0, <2>1 DEF ScWell, ScInPlace, ScriptRecords
  <2>3. /\ scClient'[u].balance = script.read + script.owed
        /\ \A v \in ScUsers : v # u => scClient'[v] = scClient[v]
    BY <1>0, <2>1, <2>2 DEF ClientRecords
  <2>4. u \notin scRaced =>
           scPaying[u] = {} /\ script.read + script.owed \in {scEarned[u], scLedger[u]}
    BY <2>0, <2>1, <2>2 DEF PointsInv, CheckInv
  <2>5. script'.seen = script.seen
    BY <2>1, <2>2, AfterWell
  <2>6. Cardinality(scPaying[u]) \in Nat /\ (scPaying[u] = {} => Cardinality(scPaying[u]) = 0)
    BY <1>0, <2>2, FS_EmptySet
  <2>7. OwedInv'
    <3>1. \A v \in ScUsers : scEarned[v] <= scDue[v] /\ scLedger[v] <= scDue[v]
      BY DEF PointsInv, OwedInv
    <3>2. u \notin scRaced => scClient'[u].balance + Cardinality(scPaying[u]) <= scDue[u]
      BY <1>0, <2>2, <2>3, <2>4, <2>6, <3>1
    <3> QED
      BY <2>1, <2>3, <2>5, <3>2 DEF PointsInv, OwedInv
  <2>8. u \notin scRaced' => Settled(u)'
    <3>1. u \notin scRaced => \/ scClient'[u].balance + Cardinality(scPaying'[u]) >= scEarned'[u]
                              \/ scClient'[u].balance + Cardinality(scPaying'[u]) >= scLedger'[u]
      BY <1>0, <2>1, <2>2, <2>3, <2>4, <2>6
    <3> QED
      BY <2>1, <3>1 DEF Settled
  <2> QED
    BY <2>1, <2>2, <2>3, <2>7, <2>8, FixPasses DEF PointsInv
<1> QED
  BY <1>1, <1>2, <1>3, <1>4, <1>5, <1>6 DEF ClientStep

LEMMA CodePoints == ASSUME ScWell, PointsInv, CodeStep PROVE PointsInv'
<1>0. /\ scClient \in [ScUsers -> ClientRecords] /\ script \in ScriptRecords
      /\ script.op \in {"none", "add", "clean", "fix", "codes"}
  BY PayingCounted DEF ScriptRecords
<1>1. UNCHANGED <<scEarned, scLedger, scDue, scPaying>> /\ scRaced' = scRaced
  BY DEF CodeStep, AuditReferralCodeIndex, RunReferralCodeMigration, FixDuplicateReferralCodes,
         GenerateUniqueReferralCode, GivesNewCode, IndexesNewCode, ReadsOldCode, DropsOldCode,
         IndexMissingReferralCodes, IndexesCode, serverVars, scHistories
<1>2. \A u \in ScUsers : scClient'[u].balance = scClient[u].balance
  <2>1. CASE GivesNewCode
    <3>1. \/ scClient' = [scClient EXCEPT ![script.user].code = script.new]
          \/ scClient' = scClient
      BY <2>1 DEF GivesNewCode
    <3> QED
      BY <1>0, <3>1 DEF ClientRecords
  <2>2. CASE ~ GivesNewCode
    BY <2>2 DEF CodeStep, AuditReferralCodeIndex, RunReferralCodeMigration, FixDuplicateReferralCodes,
         GenerateUniqueReferralCode, IndexesNewCode, ReadsOldCode, DropsOldCode,
         IndexMissingReferralCodes, IndexesCode
  <2> QED
    BY <2>1, <2>2
<1>3. script.op = "codes"
  <2>1. script.pc \notin {"idle", "each", "sum", "fetch", "pay", "done"}
    BY DEF CodeStep, AuditReferralCodeIndex, RunReferralCodeMigration, FixDuplicateReferralCodes,
         GenerateUniqueReferralCode, GivesNewCode, IndexesNewCode, ReadsOldCode, DropsOldCode,
         IndexMissingReferralCodes, IndexesCode
  <2> QED
    BY <1>0, <2>1 DEF ScWell, ScInPlace
<1>4. script'.op = "codes" /\ script'.seen \in {script.seen, scClient}
  <2>1. \A stage : /\ Audits(stage).op = script.op /\ Audits(stage).seen = scClient
    BY <1>0 DEF Audits, ScriptRecords
  <2>2. NextOther.op = script.op /\ NextOther.seen = script.seen
    BY <1>0 DEF NextOther, ScriptRecords
  <2>3. ASSUME NEW u \in ScUsers, AuditReferralCodeIndex(u)
        PROVE  script'.op = script.op /\ script'.seen = script.seen
    BY <1>0, <2>3 DEF AuditReferralCodeIndex, ScriptRecords
  <2>4. CASE RunReferralCodeMigration
    <3>1. script.stage \in {"initial", "fix", "index", "verify"}
      BY <1>0 DEF ScriptRecords
    <3>2. CASE script.stage = "initial"
      BY <1>0, <1>3, <2>1, <2>4, <3>2 DEF RunReferralCodeMigration, ScriptRecords
    <3>3. CASE script.stage # "initial"
      BY <1>0, <1>3, <2>4, <3>1, <3>3 DEF RunReferralCodeMigration, ScriptRecords
    <3> QED
      BY <3>2, <3>3
  <2>5. CASE FixDuplicateReferralCodes
    <3>1. CASE script' = Audits("index")
      BY <1>3, <2>1, <3>1
    <3>2. CASE \E d, c, t : script' = [script EXCEPT !.pc = "others", !.dups = d, !.code = c, !.todo = t]
      BY <1>0, <1>3, <3>2 DEF ScriptRecords
    <3>3. script' = Audits("index")
          \/ \E d, c, t : script' = [script EXCEPT !.pc = "others", !.dups = d, !.code = c, !.todo = t]
      <4>1. CASE script.dups = {} /\ script' = Audits("index")
        BY <4>1
      <4>2. ASSUME NEW c \in script.dups, NEW t,
                   script' = [script EXCEPT !.pc = "others", !.dups = @ \ {c}, !.code = c, !.todo = t]
            PROVE  \E d, k, r : script' = [script EXCEPT !.pc = "others", !.dups = d, !.code = k, !.todo = r]
        BY <4>2
      <4> QED
        BY <2>5, <4>1, <4>2 DEF FixDuplicateReferralCodes
    <3> QED
      BY <3>1, <3>2, <3>3
  <2>6. CASE GenerateUniqueReferralCode
    BY <1>0, <1>3, <2>6 DEF GenerateUniqueReferralCode, ScriptRecords
  <2>7. CASE GivesNewCode \/ IndexesNewCode
    BY <1>0, <1>3, <2>7 DEF GivesNewCode, IndexesNewCode, ScriptRecords
  <2>8. CASE ReadsOldCode \/ DropsOldCode
    BY <1>0, <1>3, <2>2, <2>8 DEF ReadsOldCode, DropsOldCode, ScriptRecords
  <2>9. CASE IndexMissingReferralCodes
    <3>1. CASE script' = Audits("verify")
      BY <1>3, <2>1, <3>1
    <3>2. CASE \E m : script' = [script EXCEPT !.missing = m]
      BY <1>0, <1>3, <3>2 DEF ScriptRecords
    <3>3. CASE \E m, u, c : script' = [script EXCEPT !.missing = m, !.pc = "write", !.user = u, !.code = c]
      BY <1>0, <1>3, <3>3 DEF ScriptRecords
    <3>4. \/ script' = Audits("verify")
          \/ \E m : script' = [script EXCEPT !.missing = m]
          \/ \E m, u, c : script' = [script EXCEPT !.missing = m, !.pc = "write", !.user = u, !.code = c]
      <4>1. ASSUME NEW e, script' = [script EXCEPT !.missing = @ \ {e}]
            PROVE  \E m : script' = [script EXCEPT !.missing = m]
        BY <4>1
      <4>2. ASSUME NEW e, script' = [script EXCEPT !.missing = @ \ {e}, !.pc = "write",
                                                   !.user = e[1], !.code = e[2]]
            PROVE  \E m, u, c : script' = [script EXCEPT !.missing = m, !.pc = "write", !.user = u, !.code = c]
        BY <4>2
      <4> QED
        BY <2>9, <4>1, <4>2 DEF IndexMissingReferralCodes
    <3> QED
      BY <3>1, <3>2, <3>3, <3>4
  <2>10. CASE IndexesCode
    BY <1>0, <1>3, <2>10 DEF IndexesCode, ScriptRecords
  <2> QED
    BY <1>3, <2>3, <2>4, <2>5, <2>6, <2>7, <2>8, <2>9, <2>10 DEF CodeStep
<1> QED
  BY <1>1, <1>2, <1>4, PointsElsewhere

\* A step that failed counts as a race for whom it was about.
LEMMA FailsPoints == ASSUME ScWell, PointsInv, ScFails PROVE PointsInv'
<1>0. script \in ScriptRecords /\ script.todo \subseteq ScUsers
  BY DEF ScWell, ScTypeOK, ScriptRecords
<1>1. UNCHANGED <<scClient, scEarned, scLedger, scDue, scPaying>>
  BY DEF ScFails, serverVars
<1>2. ASSUME NEW u \in script.todo, script.pc \in {"each", "sum", "fetch", "pay"},
             script' = After(u), scRaced' = scRaced \cup {u}
      PROVE  PointsInv'
  <2>1. script.op \in {"add", "clean", "fix"}
    BY <1>0, <1>2 DEF ScWell, ScInPlace, ScriptRecords
  <2>2. script'.op = script.op /\ script'.seen = script.seen
    BY <1>0, <1>2, <2>1, AfterWell
  <2>3. OwedInv'
    BY <1>1, <1>2, <2>2, OwedKept DEF PointsInv
  <2>4. CASE script.op = "fix"
    BY <1>0, <1>1, <1>2, <2>3, <2>4, FixPasses DEF PointsInv
  <2>5. CASE script.op # "fix"
    BY <2>2, <2>3, <2>5 DEF PointsInv, CheckInv, SettledInv
  <2> QED
    BY <2>4, <2>5
<1>3. CASE script.pc = "each"
  BY <1>2, <1>3 DEF ScFails
<1>4. CASE script.pc \in {"sum", "fetch", "pay"}
  <2>1. script.user \in script.todo
    BY <1>4 DEF ScWell, ScInPlace
  <2> QED
    BY <1>2, <1>4, <2>1 DEF ScFails
<1>5. CASE script.pc \notin {"each", "sum", "fetch", "pay"}
  <2>1. /\ script.pc \in {"others", "update", "set", "old", "drop", "write"} /\ scRaced' = scRaced
        /\ \/ script' = [script EXCEPT !.pc = "fixing", !.todo = {}, !.user = ScNone,
                                       !.code = ScNone, !.new = ScNone]
           \/ script' = [script EXCEPT !.pc = "indexing", !.user = ScNone, !.code = ScNone]
    BY <1>5 DEF ScFails
  <2>2. script'.op = script.op /\ script'.seen = script.seen
    BY <1>0, <2>1 DEF ScriptRecords
  <2>3. script.op # "fix"
    BY <1>0, <2>1 DEF ScWell, ScInPlace
  <2> QED
    BY <1>1, <2>1, <2>2, <2>3, PointsElsewhere
<1> QED
  BY <1>3, <1>4, <1>5

LEMMA PointsHold == ScSpec => []PointsInv
<1>1. ScInit => PointsInv
  <2> SUFFICES ASSUME ScInit PROVE PointsInv
    OBVIOUS
  <2>1. script.op = "none" /\ \A u \in ScUsers : script.seen[u].balance = 0
    BY DEF ScInit, ScriptIdle, NoClient
  <2>2. ASSUME NEW u \in ScUsers
        PROVE  /\ scEarned[u] <= scDue[u] /\ scLedger[u] <= scDue[u]
               /\ scClient[u].balance + Cardinality(scPaying[u]) <= scDue[u]
               /\ script.seen[u].balance + Cardinality(scPaying[u]) <= scDue[u]
    <3>1. scEarned[u] \in Nat /\ scLedger[u] \in Nat /\ scClient[u].balance <= scEarned[u]
      BY ScriptsAssumption DEF ScInit
    <3>2. scDue[u] = IF scEarned[u] < scLedger[u] THEN scLedger[u] ELSE scEarned[u]
      BY DEF ScInit
    <3>3. scPaying[u] = {} /\ Cardinality({}) = 0
      BY FS_EmptySet DEF ScInit
    <3>4. scClient[u].balance \in Nat
      BY ScInitWell, PayingCounted
    <3> QED
      BY <2>1, <3>1, <3>2, <3>3, <3>4
  <2> QED
    BY <2>1, <2>2 DEF PointsInv, OwedInv, CheckInv, SettledInv
<1>2. ScWell /\ PointsInv /\ [ScNext]_scVars => PointsInv'
  <2> SUFFICES ASSUME ScWell, PointsInv, [ScNext]_scVars PROVE PointsInv'
    OBVIOUS
  <2>1. ASSUME NEW op \in {"add", "clean", "fix", "codes"}, ScStarts(op) PROVE PointsInv'
    <3>1. UNCHANGED <<scClient, scEarned, scLedger, scDue, scPaying, scRaced>>
      BY <2>1 DEF ScStarts, serverVars, scHistories
    <3>2. script'.todo = Known /\ script'.seen = scClient /\ script'.user = ScNone
      BY <2>1 DEF ScStarts, ScriptIdle
    <3>3. OwedInv'
      BY <3>1, <3>2, OwedKept DEF PointsInv
    <3>4. CheckInv'
      BY <3>2, ScriptsAssumption DEF CheckInv
    <3>5. SettledInv'
      BY <3>1, <3>2 DEF SettledInv, Known
    <3> QED
      BY <3>3, <3>4, <3>5 DEF PointsInv
  <2>2. CASE ScCrash
    <3>1. UNCHANGED <<scClient, scEarned, scLedger, scDue, scPaying, scRaced>> /\ script' = ScriptIdle
      BY <2>2 DEF ScCrash, serverVars
    <3>2. script'.op = "none" /\ \A u \in ScUsers : script'.seen[u].balance = 0
      BY <3>1 DEF ScriptIdle, NoClient
    <3> QED
      BY <3>1, <3>2, PointsElsewhere
  <2>3. CASE UNCHANGED scVars
    BY <2>3, PointsUntouched DEF scVars, serverVars, scHistories
  <2> QED
    BY <2>1, <2>2, <2>3, ServerPoints, ClientPoints, CodePoints, FailsPoints DEF ScNext
<1> QED
  BY <1>1, <1>2, ScWellHolds, PTL DEF ScSpec

\* However often it is run and wherever it stops, the compensation pays exactly
\* what is missing (CheckUserDiscrepancy, CompensateUser).
THEOREM CompensationExact == ScSpec => []CompensatedExactly
<1>1. ScWell /\ PointsInv => CompensatedExactly
  <2> SUFFICES ASSUME ScWell, PointsInv, NEW u \in ScUsers \ scRaced
               PROVE  /\ scClient[u].balance <= scDue[u]
                      /\ script.op = "fix" /\ script.pc = "done" /\ script.seen[u] # NoClient =>
                            Settled(u)
    BY DEF CompensatedExactly, Settled
  <2>1. scClient[u].balance <= scDue[u]
    BY PayingCounted DEF PointsInv, OwedInv
  <2>2. script.op = "fix" /\ script.pc = "done" /\ script.seen[u] # NoClient => Settled(u)
    BY DEF ScWell, ScInPlace, PointsInv, SettledInv
  <2> QED
    BY <2>1, <2>2
<1> QED
  BY <1>1, ScWellHolds, PointsHold, PTL

\* Codes.
LEMMA CodeTypes ==
    ASSUME ScWell
    PROVE  /\ scClient \in [ScUsers -> ClientRecords] /\ script \in ScriptRecords
           /\ scLookup \in [ScCodes -> ScUsers \cup {ScNone}] /\ scCreating \subseteq ScUsers
           /\ \A u \in ScUsers : scClient[u].code \in ScCodes \cup {ScNone}
           /\ \A u \in ScUsers : script.seen[u].code \in ScCodes \cup {ScNone}
           /\ script.todo \subseteq ScUsers /\ script.missing \subseteq ScUsers \X ScCodes
           /\ script.dups \subseteq ScCodes
           /\ ScNone \notin ScUsers /\ ScNone \notin ScCodes
<1>1. scClient \in [ScUsers -> ClientRecords] /\ script \in ScriptRecords
  BY DEF ScWell, ScTypeOK
<1>2. script.seen \in [ScUsers -> ClientRecords]
  BY <1>1 DEF ScriptRecords
<1>3. \A r \in ClientRecords : r.code \in ScCodes \cup {ScNone}
  BY DEF ClientRecords
<1>4. /\ script.todo \subseteq ScUsers /\ script.missing \subseteq ScUsers \X ScCodes
      /\ script.dups \subseteq ScCodes
  BY <1>1 DEF ScriptRecords
<1> QED
  BY <1>1, <1>2, <1>3, <1>4, ScriptsAssumption DEF ScWell, ScTypeOK

\* Whoever touches neither codes nor entries nor the script.
LEMMA CodesUntouched ==
    ASSUME CodesInv, UNCHANGED <<scLookup, scCreating, script, scBroken>>, ScWell,
           \A u \in ScUsers : scClient'[u].code = scClient[u].code
    PROVE  CodesInv'
<1>0. /\ scLookup \in [ScCodes -> ScUsers \cup {ScNone}] /\ scCreating \subseteq ScUsers
      /\ script.todo \subseteq ScUsers /\ script.missing \subseteq ScUsers \X ScCodes
      /\ script.user \in ScUsers \cup {ScNone}
      /\ script.pc \in {"update", "set", "old", "drop", "write"} => script.user \in ScUsers
  BY CodeTypes DEF ScWell, ScInPlace, ScriptRecords
<1>1. SeenCodes'
  BY <1>0 DEF CodesInv, SeenCodes
<1>2. OwnCodes'
  BY <1>0 DEF CodesInv, OwnCodes
<1>3. Replacing'
  BY <1>0 DEF CodesInv, Replacing
<1>4. EntriesLead'
  BY <1>0 DEF CodesInv, EntriesLead
<1>5. Audited'
  BY <1>0 DEF CodesInv, Audited, Auditing
<1>6. Reported'
  BY DEF CodesInv, Reported
<1> QED
  BY <1>1, <1>2, <1>3, <1>4, <1>5, <1>6 DEF CodesInv

LEMMA CreatesCodes ==
    ASSUME ScWell, CodesInv, NEW u \in ScUsers, NEW c \in ScCodes, ScCreates(u, c) PROVE CodesInv'
<1>0. /\ scClient \in [ScUsers -> ClientRecords] /\ script \in ScriptRecords
      /\ scLookup \in [ScCodes -> ScUsers \cup {ScNone}] /\ scCreating \subseteq ScUsers
      /\ \A v \in ScUsers : scClient[v].code \in ScCodes \cup {ScNone}
      /\ \A v \in ScUsers : script.seen[v].code \in ScCodes \cup {ScNone}
      /\ script.todo \subseteq ScUsers /\ script.missing \subseteq ScUsers \X ScCodes
      /\ script.dups \subseteq ScCodes
      /\ ScNone \notin ScUsers /\ ScNone \notin ScCodes
  BY CodeTypes
<1>1. /\ scClient' = [scClient EXCEPT ![u] = NewClient(c)] /\ scCreating' = scCreating \cup {u}
      /\ scClient[u] = NoClient /\ UNCHANGED <<scLookup, script, scBroken>>
      /\ scLookup[c] = ScNone /\ c # script.new /\ \A v \in ScUsers : scClient[v].code # c
  BY DEF ScCreates, scHistories, Known, Drawn
<1>2. /\ scClient'[u].code = c /\ \A v \in ScUsers \ {u} : scClient'[v] = scClient[v]
      /\ scClient[u].code = ScNone
  BY <1>0, <1>1, IdleWell DEF NewClient, NoClient
<1>3. u \notin script.todo /\ u \notin scCreating
  BY <1>2 DEF ScWell, ScKnown
<1>4. script.pc \in {"update", "set", "old", "drop"} => script.user # u /\ script.user \in ScUsers
  BY <1>0, <1>3 DEF ScWell, ScInPlace
<1>5. script.pc = "write" => script.user # u /\ script.user \in ScUsers
  BY <1>0, <1>2 DEF ScWell, ScInPlace, CodesInv, Replacing
<1>6. SeenCodes'
  BY <1>0, <1>1, <1>2 DEF CodesInv, SeenCodes
<1>7. OwnCodes'
  BY <1>0, <1>1, <1>2, <1>3 DEF CodesInv, OwnCodes
<1>8. Replacing'
  BY <1>0, <1>1, <1>2, <1>3, <1>4, <1>5 DEF CodesInv, Replacing
<1>9. EntriesLead'
  <2> SUFFICES ASSUME NEW k \in ScCodes \ scBroken, scLookup[k] # ScNone,
                      scClient'[scLookup[k]].code # k
               PROVE  script.pc \in {"set", "old", "drop"} /\ script.user = scLookup[k] /\ script.code = k
    BY <1>1 DEF EntriesLead
  <2>1. scLookup[k] \in ScUsers
    BY <1>0
  <2>2. scLookup[k] # u
    BY <1>0, <1>2, <1>4, <2>1 DEF CodesInv, EntriesLead
  <2> QED
    BY <1>2, <2>1, <2>2 DEF CodesInv, EntriesLead
<1>10. Audited'
  <2> SUFFICES ASSUME Auditing PROVE Audited'
    BY <1>1 DEF Audited, Auditing
  <2>1. script.seen[u].code = ScNone
    BY <1>2 DEF CodesInv, SeenCodes, Auditing
  <2> QED
    BY <1>0, <1>1, <1>2, <1>3, <2>1 DEF CodesInv, Audited, Auditing
<1>11. Reported'
  BY <1>1 DEF CodesInv, Reported
<1> QED
  BY <1>6, <1>7, <1>8, <1>9, <1>10, <1>11 DEF CodesInv

LEMMA IndexesCodes ==
    ASSUME ScWell, CodesInv, NEW u \in ScUsers, ScIndexes(u) PROVE CodesInv'
<1>0. /\ scClient \in [ScUsers -> ClientRecords] /\ script \in ScriptRecords
      /\ scLookup \in [ScCodes -> ScUsers \cup {ScNone}] /\ scCreating \subseteq ScUsers
      /\ \A v \in ScUsers : scClient[v].code \in ScCodes \cup {ScNone}
      /\ \A v \in ScUsers : script.seen[v].code \in ScCodes \cup {ScNone}
      /\ script.todo \subseteq ScUsers /\ script.missing \subseteq ScUsers \X ScCodes
      /\ script.dups \subseteq ScCodes
      /\ ScNone \notin ScUsers /\ ScNone \notin ScCodes
  BY CodeTypes
<1>00. PICK c : c = scClient[u].code
  OBVIOUS
<1>1. /\ scLookup' = [scLookup EXCEPT ![c] = u] /\ scCreating' = scCreating \ {u} /\ u \in scCreating
      /\ UNCHANGED <<scClient, script, scBroken>>
  BY <1>00 DEF ScIndexes, scHistories
<1>2. c \in ScCodes
  BY <1>0, <1>00, <1>1 DEF ScWell, ScKnown
<1>3. scLookup'[c] = u /\ \A k \in ScCodes \ {c} : scLookup'[k] = scLookup[k]
  BY <1>0, <1>1, <1>2
<1>4. SeenCodes'
  BY <1>1 DEF CodesInv, SeenCodes
<1>5. OwnCodes'
  BY <1>0, <1>1 DEF CodesInv, OwnCodes
<1>6. Replacing'
  BY <1>0, <1>1 DEF CodesInv, Replacing
<1>7. EntriesLead'
  BY <1>00, <1>1, <1>3 DEF CodesInv, EntriesLead
<1>8. Audited'
  <2> SUFFICES ASSUME Auditing PROVE Audited'
    BY <1>1 DEF Audited, Auditing
  <2>0. \A k \in ScCodes : scLookup[k] # ScNone => scLookup'[k] # ScNone
    BY <1>0, <1>3
  <2>1. \A k \in script.dups : scLookup'[k] # ScNone
    BY <1>0, <2>0 DEF CodesInv, Audited
  <2>2. ASSUME NEW v \in ScUsers \ script.todo
        PROVE  LET k == script.seen[v].code
               IN  /\ k \notin scBroken \cup {ScNone} =>
                         \/ scLookup'[k] # ScNone
                         \/ <<v, k>> \in script.missing
                         \/ (script.pc = "write" /\ script.code = k)
                   /\ k # ScNone /\ script.stage = "verify" /\ script.missing = {} /\ script.dups = {} =>
                         scLookup'[k] = v
    <3>0. PICK k : k = script.seen[v].code
      OBVIOUS
    <3>1. k \notin scBroken \cup {ScNone} =>
                         \/ scLookup'[k] # ScNone
                         \/ <<v, k>> \in script.missing
                         \/ (script.pc = "write" /\ script.code = k)
      BY <1>0, <2>0, <3>0 DEF CodesInv, Audited
    <3>2. ASSUME k # ScNone, script.stage = "verify", script.missing = {}, script.dups = {}
          PROVE  scLookup'[k] = v
      <4>1. scLookup[k] = v
        BY <3>0, <3>2 DEF CodesInv, Audited
      <4>2. scClient[v].code = k
        BY <3>0, <3>2 DEF CodesInv, SeenCodes, Auditing
      <4>3. k = c => v = u
        BY <1>00, <1>1, <4>2 DEF CodesInv, OwnCodes
      <4> QED
        BY <1>0, <1>3, <3>0, <3>2, <4>1, <4>3
    <3> QED
      BY <3>0, <3>1, <3>2
  <2>3. ASSUME NEW v \in ScUsers \ scCreating'
        PROVE  LET k == scClient[v].code
               IN  /\ script.seen[v].code = ScNone /\ k # ScNone => scLookup'[k] # ScNone
                   /\ script.stage = "verify" /\ k \notin scBroken \cup {ScNone} => scLookup'[k] # ScNone
    <3>1. CASE v = u
      BY <1>0, <1>00, <1>3, <3>1
    <3>2. CASE v # u
      BY <1>0, <1>1, <2>0, <3>2 DEF CodesInv, Audited
    <3> QED
      BY <3>1, <3>2
  <2> QED
    BY <1>1, <2>1, <2>2, <2>3 DEF Audited, Auditing
<1>9. Reported'
  BY <1>1 DEF CodesInv, Reported
<1> QED
  BY <1>4, <1>5, <1>6, <1>7, <1>8, <1>9 DEF CodesInv

LEMMA ServerCodes == ASSUME ScWell, CodesInv, ServerStep PROVE CodesInv'
<1>0. scClient \in [ScUsers -> ClientRecords]
  BY CodeTypes
<1>1. ASSUME NEW u \in ScUsers, NEW j \in ScJobs, ScAssigns(u, j) PROVE CodesInv'
  <2>1. scClient' = [scClient EXCEPT ![u] = Given(scClient[u], j)]
    BY <1>1 DEF ScAssigns
  <2>2. Given(scClient[u], j).code = scClient[u].code
    BY <1>0 DEF Given, ClientRecords
  <2>3. \A v \in ScUsers : scClient'[v].code = scClient[v].code
    BY <1>0, <2>1, <2>2
  <2>4. UNCHANGED <<scLookup, scCreating, script, scBroken>>
    BY <1>1 DEF ScAssigns
  <2> QED
    BY <2>3, <2>4, CodesUntouched
<1>2. ASSUME NEW u \in ScUsers, NEW j \in ScJobs, ScCompletes(u, j) PROVE CodesInv'
  BY <1>2, CodesUntouched DEF ScCompletes
<1>3. ASSUME NEW u \in ScUsers, NEW j \in ScJobs, ScCredits(u, j) PROVE CodesInv'
  <2>1. scClient' = [scClient EXCEPT ![u] = Rewarded(scClient[u], j)]
    BY <1>3 DEF ScCredits
  <2>2. Rewarded(scClient[u], j).code = scClient[u].code
    BY <1>0 DEF Rewarded, ClientRecords
  <2>3. \A v \in ScUsers : scClient'[v].code = scClient[v].code
    BY <1>0, <2>1, <2>2
  <2>4. UNCHANGED <<scLookup, scCreating, script, scBroken>>
    BY <1>3 DEF ScCredits
  <2> QED
    BY <2>3, <2>4, CodesUntouched
<1> QED
  BY <1>1, <1>2, <1>3, CreatesCodes, IndexesCodes DEF ServerStep

\* No migration of codes is at work: its broken replacements are remembered.
LEMMA OtherCodes ==
    ASSUME ScWell, ScWell', CodesInv, script'.op # "codes", UNCHANGED <<scLookup, scCreating>>,
           scBroken \subseteq scBroken',
           \A u \in ScUsers : scClient'[u].code = scClient[u].code,
           \A u \in ScUsers : script'.seen[u].code \in {ScNone, scClient[u].code},
           \A e \in script'.missing : scClient[e[1]].code = e[2],
           script'.report = "none",
           script.pc \in {"set", "old", "drop"} => script.code \in scBroken'
    PROVE  CodesInv'
<1>0. /\ scLookup \in [ScCodes -> ScUsers \cup {ScNone}] /\ scCreating \subseteq ScUsers
      /\ script'.missing \subseteq ScUsers \X ScCodes /\ scCreating' = scCreating
      /\ scLookup' = scLookup
  BY CodeTypes DEF ScWell, ScTypeOK, ScriptRecords
<1>1. script'.pc \in {"idle", "each", "sum", "fetch", "pay", "done"}
  BY DEF ScWell, ScTypeOK, ScriptRecords, ScInPlace
<1>2. SeenCodes'
  BY <1>0 DEF SeenCodes
<1>3. OwnCodes'
  BY <1>0, <1>1 DEF CodesInv, OwnCodes
<1>4. Replacing'
  BY <1>1 DEF Replacing
<1>5. EntriesLead'
  BY <1>0 DEF CodesInv, EntriesLead
<1>6. Audited' /\ Reported'
  BY DEF Audited, Auditing, Reported
<1> QED
  BY <1>2, <1>3, <1>4, <1>5, <1>6 DEF CodesInv

\* At the start of an audit nothing is passed yet; the verification starts with
\* all that the indexing had passed indexed.
LEMMA NewAudit ==
    ASSUME ScWell, ScWell', CodesInv, UNCHANGED <<scClient, scLookup, scCreating, scBroken>>,
           script'.pc = "audit", script'.op = "codes",
           script'.todo = Known, script'.seen = scClient, script'.missing = {}, script'.dups = {},
           script'.report = "none", script.pc \notin {"set", "old", "drop"},
           script'.stage = "verify" => script.pc = "indexing" /\ script.missing = {}
    PROVE  CodesInv'
<1>0. /\ scLookup \in [ScCodes -> ScUsers \cup {ScNone}] /\ scCreating \subseteq ScUsers
      /\ scCreating' = scCreating /\ scLookup' = scLookup /\ scClient' = scClient
      /\ \A u \in ScUsers : scClient[u].code \in ScCodes \cup {ScNone}
      /\ scBroken' = scBroken
  BY CodeTypes
<1>1. SeenCodes'
  BY <1>0 DEF SeenCodes
<1>2. OwnCodes'
  BY <1>0 DEF CodesInv, OwnCodes
<1>3. Replacing'
  BY DEF Replacing
<1>4. EntriesLead'
  BY <1>0 DEF CodesInv, EntriesLead
<1>5. \A u \in ScUsers \ Known : scClient[u].code = ScNone
  BY IdleWell DEF Known
<1>6. ASSUME script'.stage = "verify", NEW u \in ScUsers \ scCreating,
             scClient[u].code \notin scBroken \cup {ScNone}
      PROVE  scLookup[scClient[u].code] # ScNone
  <2>1. script.op = "codes" /\ script.stage = "index" /\ script.todo = {}
    BY <1>6 DEF ScWell, ScTypeOK, ScriptRecords, ScInPlace
  <2>2. script.seen[u].code \in {ScNone, scClient[u].code}
    BY <2>1 DEF CodesInv, SeenCodes
  <2>3. CASE script.seen[u].code = ScNone
    BY <1>6, <2>1, <2>3 DEF CodesInv, Audited, Auditing
  <2>4. CASE script.seen[u].code = scClient[u].code
    BY <1>6, <2>1, <2>4 DEF CodesInv, Audited, Auditing
  <2> QED
    BY <2>2, <2>3, <2>4
<1>7. Audited'
  BY <1>0, <1>5, <1>6 DEF Audited, Auditing
<1>8. Reported'
  BY DEF Reported
<1> QED
  BY <1>1, <1>2, <1>3, <1>4, <1>7, <1>8 DEF CodesInv

LEMMA ScStartsCodes ==
    ASSUME ScWell, CodesInv, NEW op \in {"add", "clean", "fix", "codes"}, ScStarts(op) PROVE CodesInv'
<1>1. ScWell' /\ UNCHANGED <<scClient, scLookup, scCreating, scBroken>>
      /\ script.pc \in {"idle", "done"}
  BY ScStartsWell DEF ScStarts, serverVars, scHistories
<1>2. /\ script'.todo = Known /\ script'.seen = scClient /\ script'.missing = {}
      /\ script'.dups = {} /\ script'.report = "none" /\ script'.stage = "initial"
      /\ script'.op = op
      /\ op = "codes" => script'.pc = "audit"
  BY DEF ScStarts, ScriptIdle
<1>3. CASE op = "codes"
  BY <1>1, <1>2, <1>3, NewAudit
<1>4. CASE op # "codes"
  <2>1. script'.op # "codes"
    BY <1>4 DEF ScStarts, ScriptIdle
  <2>2. script'.seen = scClient /\ script'.missing = {} /\ script'.report = "none"
    BY DEF ScStarts, ScriptIdle
  <2> QED
    BY <1>1, <2>1, <2>2, OtherCodes
<1> QED
  BY <1>3, <1>4

\* A client's code goes back with its copy.
LEMMA ReplacesCodes ==
    ASSUME ScWell, CodesInv, NEW u \in ScUsers, NEW client \in ClientRecords, Replaces(u, client),
           script.op \in {"add", "clean"}, u \in script.todo, script.pc = "each",
           client.code = script.seen[u].code
    PROVE  \A v \in ScUsers : scClient'[v].code = scClient[v].code
<1>1. scClient' = [scClient EXCEPT ![u] = client] /\ scClient \in [ScUsers -> ClientRecords]
  BY CodeTypes DEF Replaces
<1>2. client.code # ScNone
  BY DEF ScWell, ScKnown
<1>3. client.code = scClient[u].code
  BY <1>2 DEF CodesInv, SeenCodes
<1> QED
  BY <1>1, <1>3

LEMMA ClientCodes == ASSUME ScWell, CodesInv, ClientStep PROVE CodesInv'
<1>0. /\ scClient \in [ScUsers -> ClientRecords] /\ script \in ScriptRecords
      /\ script.seen \in [ScUsers -> ClientRecords] /\ script.todo \subseteq ScUsers
  BY DEF ScWell, ScTypeOK, ScriptRecords
<1>1. ScWell' /\ UNCHANGED <<scLookup, scCreating, scBroken>>
  BY ScClientWell DEF ClientStep, AddMultiJobToClient, CleanupClient, CheckUserDiscrepancy,
     CalculateExpectedBalance, CompensateUser, Compensates, serverVars, scHistories
<1>2. /\ script.pc \in {"each", "sum", "fetch", "pay"} /\ script.op \in {"add", "clean", "fix"}
      /\ script.pc # "each" => script.user \in script.todo
  <2>1. script.pc \in {"each", "sum", "fetch", "pay"}
    BY DEF ClientStep, AddMultiJobToClient, CleanupClient, CheckUserDiscrepancy,
           CalculateExpectedBalance, CompensateUser, Compensates, Each
  <2> QED
    BY <1>0, <2>1 DEF ScWell, ScInPlace, ScriptRecords
<1>3. script.report = "none"
  BY <1>2 DEF CodesInv, Reported
<1>4. /\ script'.op = script.op /\ script'.seen = script.seen /\ script'.missing = script.missing
      /\ script'.report = "none"
  <2>1. ASSUME NEW u \in script.todo, script' = After(u)
        PROVE  /\ script'.op = script.op /\ script'.seen = script.seen
               /\ script'.missing = script.missing /\ script'.report = "none"
    BY <1>0, <1>2, <1>3, <2>1, AfterWell
  <2>2. CASE \E u \in ScUsers : AddMultiJobToClient(u) \/ CleanupClient(u)
    BY <2>1, <2>2 DEF AddMultiJobToClient, CleanupClient, Each
  <2>3. CASE \E u \in ScUsers : CheckUserDiscrepancy(u)
    BY <1>0, <1>3, <2>3 DEF CheckUserDiscrepancy, ScriptRecords
  <2>4. CASE CalculateExpectedBalance
    <3>1. script.user \in script.todo
      BY <1>2, <2>4 DEF CalculateExpectedBalance
    <3>2. CASE script' = After(script.user)
      BY <2>1, <3>1, <3>2
    <3>3. CASE script' # After(script.user)
      BY <1>0, <1>3, <2>4, <3>3 DEF CalculateExpectedBalance, ScriptRecords
    <3> QED
      BY <3>2, <3>3
  <2>5. CASE CompensateUser
    BY <1>0, <1>3, <2>5 DEF CompensateUser, ScriptRecords
  <2>6. CASE Compensates
    <3>1. script.user \in script.todo /\ script' = After(script.user)
      BY <1>2, <2>6 DEF Compensates
    <3> QED
      BY <2>1, <3>1
  <2> QED
    BY <2>2, <2>3, <2>4, <2>5, <2>6 DEF ClientStep
<1>5. \A v \in ScUsers : scClient'[v].code = scClient[v].code
  <2>1. ASSUME NEW u \in ScUsers, AddMultiJobToClient(u), ~ script.seen[u].multi
        PROVE  \A v \in ScUsers : scClient'[v].code = scClient[v].code
    <3> DEFINE client == [script.seen[u] EXCEPT !.multi = TRUE, !.active = script.seen[u].legacy]
    <3>1. client \in ClientRecords /\ client.code = script.seen[u].code
      BY <1>0 DEF ClientRecords
    <3>2. Replaces(u, client) /\ script.op = "add" /\ u \in script.todo /\ script.pc = "each"
      BY <2>1 DEF AddMultiJobToClient, Each
    <3> HIDE DEF client
    <3> QED
      BY <3>1, <3>2, ReplacesCodes
  <2>2. ASSUME NEW u \in ScUsers, CleanupClient(u), Cleanable(script.seen[u])
        PROVE  \A v \in ScUsers : scClient'[v].code = scClient[v].code
    <3> DEFINE client == [script.seen[u] EXCEPT !.old = FALSE, !.legacy = {}]
    <3>1. client \in ClientRecords /\ client.code = script.seen[u].code
      BY <1>0 DEF ClientRecords
    <3>2. Replaces(u, client) /\ script.op = "clean" /\ u \in script.todo /\ script.pc = "each"
      BY <2>2 DEF CleanupClient, Each
    <3> HIDE DEF client
    <3> QED
      BY <3>1, <3>2, ReplacesCodes
  <2>3. CASE scClient' = scClient
    BY <2>3
  <2>4. CASE Compensates
    <3>1. scClient' = [scClient EXCEPT ![script.user].balance = Compensated(script.read, script.owed)]
      BY <2>4 DEF Compensates
    <3> QED
      BY <1>0, <3>1 DEF ClientRecords
  <2> QED
    BY <2>1, <2>2, <2>3, <2>4 DEF ClientStep, AddMultiJobToClient, CleanupClient,
       CheckUserDiscrepancy, CalculateExpectedBalance, CompensateUser
<1>6. script.pc \notin {"set", "old", "drop"} /\ script'.op # "codes"
  BY <1>2, <1>4
<1>7. /\ \A u \in ScUsers : script'.seen[u].code \in {ScNone, scClient[u].code}
      /\ \A e \in script'.missing : scClient[e[1]].code = e[2]
  BY <1>2, <1>4 DEF CodesInv, SeenCodes
<1> QED
  BY <1>1, <1>4, <1>5, <1>6, <1>7, OtherCodes

LEMMA ScCrashCodes == ASSUME ScWell, CodesInv, ScCrash PROVE CodesInv'
<1>1. /\ ScWell' /\ UNCHANGED <<scClient, scLookup, scCreating>> /\ scBroken' = scBroken \cup Torn
      /\ script' = ScriptIdle
  BY ScCrashWell DEF ScCrash, serverVars
<1>2. /\ script'.op = "none" /\ script'.missing = {} /\ script'.report = "none"
      /\ \A u \in ScUsers : script'.seen[u].code = ScNone
  BY <1>1 DEF ScriptIdle, NoClient
<1>3. script.pc \in {"set", "old", "drop"} => script.code \in scBroken'
  BY <1>1 DEF Torn
<1> QED
  BY <1>1, <1>2, <1>3, OtherCodes

LEMMA AuditCodes == ASSUME ScWell, CodesInv, NEW u \in ScUsers, AuditReferralCodeIndex(u) PROVE CodesInv'
<1> DEFINE missing(c) == IF scLookup[c] = ScNone THEN script.missing \cup {<<u, c>>} ELSE script.missing
<1> DEFINE dups(c) == IF scLookup[c] \in {ScNone, u} THEN script.dups ELSE script.dups \cup {c}
<1>0. /\ script \in ScriptRecords /\ script.todo \subseteq ScUsers
      /\ scLookup \in [ScCodes -> ScUsers \cup {ScNone}] /\ scCreating \subseteq ScUsers
      /\ script.missing \subseteq ScUsers \X ScCodes /\ script.dups \subseteq ScCodes
      /\ \A v \in ScUsers : script.seen[v].code \in ScCodes \cup {ScNone}
      /\ ScNone \notin ScUsers /\ ScNone \notin ScCodes
  BY CodeTypes
<1>00. PICK c : c = script.seen[u].code
  OBVIOUS
<1>1. /\ script.pc = "audit" /\ u \in script.todo
      /\ script' = [script EXCEPT !.todo = @ \ {u}, !.missing = missing(c), !.dups = dups(c)]
      /\ UNCHANGED <<scClient, scLookup, scCreating, scBroken>>
  BY <1>00 DEF AuditReferralCodeIndex, serverVars, scHistories
<1>2. script.op = "codes" /\ c \in ScCodes
  BY <1>0, <1>00, <1>1 DEF ScWell, ScInPlace, ScKnown, ScriptRecords
<1>3. /\ script'.todo = script.todo \ {u} /\ script'.missing = missing(c) /\ script'.dups = dups(c)
      /\ script'.pc = "audit" /\ script'.op = "codes" /\ script'.stage = script.stage
      /\ script'.seen = script.seen /\ script'.report = script.report
  BY <1>0, <1>1, <1>2 DEF ScriptRecords
<1>4. SeenCodes'
  <2> SUFFICES ASSUME script.stage # "fix" PROVE SeenCodes'
    BY <1>3 DEF SeenCodes
  <2>1. scClient[u].code = c
    BY <1>0, <1>00, <1>2 DEF CodesInv, SeenCodes
  <2> QED
    BY <1>1, <1>2, <1>3, <2>1 DEF CodesInv, SeenCodes
<1>5. OwnCodes'
  BY <1>1, <1>3 DEF CodesInv, OwnCodes
<1>6. Replacing'
  BY <1>3 DEF Replacing
<1>7. EntriesLead'
  BY <1>1, <1>3 DEF CodesInv, EntriesLead
<1>8. Audited'
  <2> SUFFICES ASSUME script.stage # "fix" PROVE Audited'
    BY <1>3 DEF Audited, Auditing
  <2>0. /\ \A k \in script.dups : scLookup[k] # ScNone
        /\ \A v \in ScUsers \ script.todo :
              LET k == script.seen[v].code
              IN  /\ k \notin scBroken \cup {ScNone} =>
                        scLookup[k] # ScNone \/ <<v, k>> \in script.missing
                  /\ k # ScNone /\ script.stage = "verify" /\ script.missing = {} /\ script.dups = {} =>
                        scLookup[k] = v
        /\ \A v \in ScUsers \ scCreating :
              LET k == scClient[v].code
              IN  /\ script.seen[v].code = ScNone /\ k # ScNone => scLookup[k] # ScNone
                  /\ script.stage = "verify" /\ k \notin scBroken \cup {ScNone} => scLookup[k] # ScNone
    BY <1>1, <1>2 DEF CodesInv, Audited, Auditing
  <2>1. \A k \in script'.dups : scLookup[k] # ScNone
    BY <1>3, <2>0
  <2>2. script.missing \subseteq script'.missing /\ script.dups \subseteq script'.dups
    BY <1>3
  <2>3. ASSUME NEW v \in ScUsers \ script'.todo
        PROVE  LET k == script.seen[v].code
               IN  /\ k \notin scBroken \cup {ScNone} =>
                        scLookup[k] # ScNone \/ <<v, k>> \in script'.missing
                   /\ k # ScNone /\ script.stage = "verify" /\ script'.missing = {} /\ script'.dups = {} =>
                        scLookup[k] = v
    <3>1. CASE v = u
      <4>1. scLookup[c] # ScNone \/ <<u, c>> \in script'.missing
        BY <1>3
      <4>2. script'.missing = {} /\ script'.dups = {} => scLookup[c] = u
        BY <1>3
      <4> QED
        BY <1>00, <3>1, <4>1, <4>2
    <3>2. CASE v # u
      <4>1. v \in ScUsers \ script.todo
        BY <1>3, <3>2
      <4> QED
        BY <2>0, <2>2, <4>1
    <3> QED
      BY <3>1, <3>2
  <2> QED
    BY <1>1, <1>3, <2>0, <2>1, <2>3 DEF Audited, Auditing
<1>9. Reported'
  BY <1>1, <1>3 DEF CodesInv, Reported
<1> QED
  BY <1>4, <1>5, <1>6, <1>7, <1>8, <1>9 DEF CodesInv

LEMMA RunCodes == ASSUME ScWell, CodesInv, RunReferralCodeMigration PROVE CodesInv'
<1>0. /\ script \in ScriptRecords /\ script.pc = "audit" /\ script.todo = {} /\ script.op = "codes"
      /\ UNCHANGED <<scClient, scLookup, scCreating, scBroken>>
      /\ UNCHANGED <<scClient, scLookup, serverVars, scRuns, scHistories>>
  BY DEF ScWell, ScTypeOK, ScInPlace, ScriptRecords, RunReferralCodeMigration, serverVars, scHistories
<1>1. ScWell' /\ script.report = "none" /\ script.stage \in {"initial", "fix", "index", "verify"}
  BY <1>0, RunWell DEF CodesInv, Reported, ScriptRecords
<1>2. ASSUME NEW s \in {"index", "fix"}, script' = Audits(s) PROVE CodesInv'
  <2>1. /\ script'.op = "codes" /\ script'.pc = "audit" /\ script'.stage = s
        /\ script'.todo = Known /\ script'.seen = scClient
        /\ script'.missing = {} /\ script'.dups = {} /\ script'.report = script.report
    BY <1>0, <1>2, AuditsWell
  <2>2. script'.stage # "verify"
    BY <2>1
  <2> QED
    BY <1>0, <1>1, <2>1, <2>2, NewAudit
<1>3. ASSUME NEW p \in {"done", "fixing", "indexing"}, NEW r \in {"none", "nothing", "success", "issues"},
             script' = [script EXCEPT !.pc = p, !.report = r],
             p # "done" => r = "none",
             r = "success" => script.stage = "verify" /\ script.missing = {} /\ script.dups = {},
             p = "done" => script.stage = "verify" \/ (script.stage = "initial" /\ script.missing = {})
      PROVE  CodesInv'
  <2>1. /\ script'.pc = p /\ script'.report = r /\ script'.op = "codes" /\ script'.stage = script.stage
        /\ script'.todo = {} /\ script'.seen = script.seen /\ script'.missing = script.missing
        /\ script'.dups = script.dups
    BY <1>0, <1>3 DEF ScriptRecords
  <2>2. SeenCodes'
    BY <1>0, <2>1 DEF CodesInv, SeenCodes
  <2>3. OwnCodes'
    BY <1>0, <2>1 DEF CodesInv, OwnCodes
  <2>4. Replacing'
    BY <2>1 DEF Replacing
  <2>5. EntriesLead'
    BY <1>0, <2>1 DEF CodesInv, EntriesLead
  <2>6. Audited'
    BY <1>0, <2>1 DEF CodesInv, Audited, Auditing
  <2>7. Reported'
    BY <1>3, <2>1 DEF Reported
  <2> QED
    BY <2>2, <2>3, <2>4, <2>5, <2>6, <2>7 DEF CodesInv
<1>4. CASE script.stage = "initial" /\ script.missing = {}
  BY <1>3, <1>4 DEF RunReferralCodeMigration
<1>5. CASE script.stage = "initial" /\ script.missing # {}
  BY <1>2, <1>5 DEF RunReferralCodeMigration
<1>6. CASE script.stage \in {"fix", "index"}
  <2>1. \A p : [script EXCEPT !.pc = p] = [script EXCEPT !.pc = p, !.report = "none"]
    BY <1>0, <1>1 DEF ScriptRecords
  <2>2. \E p \in {"fixing", "indexing"} : script' = [script EXCEPT !.pc = p]
    BY <1>6 DEF RunReferralCodeMigration
  <2> QED
    BY <1>3, <2>1, <2>2
<1>7. CASE script.stage = "verify"
  <2>1. script' = [script EXCEPT !.pc = "done",
                     !.report = IF script.missing = {} /\ script.dups = {} THEN "success" ELSE "issues"]
    BY <1>7 DEF RunReferralCodeMigration
  <2> QED
    BY <1>3, <1>7, <2>1
<1> QED
  BY <1>1, <1>4, <1>5, <1>6, <1>7

\* While codes are replaced, three things remain to be shown of a step.
LEMMA FixingCodes ==
    ASSUME CodesInv, script.op = "codes", script.pc \in {"fixing", "others", "update", "set", "old", "drop"},
           script'.op = "codes", script'.stage = "fix", script'.report = script.report,
           script'.pc # "done", OwnCodes', Replacing', EntriesLead'
    PROVE  CodesInv'
<1>1. script.report = "none"
  BY DEF CodesInv, Reported
<1> QED
  BY <1>1 DEF CodesInv, SeenCodes, Audited, Auditing, Reported

LEMMA FixCodes == ASSUME ScWell, CodesInv, FixDuplicateReferralCodes PROVE CodesInv'
<1>0. /\ script \in ScriptRecords /\ script.pc = "fixing" /\ script.op = "codes" /\ script.stage = "fix"
      /\ UNCHANGED <<scClient, scLookup, scCreating, scBroken>>
      /\ UNCHANGED <<scClient, scLookup, serverVars, scRuns, scHistories>>
      /\ scCreating \subseteq ScUsers
  BY DEF ScWell, ScTypeOK, ScInPlace, ScriptRecords, FixDuplicateReferralCodes, serverVars, scHistories
<1>1. CASE script' = Audits("index")
  <2>1. ScWell' /\ script.report = "none"
    BY <1>0, FixWell DEF CodesInv, Reported
  <2>2. /\ script'.op = "codes" /\ script'.pc = "audit" /\ script'.stage = "index"
        /\ script'.todo = Known /\ script'.seen = scClient
        /\ script'.missing = {} /\ script'.dups = {} /\ script'.report = script.report
    BY <1>0, <1>1, AuditsWell
  <2> QED
    BY <1>0, <2>1, <2>2, NewAudit
<1>2. ASSUME NEW c \in script.dups,
             NEW first \in IF {u \in Known : scClient[u].code = c} = {} THEN {ScNone}
                           ELSE {u \in Known : scClient[u].code = c},
             script' = [script EXCEPT !.pc = "others", !.dups = @ \ {c}, !.code = c,
                                      !.todo = {u \in Known : scClient[u].code = c} \ {first}]
      PROVE  CodesInv'
  <2>1. /\ script'.pc = "others" /\ script'.op = "codes" /\ script'.stage = "fix" /\ script'.code = c
        /\ script'.todo = {u \in Known : scClient[u].code = c} \ {first}
        /\ script'.report = script.report
    BY <1>0, <1>2 DEF ScriptRecords
  <2>2. script'.todo \cap scCreating = {}
    <3> SUFFICES ASSUME NEW w \in script'.todo, w \in scCreating PROVE FALSE
      OBVIOUS
    <3>1. first \in Known /\ scClient[first].code = c /\ first # w /\ w \in Known
      BY <1>2, <2>1
    <3> QED
      BY <2>1, <3>1 DEF CodesInv, OwnCodes, Known
  <2>3. OwnCodes'
    BY <1>0, <2>1 DEF CodesInv, OwnCodes
  <2>4. Replacing'
    BY <1>0, <2>1, <2>2 DEF Replacing
  <2>5. EntriesLead'
    BY <1>0, <2>1 DEF CodesInv, EntriesLead
  <2> QED
    BY <1>0, <2>1, <2>3, <2>4, <2>5, FixingCodes
<1> QED
  BY <1>0, <1>1, <1>2 DEF FixDuplicateReferralCodes

LEMMA GenerateCodes == ASSUME ScWell, CodesInv, GenerateUniqueReferralCode PROVE CodesInv'
<1>0. /\ script \in ScriptRecords /\ script.pc = "others" /\ script.op = "codes" /\ script.stage = "fix"
      /\ UNCHANGED <<scClient, scLookup, scCreating, scBroken>>
  BY DEF ScWell, ScTypeOK, ScInPlace, ScriptRecords, GenerateUniqueReferralCode, serverVars, scHistories
<1>1. CASE script' = [script EXCEPT !.pc = "fixing", !.code = ScNone]
  <2>1. /\ script'.pc = "fixing" /\ script'.op = "codes" /\ script'.stage = "fix"
        /\ script'.report = script.report
    BY <1>0, <1>1 DEF ScriptRecords
  <2>2. OwnCodes' /\ Replacing' /\ EntriesLead'
    BY <1>0, <2>1 DEF CodesInv, OwnCodes, Replacing, EntriesLead
  <2> QED
    BY <1>0, <2>1, <2>2, FixingCodes
<1>2. ASSUME NEW u \in script.todo, NEW c \in ScCodes, c \notin {scClient[v].code : v \in scCreating},
             script' = [script EXCEPT !.pc = "update", !.user = u, !.new = c]
      PROVE  CodesInv'
  <2>1. /\ script'.pc = "update" /\ script'.op = "codes" /\ script'.stage = "fix" /\ script'.new = c
        /\ script'.report = script.report /\ script'.todo = script.todo /\ script'.code = script.code
    BY <1>0, <1>2 DEF ScriptRecords
  <2>2. OwnCodes'
    BY <1>0, <1>2, <2>1 DEF CodesInv, OwnCodes
  <2>3. Replacing'
    BY <1>0, <2>1 DEF CodesInv, Replacing
  <2>4. EntriesLead'
    BY <1>0, <2>1 DEF CodesInv, EntriesLead
  <2> QED
    BY <1>0, <2>1, <2>2, <2>3, <2>4, FixingCodes
<1> QED
  BY <1>1, <1>2 DEF GenerateUniqueReferralCode

LEMMA ReplacementCodes ==
    ASSUME ScWell, CodesInv, GivesNewCode \/ IndexesNewCode \/ ReadsOldCode \/ DropsOldCode
    PROVE  CodesInv'
<1>0. /\ script \in ScriptRecords /\ script.pc \in {"update", "set", "old", "drop"}
      /\ script.op = "codes" /\ script.stage = "fix" /\ script.user \in script.todo
      /\ script.todo \subseteq ScUsers /\ script.new \in ScCodes /\ script.code \in ScCodes
      /\ script.user \in ScUsers
      /\ scLookup \in [ScCodes -> ScUsers \cup {ScNone}] /\ scCreating \subseteq ScUsers
      /\ scClient \in [ScUsers -> ClientRecords] /\ scCreating' = scCreating
      /\ ScNone \notin ScUsers
  <2>1. script.pc \in {"update", "set", "old", "drop"} /\ scCreating' = scCreating
    BY DEF GivesNewCode, IndexesNewCode, ReadsOldCode, DropsOldCode, serverVars
  <2> QED
    BY <2>1, CodeTypes DEF ScWell, ScInPlace, ScriptRecords
<1>00. PICK w : w = script.user
  OBVIOUS
<1>000. PICK new : new = script.new
  OBVIOUS
<1>0000. PICK code : code = script.code
  OBVIOUS
<1>1. ASSUME NEW p \in {"set", "old", "drop"}, script' = [script EXCEPT !.pc = p]
      PROVE  /\ script'.pc = p /\ script'.op = "codes" /\ script'.stage = "fix"
             /\ script'.todo = script.todo /\ script'.report = script.report
             /\ script'.user = w /\ script'.new = new /\ script'.code = code
  BY <1>0, <1>00, <1>000, <1>0000, <1>1 DEF ScriptRecords
<1>2. ASSUME script' = NextOther
      PROVE  /\ script'.pc = "others" /\ script'.op = "codes" /\ script'.stage = "fix"
             /\ script'.todo = script.todo \ {w} /\ script'.report = script.report
             /\ script'.code = code
  BY <1>0, <1>00, <1>0000, <1>2 DEF ScriptRecords, NextOther
<1>3. w \notin scCreating
  BY <1>0, <1>00 DEF CodesInv, Replacing
<1>4. CASE GivesNewCode
  <2>0. script.pc = "update" /\ scLookup' = scLookup
    BY <1>4 DEF GivesNewCode
  <2>1. /\ script'.pc = "set" /\ script'.op = "codes" /\ script'.stage = "fix"
        /\ script'.todo = script.todo /\ script'.report = script.report
        /\ script'.user = w /\ script'.new = new /\ script'.code = code
    <3>1. script' = [script EXCEPT !.pc = "set"]
      BY <1>4 DEF GivesNewCode
    <3> QED
      BY <1>1, <3>1
  <2>2. CASE scClient' = [scClient EXCEPT ![w].code = new] /\ scBroken' = scBroken
    <3>1. /\ \A v \in ScUsers \ {w} : scClient'[v].code = scClient[v].code
          /\ scClient'[w].code = new
      BY <1>0, <1>00, <2>2 DEF ClientRecords
    <3>2. OwnCodes'
      <4>1. \A v \in scCreating : scClient[v].code # new
        BY <1>000, <2>0 DEF CodesInv, OwnCodes
      <4>2. ASSUME NEW v \in scCreating, NEW x \in ScUsers \ {v} PROVE scClient'[v].code # scClient'[x].code
        <5>1. scClient'[v].code = scClient[v].code
          BY <1>0, <1>3, <3>1
        <5>2. CASE x = w
          BY <3>1, <4>1, <5>1, <5>2
        <5>3. CASE x # w
          BY <3>1, <5>1, <5>3 DEF CodesInv, OwnCodes
        <5> QED
          BY <5>2, <5>3
      <4>3. \A v \in scCreating : scClient'[v].code # new
        BY <1>0, <1>3, <3>1, <4>1
      <4> QED
        BY <1>0, <2>1, <4>2, <4>3 DEF OwnCodes
    <3>3. Replacing'
      <4>1. script.todo \cap scCreating = {} /\ \A u \in script.todo : scClient[u].code = code
        BY <1>0000, <2>0 DEF CodesInv, Replacing
      <4>2. \A u \in script.todo \ {w} : scClient'[u].code = code
        BY <1>0, <3>1, <4>1
      <4> QED
        BY <1>0, <2>1, <3>1, <4>1, <4>2 DEF Replacing
    <3>4. EntriesLead'
      <4> SUFFICES ASSUME NEW k \in ScCodes \ scBroken, scLookup[k] # ScNone,
                          scClient'[scLookup[k]].code # k
                   PROVE  w = scLookup[k] /\ code = k
        BY <2>0, <2>1, <2>2 DEF EntriesLead
      <4>1. scLookup[k] \in ScUsers /\ scClient[scLookup[k]].code = k
        BY <1>0, <2>0 DEF CodesInv, EntriesLead
      <4>2. scLookup[k] = w
        BY <3>1, <4>1
      <4>3. scClient[w].code = code
        BY <1>0, <1>00, <1>0000, <2>0 DEF CodesInv, Replacing
      <4> QED
        BY <4>1, <4>2, <4>3
    <3> QED
      BY <1>0, <2>1, <3>2, <3>3, <3>4, FixingCodes
  <2>3. CASE scBroken' = scBroken \cup {code, new} /\ scClient' = scClient
    <3>1. OwnCodes'
      BY <1>0, <1>000, <2>0, <2>1, <2>3 DEF CodesInv, OwnCodes
    <3>2. Replacing'
      <4>1. script.todo \cap scCreating = {} /\ \A u \in script.todo : scClient[u].code = code
        BY <1>0000, <2>0 DEF CodesInv, Replacing
      <4> QED
        BY <1>0, <2>1, <2>3, <4>1 DEF Replacing
    <3>3. EntriesLead'
      BY <2>0, <2>3 DEF CodesInv, EntriesLead
    <3> QED
      BY <1>0, <2>1, <3>1, <3>2, <3>3, FixingCodes
  <2> QED
    BY <1>4, <1>00, <1>000, <1>0000, <2>2, <2>3 DEF GivesNewCode
<1>5. CASE IndexesNewCode
  <2>0. /\ script.pc = "set" /\ scLookup' = [scLookup EXCEPT ![new] = w]
        /\ UNCHANGED <<scClient, scBroken>>
    BY <1>5, <1>00, <1>000 DEF IndexesNewCode, scHistories
  <2>1. /\ script'.pc = "old" /\ script'.op = "codes" /\ script'.stage = "fix"
        /\ script'.todo = script.todo /\ script'.report = script.report
        /\ script'.user = w /\ script'.new = new /\ script'.code = code
    <3>1. script' = [script EXCEPT !.pc = "old"]
      BY <1>5 DEF IndexesNewCode
    <3> QED
      BY <1>1, <3>1
  <2>2. OwnCodes'
    BY <1>0, <2>0, <2>1 DEF CodesInv, OwnCodes
  <2>3. Replacing'
    <3>1. /\ script.todo \cap scCreating = {}
          /\ \A u \in script.todo \ {w} : scClient[u].code = code
      BY <1>00, <1>0000, <2>0 DEF CodesInv, Replacing
    <3> QED
      BY <1>0, <2>0, <2>1, <3>1 DEF Replacing
  <2>4. EntriesLead'
    <3>1. scLookup'[new] = w /\ \A k \in ScCodes \ {new} : scLookup'[k] = scLookup[k]
      BY <1>0, <1>000, <2>0
    <3>2. new \notin scBroken => scClient[w].code = new
      BY <1>00, <1>000, <2>0 DEF CodesInv, Replacing
    <3>3. \A k \in ScCodes \ scBroken : scLookup[k] # ScNone /\ scClient[scLookup[k]].code # k =>
             w = scLookup[k] /\ code = k
      BY <1>00, <1>0000 DEF CodesInv, EntriesLead
    <3> QED
      BY <2>0, <2>1, <3>1, <3>2, <3>3 DEF EntriesLead
  <2> QED
    BY <1>0, <2>1, <2>2, <2>3, <2>4, FixingCodes
<1>6. script.pc \in {"old", "drop"} =>
         /\ script.todo \cap scCreating = {} /\ \A u \in script.todo \ {w} : scClient[u].code = code
         /\ \A k \in ScCodes \ scBroken : scLookup[k] # ScNone /\ scClient[scLookup[k]].code # k =>
               w = scLookup[k] /\ code = k
  BY <1>00, <1>0000 DEF CodesInv, Replacing, EntriesLead
<1>7. CASE ReadsOldCode /\ script' = [script EXCEPT !.pc = "drop"]
  <2>0. script.pc = "old" /\ UNCHANGED <<scClient, scLookup, scBroken>>
    BY <1>7 DEF ReadsOldCode, scHistories
  <2>1. /\ script'.pc = "drop" /\ script'.op = "codes" /\ script'.stage = "fix"
        /\ script'.todo = script.todo /\ script'.report = script.report
        /\ script'.user = w /\ script'.new = new /\ script'.code = code
    BY <1>1, <1>7
  <2>2. OwnCodes'
    BY <1>0, <2>0, <2>1 DEF CodesInv, OwnCodes
  <2>3. Replacing' /\ EntriesLead'
    BY <1>0, <1>6, <2>0, <2>1 DEF Replacing, EntriesLead
  <2> QED
    BY <1>0, <2>1, <2>2, <2>3, FixingCodes
<1>8. CASE ReadsOldCode /\ script' # [script EXCEPT !.pc = "drop"]
  <2>0. /\ script.pc = "old" /\ UNCHANGED <<scClient, scLookup, scBroken>> /\ script' = NextOther
        /\ scLookup[code] # w
    BY <1>8, <1>00, <1>0000 DEF ReadsOldCode, MustDrop, scHistories
  <2>1. /\ script'.pc = "others" /\ script'.op = "codes" /\ script'.stage = "fix"
        /\ script'.todo = script.todo \ {w} /\ script'.report = script.report
        /\ script'.code = code
    BY <1>2, <2>0
  <2>2. OwnCodes'
    BY <1>0, <2>0, <2>1 DEF CodesInv, OwnCodes
  <2>3. Replacing' /\ EntriesLead'
    BY <1>0, <1>6, <2>0, <2>1 DEF Replacing, EntriesLead
  <2> QED
    BY <1>0, <2>1, <2>2, <2>3, FixingCodes
<1>9. CASE DropsOldCode
  <2>0. /\ script.pc = "drop" /\ UNCHANGED <<scClient, scBroken>> /\ script' = NextOther
        /\ scLookup' = [scLookup EXCEPT ![code] = ScNone]
    BY <1>9, <1>0000 DEF DropsOldCode, scHistories
  <2>1. /\ script'.pc = "others" /\ script'.op = "codes" /\ script'.stage = "fix"
        /\ script'.todo = script.todo \ {w} /\ script'.report = script.report
        /\ script'.code = code
    BY <1>2, <2>0
  <2>2. OwnCodes'
    BY <1>0, <2>0, <2>1 DEF CodesInv, OwnCodes
  <2>3. scLookup'[code] = ScNone /\ \A k \in ScCodes \ {code} : scLookup'[k] = scLookup[k]
    BY <1>0, <1>0000, <2>0
  <2>4. Replacing' /\ EntriesLead'
    BY <1>0, <1>6, <2>0, <2>1, <2>3 DEF Replacing, EntriesLead
  <2> QED
    BY <1>0, <2>1, <2>2, <2>4, FixingCodes
<1> QED
  BY <1>4, <1>5, <1>7, <1>8, <1>9

LEMMA MissingCodes == ASSUME ScWell, CodesInv, IndexMissingReferralCodes PROVE CodesInv'
<1>0. /\ script \in ScriptRecords /\ script.pc = "indexing" /\ script.op = "codes"
      /\ script.stage = "index" /\ script.todo = {} /\ script.missing \subseteq ScUsers \X ScCodes
      /\ UNCHANGED <<scClient, scLookup, scCreating, scBroken>>
      /\ UNCHANGED <<scClient, scLookup, serverVars, scRuns, scHistories>>
      /\ scCreating \subseteq ScUsers
  BY DEF ScWell, ScTypeOK, ScInPlace, ScriptRecords, IndexMissingReferralCodes, serverVars, scHistories
<1>1. script.report = "none"
  BY <1>0 DEF CodesInv, Reported
<1>2. CASE script.missing = {} /\ script' = Audits("verify")
  <2>1. ScWell'
    BY <1>0, MissingWell
  <2>2. /\ script'.op = "codes" /\ script'.pc = "audit" /\ script'.stage = "verify"
        /\ script'.todo = Known /\ script'.seen = scClient
        /\ script'.missing = {} /\ script'.dups = {} /\ script'.report = script.report
    BY <1>0, <1>2, AuditsWell
  <2> QED
    BY <1>0, <1>1, <1>2, <2>1, <2>2, NewAudit
<1>3. ASSUME NEW entry \in script.missing, script'.missing = script.missing \ {entry},
             script'.op = "codes", script'.stage = "index", script'.todo = {},
             script'.seen = script.seen, script'.dups = script.dups, script'.report = script.report,
             script'.pc \in {"indexing", "write"},
             \/ scLookup[entry[2]] # ScNone
             \/ script'.pc = "write" /\ script'.user = entry[1] /\ script'.code = entry[2],
             script'.pc = "write" => script'.user = entry[1] /\ script'.code = entry[2]
      PROVE  CodesInv'
  <2>1. SeenCodes'
    BY <1>0, <1>3 DEF CodesInv, SeenCodes
  <2>2. OwnCodes'
    BY <1>0, <1>3 DEF CodesInv, OwnCodes
  <2>3. Replacing'
    BY <1>0, <1>3 DEF CodesInv, SeenCodes, Replacing
  <2>4. EntriesLead'
    BY <1>0, <1>3 DEF CodesInv, EntriesLead
  <2>5. Audited'
    <3>1. ASSUME NEW u \in ScUsers, NEW c, c = script.seen[u].code, c \notin scBroken \cup {ScNone}
          PROVE  scLookup[c] # ScNone \/ <<u, c>> \in script'.missing
                 \/ (script'.pc = "write" /\ script'.code = c)
      <4>1. scLookup[c] # ScNone \/ <<u, c>> \in script.missing
        BY <1>0, <3>1 DEF CodesInv, Audited, Auditing
      <4>2. CASE <<u, c>> = entry
        BY <1>3, <4>2
      <4>3. CASE <<u, c>> # entry
        BY <1>3, <4>1, <4>3
      <4> QED
        BY <4>2, <4>3
    <3>2. /\ \A c \in script.dups : scLookup[c] # ScNone
          /\ \A u \in ScUsers \ scCreating : script.seen[u].code = ScNone /\ scClient[u].code # ScNone =>
                scLookup[scClient[u].code] # ScNone
      BY <1>0 DEF CodesInv, Audited, Auditing
    <3> QED
      BY <1>0, <1>3, <3>1, <3>2 DEF Audited, Auditing
  <2>6. Reported'
    BY <1>1, <1>3 DEF Reported
  <2> QED
    BY <2>1, <2>2, <2>3, <2>4, <2>5, <2>6 DEF CodesInv
<1>4. ASSUME NEW entry \in script.missing, script' = [script EXCEPT !.missing = @ \ {entry}],
             entry[2] \in script.dups \/ scLookup[entry[2]] # ScNone
      PROVE  CodesInv'
  <2>1. scLookup[entry[2]] # ScNone
    BY <1>0, <1>4 DEF CodesInv, Audited, Auditing
  <2>2. /\ script'.missing = script.missing \ {entry}
        /\ script'.op = "codes" /\ script'.stage = "index" /\ script'.todo = {}
        /\ script'.seen = script.seen /\ script'.dups = script.dups /\ script'.report = script.report
        /\ script'.pc = "indexing"
    BY <1>0, <1>4 DEF ScriptRecords
  <2> QED
    BY <1>3, <2>1, <2>2
<1>5. ASSUME NEW entry \in script.missing,
             script' = [script EXCEPT !.missing = @ \ {entry}, !.pc = "write",
                                      !.user = entry[1], !.code = entry[2]]
      PROVE  CodesInv'
  <2>1. /\ script'.missing = script.missing \ {entry}
        /\ script'.op = "codes" /\ script'.stage = "index" /\ script'.todo = {}
        /\ script'.seen = script.seen /\ script'.dups = script.dups /\ script'.report = script.report
        /\ script'.pc = "write" /\ script'.user = entry[1] /\ script'.code = entry[2]
    BY <1>0, <1>5 DEF ScriptRecords
  <2> QED
    BY <1>3, <2>1
<1> QED
  BY <1>2, <1>4, <1>5 DEF IndexMissingReferralCodes

\* The write of a missing entry, or the failure of it.
LEMMA WriteCodes ==
    ASSUME ScWell, CodesInv, script.pc = "write",
           script' = [script EXCEPT !.pc = "indexing", !.user = ScNone, !.code = ScNone],
           UNCHANGED <<scClient, scCreating>>,
           \/ scLookup' = [scLookup EXCEPT ![script.code] = script.user] /\ scBroken' = scBroken
           \/ scLookup' = scLookup /\ scBroken' = scBroken \cup {script.code}
    PROVE  CodesInv'
<1>0. /\ script \in ScriptRecords /\ script.op = "codes" /\ script.stage = "index" /\ script.todo = {}
      /\ scLookup \in [ScCodes -> ScUsers \cup {ScNone}] /\ scCreating \subseteq ScUsers
      /\ script.missing \subseteq ScUsers \X ScCodes /\ script.dups \subseteq ScCodes
      /\ script.user \in ScUsers /\ script.code \in ScCodes
      /\ \A v \in ScUsers : script.seen[v].code \in ScCodes \cup {ScNone}
      /\ \A v \in ScUsers : scClient[v].code \in ScCodes \cup {ScNone}
      /\ ScNone \notin ScUsers
  BY CodeTypes DEF ScWell, ScInPlace, ScriptRecords
<1>1. PICK w, c : w = script.user /\ c = script.code
  OBVIOUS
<1>2. /\ script'.pc = "indexing" /\ script'.op = "codes" /\ script'.stage = "index"
      /\ script'.todo = {} /\ script'.seen = script.seen /\ script'.missing = script.missing
      /\ script'.dups = script.dups /\ script'.report = script.report
  BY <1>0 DEF ScriptRecords
<1>3. /\ scClient[w].code = c /\ script.report = "none"
      /\ \A k \in ScCodes \ scBroken : scLookup[k] # ScNone => scClient[scLookup[k]].code = k
  BY <1>1 DEF CodesInv, Replacing, Reported, EntriesLead
<1>4. /\ \A k \in ScCodes \ {c} : scLookup'[k] = scLookup[k]
      /\ scLookup'[c] = w \/ (scLookup'[c] = scLookup[c] /\ c \in scBroken')
      /\ scBroken \subseteq scBroken'
  BY <1>0, <1>1
<1>5. SeenCodes'
  BY <1>0, <1>2 DEF CodesInv, SeenCodes
<1>6. OwnCodes'
  BY <1>0, <1>2 DEF CodesInv, OwnCodes
<1>7. Replacing'
  BY <1>2 DEF Replacing
<1>8. EntriesLead'
  BY <1>0, <1>3, <1>4 DEF EntriesLead
<1>9. Audited'
  <2>0. \A k \in ScCodes : scLookup[k] # ScNone => scLookup'[k] # ScNone
    BY <1>0, <1>1, <1>4
  <2>1. \A k \in script.dups : scLookup'[k] # ScNone
    BY <1>0, <2>0 DEF CodesInv, Audited, Auditing
  <2>2. ASSUME NEW u \in ScUsers, NEW k, k = script.seen[u].code, k \notin scBroken' \cup {ScNone}
        PROVE  scLookup'[k] # ScNone \/ <<u, k>> \in script.missing
    <3>1. k \in ScCodes /\ k \notin scBroken
      BY <1>0, <1>4, <2>2
    <3>2. scLookup[k] # ScNone \/ <<u, k>> \in script.missing \/ c = k
      BY <1>0, <1>1, <2>2, <3>1 DEF CodesInv, Audited, Auditing
    <3>3. c = k => scLookup'[k] # ScNone
      BY <1>0, <1>1, <1>4, <2>2
    <3> QED
      BY <2>0, <3>1, <3>2, <3>3
  <2>3. \A u \in ScUsers \ scCreating : script.seen[u].code = ScNone /\ scClient[u].code # ScNone =>
           scLookup'[scClient[u].code] # ScNone
    BY <1>0, <2>0 DEF CodesInv, Audited, Auditing
  <2> QED
    BY <1>0, <1>2, <2>1, <2>2, <2>3 DEF Audited, Auditing
<1>10. Reported'
  BY <1>2, <1>3 DEF Reported
<1> QED
  BY <1>5, <1>6, <1>7, <1>8, <1>9, <1>10 DEF CodesInv

LEMMA FailsCodes == ASSUME ScWell, CodesInv, ScFails PROVE CodesInv'
<1>0. /\ script \in ScriptRecords /\ script.todo \subseteq ScUsers /\ ScWell'
      /\ UNCHANGED <<scClient, scLookup, scCreating>> /\ scBroken' = scBroken \cup Torn
      /\ scCreating \subseteq ScUsers
  BY ScFailsWell, CodeTypes DEF ScFails, serverVars, ScriptRecords
<1>1. ASSUME NEW u \in script.todo, script.pc \in {"each", "sum", "fetch", "pay"}, script' = After(u)
      PROVE  CodesInv'
  <2>1. script.op \in {"add", "clean", "fix"}
    BY <1>0, <1>1 DEF ScWell, ScInPlace, ScriptRecords
  <2>2. /\ script'.op = script.op /\ script'.seen = script.seen /\ script'.missing = script.missing
        /\ script'.report = "none"
    BY <1>0, <1>1, <2>1, AfterWell DEF CodesInv, Reported
  <2>3. /\ \A v \in ScUsers : script'.seen[v].code \in {ScNone, scClient[v].code}
        /\ \A e \in script'.missing : scClient[e[1]].code = e[2]
    BY <2>1, <2>2 DEF CodesInv, SeenCodes
  <2>4. script'.op # "codes"
    BY <2>1, <2>2
  <2> QED
    BY <1>0, <1>1, <2>2, <2>3, <2>4, OtherCodes
<1>2. CASE script.pc \in {"each", "sum", "fetch", "pay"}
  <2>1. script.pc # "each" => script.user \in script.todo
    BY <1>2 DEF ScWell, ScInPlace
  <2> QED
    BY <1>1, <1>2, <2>1 DEF ScFails
<1>3. CASE script.pc \in {"others", "update", "set", "old", "drop"}
  <2>1. script.op = "codes" /\ script.stage = "fix"
    BY <1>0, <1>3 DEF ScWell, ScInPlace, ScriptRecords
  <2>2. script' = [script EXCEPT !.pc = "fixing", !.todo = {}, !.user = ScNone,
                                 !.code = ScNone, !.new = ScNone]
    BY <1>3 DEF ScFails
  <2>3. /\ script'.pc = "fixing" /\ script'.op = "codes" /\ script'.stage = "fix"
        /\ script'.report = script.report
    BY <1>0, <2>1, <2>2 DEF ScriptRecords
  <2>4. OwnCodes' /\ Replacing'
    BY <1>0, <2>3 DEF CodesInv, OwnCodes, Replacing
  <2>5. EntriesLead'
    BY <1>0, <1>3 DEF CodesInv, EntriesLead, Torn
  <2> QED
    BY <1>3, <2>1, <2>3, <2>4, <2>5, FixingCodes
<1>4. CASE script.pc = "write"
  <2>1. /\ script' = [script EXCEPT !.pc = "indexing", !.user = ScNone, !.code = ScNone]
        /\ scBroken' = scBroken \cup {script.code}
    BY <1>0, <1>4 DEF ScFails, Torn
  <2> QED
    BY <1>0, <1>4, <2>1, WriteCodes
<1> QED
  BY <1>2, <1>3, <1>4 DEF ScFails

LEMMA CodesHold == ScSpec => []CodesInv
<1>1. ScInit => CodesInv
  <2> SUFFICES ASSUME ScInit PROVE CodesInv
    OBVIOUS
  <2>1. /\ script.op = "none" /\ script.pc = "idle" /\ script.missing = {} /\ script.report = "none"
        /\ \A u \in ScUsers : script.seen[u].code = ScNone
        /\ scCreating = {} /\ \A c \in ScCodes : scLookup[c] # ScNone => scClient[scLookup[c]].code = c
    BY DEF ScInit, ScriptIdle, NoClient
  <2> QED
    BY <2>1 DEF CodesInv, SeenCodes, OwnCodes, Replacing, EntriesLead, Audited, Auditing, Reported
<1>2. ScWell /\ CodesInv /\ [ScNext]_scVars => CodesInv'
  <2> SUFFICES ASSUME ScWell, CodesInv, [ScNext]_scVars PROVE CodesInv'
    OBVIOUS
  <2>1. CASE IndexesCode
    <3>1. /\ script.pc = "write" /\ UNCHANGED <<scClient, scCreating, scBroken>>
          /\ script' = [script EXCEPT !.pc = "indexing", !.user = ScNone, !.code = ScNone]
          /\ scLookup' = [scLookup EXCEPT ![script.code] = script.user]
      BY <2>1 DEF IndexesCode, serverVars, scHistories
    <3> QED
      BY <3>1, WriteCodes
  <2>2. CASE CodeStep
    BY <2>1, <2>2, AuditCodes, RunCodes, FixCodes, GenerateCodes, ReplacementCodes, MissingCodes
       DEF CodeStep
  <2>3. CASE UNCHANGED scVars
    BY <2>3, CodesUntouched DEF scVars, serverVars, scHistories
  <2> QED
    BY <2>2, <2>3, ScStartsCodes, ServerCodes, ClientCodes, FailsCodes, ScCrashCodes DEF ScNext
<1> QED
  BY <1>1, <1>2, ScWellHolds, PTL DEF ScSpec

\* A code leads to its holder, whatever the migration of codes is doing, and what
\* it says at its end is true (AuditReferralCodeIndex, FixDuplicateReferralCodes,
\* IndexMissingReferralCodes).
THEOREM CodesAlwaysLead == ScSpec => []CodesLead
<1>1. ScWell /\ CodesInv => CodesLead
  <2> SUFFICES ASSUME ScWell, CodesInv PROVE CodesLead
    OBVIOUS
  <2>1. EntriesLead
    BY DEF CodesInv
  <2>2. ASSUME script.op = "codes", script.pc = "done", NEW u \in ScUsers \ scCreating
        PROVE  LET c == script.seen[u].code
               IN  /\ c \notin scBroken \cup {ScNone} => scLookup[c] # ScNone
                   /\ c # ScNone /\ script.report = "success" => scLookup[c] = u
    <3>1. script.todo = {}
      BY <2>2 DEF ScWell, ScInPlace
    <3>2. script.stage = "verify" \/ (script.stage = "initial" /\ script.missing = {})
      BY <2>2 DEF CodesInv, Reported
    <3>3. Auditing
      BY <2>2, <3>2 DEF Auditing
    <3>4. script.seen[u].code \in {ScNone, scClient[u].code}
      BY <3>3 DEF CodesInv, SeenCodes, Auditing
    <3>5. ASSUME script.seen[u].code \notin scBroken \cup {ScNone}
          PROVE  scLookup[script.seen[u].code] # ScNone
      BY <2>2, <3>1, <3>2, <3>3, <3>4, <3>5 DEF CodesInv, Audited
    <3>6. ASSUME script.seen[u].code # ScNone, script.report = "success"
          PROVE  scLookup[script.seen[u].code] = u
      BY <3>1, <3>3, <3>6 DEF CodesInv, Audited, Reported
    <3> QED
      BY <3>5, <3>6
  <2> QED
    BY <2>1, <2>2 DEF CodesLead, EntriesLead
<1> QED
  BY <1>1, ScWellHolds, CodesHold, PTL
=============================================================================
