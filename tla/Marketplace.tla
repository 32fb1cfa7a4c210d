----------------------------- MODULE Marketplace -----------------------------
(***************************************************************************)
(* The requests that sell one scraped job: a scrape that creates, waits    *)
(* for, prices and buys it, and the marketplace's details, downloads,      *)
(* purchases, repricing and the admin's cleanup, under API keys with a     *)
(* usage limit.  A request is a list of functions it calls, each a list of *)
(* Redis commands; a function that fails drops the rest of its commands,   *)
(* and what its caller does then is where the list was cut.                *)
(*                                                                         *)
(* Counters of views and downloads are not kept, only the write of the     *)
(* whole record that raises them.                                          *)
(***************************************************************************)
EXTENDS Naturals, Sequences

CONSTANTS
    MkUsers,        \* principals with an API key
    MkCalls,        \* requests, each served once
    UsageLimit,     \* config.limits.usageLimit
    MkCrashes,      \* bound on crashes of the server
    Nobody          \* the user of a request without a key

ASSUME MkAssumption ==
    /\ UsageLimit \in Nat /\ MkCrashes \in Nat
    /\ Nobody \notin MkUsers

VARIABLES
    mkJob,          \* job:{id}, or NoRecord
    mkOwner,        \* its creator, Nobody before it is created
    mkListed,       \* the states under which jobs_by_state lists it
    mkAnswer,       \* the jobCompleted event on its way to the scrape
    mkCached,       \* jobDetailsCache has the job's details
    mkBought,       \* purchase:{user}:{id}
    mkBoughtBy,     \* purchases_by_user:{user} has the job
    mkUsage,        \* usageCount of apikey:{user}
    mkCall,         \* the requests in progress
    mkCrashCount,
    mkCompleted,    \* history: the job was COMPLETED at some time
    mkShown,        \* history: its data was served to somebody
    mkConfirmed,    \* history: users told that their purchase is stored
    mkServed,       \* history: successful requests since the key was made
    mkLoose         \* history: users with overlapping or aborted requests

mkRecords == <<mkJob, mkOwner, mkListed, mkBought, mkBoughtBy, mkUsage>>
mkMemory == <<mkAnswer, mkCached, mkCall>>
mkHistory == <<mkCompleted, mkShown, mkConfirmed, mkServed, mkLoose>>
mkVars == <<mkRecords, mkMemory, mkCrashCount, mkHistory>>

JobStates == {"pending", "ongoing", "completed", "failed"}
NoRecord == [state |-> "none", stored |-> FALSE, priced |-> FALSE]

\* Contents of an answer, as the two tests for emptiness tell them apart.
Contents == {"data", "emptyArray", "emptyText"}

\* updateJob with a new state; markJobAsFailed and the assignment are this.
To(s) == <<"getJob", s, "unlist", "list">>

Usage == <<"getUsage", "setUsage">>
\* storePurchase.  (Mutant first: the user's list is left out.)
Buy_Unlisted == <<"getCompleted", "hasPurchase", "setPurchase", "confirm">>
Buy == <<"getCompleted", "hasPurchase", "setPurchase", "addPurchase", "confirm">>

\* The functions each route calls, and their commands, in order.
RegisterClient == << <<"setKey">> >>
AddJob == << <<"auth", "checkLimit">>, Usage >>
Price == <<"getJob", "setPrice">>
ScrapeUrl == << <<"auth", "checkLimit", "create">>, To("ongoing"), <<"wait">>, Price, Usage, Buy >>
Purchase == << <<"auth">> \o Buy >>
Details == << <<"cached", "getJob", "countView", "remember">> >>
MarketDownload ==
    << <<"auth", "hasAccess", "getCompleted">>, <<"getJob", "countView">>, <<"serve">> >>
GetFileContent == << <<"auth", "getOwn", "serve">> >>
JobDownload == GetFileContent
Reprice == << <<"auth", "getUnpriced">> \o Price >>
CleanupOldJobs == << <<"getJob", "del", "unlist">> >>

WithKey == {RegisterClient, AddJob, ScrapeUrl, Purchase, MarketDownload, GetFileContent,
            JobDownload, Reprice}
WithoutKey == {Details, CleanupOldJobs}

IdleCall == [user |-> Nobody, todo |-> <<>>, old |-> NoRecord, new |-> "none", usage |-> 0]

(***************************************************************************)
(* Where a request stands.                                                 *)
(***************************************************************************)
Busy(c) == mkCall[c].todo # <<>>

At(c, op) == Busy(c) /\ Head(Head(mkCall[c].todo)) = op

AfterCommand(todo) ==
    IF Len(Head(todo)) > 1 THEN <<Tail(Head(todo))>> \o Tail(todo) ELSE Tail(todo)

\* A request that has nothing left to do is over, and not begun again.
Over == [IdleCall EXCEPT !.new = "over"]

EndsWith(c, functions) ==
    mkCall' = [mkCall EXCEPT ![c] = IF functions = <<>> THEN Over ELSE [@ EXCEPT !.todo = functions]]

Continue(c) == EndsWith(c, AfterCommand(mkCall[c].todo))
Fails(c) == EndsWith(c, Tail(mkCall[c].todo))

(***************************************************************************)
(* Requests begin.  A request with a key that overlaps another of its user *)
(* is noted.                                                               *)
(***************************************************************************)
Starts(c, functions, u) ==
    /\ mkCall[c] = IdleCall
    /\ mkCall' = [mkCall EXCEPT ![c] = [@ EXCEPT !.user = u, !.todo = functions]]
    /\ mkLoose' = IF u # Nobody /\ \E d \in MkCalls : Busy(d) /\ mkCall[d].user = u
                  THEN mkLoose \cup {u} ELSE mkLoose
    /\ UNCHANGED <<mkRecords, mkAnswer, mkCached, mkCrashCount,
                   mkCompleted, mkShown, mkConfirmed, mkServed>>

MkRequest(c) ==
    \/ \E functions \in WithKey, u \in MkUsers : Starts(c, functions, u)
    \/ \E functions \in WithoutKey : Starts(c, functions, Nobody)

(***************************************************************************)
(* Keys.  The header may be unreadable, the key unknown or its user not    *)
(* active; every key ever given out leads to its user.                     *)
(***************************************************************************)
Authorizes(c) ==
    /\ At(c, "auth")
    /\ Continue(c) \/ EndsWith(c, <<>>)
    /\ UNCHANGED <<mkRecords, mkAnswer, mkCached, mkCrashCount, mkHistory>>

\* (Mutant first: one more than the limit.)
WithinLimit_OffByOne(u) == mkUsage[u] <= UsageLimit
WithinLimit(u) == mkUsage[u] < UsageLimit

CheckRateLimit(c) ==
    /\ At(c, "checkLimit")
    /\ IF WithinLimit(mkCall[c].user) THEN Continue(c) ELSE EndsWith(c, <<>>)
    /\ UNCHANGED <<mkRecords, mkAnswer, mkCached, mkCrashCount, mkHistory>>

GetUsage(c) ==
    /\ At(c, "getUsage")
    /\ mkCall' = [mkCall EXCEPT ![c] = [@ EXCEPT !.todo = AfterCommand(mkCall[c].todo),
                                                 !.usage = mkUsage[mkCall[c].user]]]
    /\ UNCHANGED <<mkRecords, mkAnswer, mkCached, mkCrashCount, mkHistory>>

Incremented(n) == n + 1

IncrementAPIUsage(c) ==
    LET u == mkCall[c].user IN
    /\ At(c, "setUsage")
    /\ mkUsage' = [mkUsage EXCEPT ![u] = Incremented(mkCall[c].usage)]
    /\ mkServed' = [mkServed EXCEPT ![u] = @ + 1]
    /\ Continue(c)
    /\ UNCHANGED <<mkJob, mkOwner, mkListed, mkBought, mkBoughtBy, mkAnswer, mkCached,
                   mkCrashCount, mkCompleted, mkShown, mkConfirmed, mkLoose>>

\* The record is replaced; the lookup of the old key stays.
CreateAPIKey(c) ==
    LET u == mkCall[c].user IN
    /\ At(c, "setKey")
    /\ mkUsage' = [mkUsage EXCEPT ![u] = 0]
    /\ mkServed' = [mkServed EXCEPT ![u] = 0]
    /\ Continue(c)
    /\ UNCHANGED <<mkJob, mkOwner, mkListed, mkBought, mkBoughtBy, mkAnswer, mkCached,
                   mkCrashCount, mkCompleted, mkShown, mkConfirmed, mkLoose>>

(***************************************************************************)
(* The job record and its listing.  A writer puts back the whole record it *)
(* read, changed.                                                          *)
(***************************************************************************)
\* The first scrape's job is followed; another's is only accepted or not.
Create(c) ==
    /\ At(c, "create")
    /\ \/ /\ mkOwner = Nobody
          /\ mkOwner' = mkCall[c].user
          /\ mkJob' = [NoRecord EXCEPT !.state = "pending"]
          /\ mkListed' = mkListed \cup {"pending"}
          /\ Continue(c)
       \/ /\ mkOwner # Nobody
          /\ EndsWith(c, <<>>) \/ EndsWith(c, <<Usage>>)
          /\ UNCHANGED <<mkJob, mkOwner, mkListed>>
    /\ UNCHANGED <<mkBought, mkBoughtBy, mkUsage, mkAnswer, mkCached, mkCrashCount, mkHistory>>

\* A job that cannot be assigned, for want of its record or of a node, ends
\* the request.
Assigning(c) == mkCall[c].todo[1] = To("ongoing")

GetJob(c) ==
    /\ At(c, "getJob")
    /\ \/ mkJob = NoRecord /\ ~Assigning(c) /\ Fails(c)
       \/ Assigning(c) /\ EndsWith(c, <<>>)
       \/ /\ mkJob # NoRecord
          /\ mkCall' = [mkCall EXCEPT ![c] =
                [@ EXCEPT !.todo = AfterCommand(mkCall[c].todo), !.old = mkJob]]
    /\ UNCHANGED <<mkRecords, mkAnswer, mkCached, mkCrashCount, mkHistory>>

\* What a request requires of the record it finds, to go on at all.
Admits(c, op) ==
    CASE op = "getCompleted" -> mkJob.state = "completed"
      [] op = "getUnpriced" -> mkJob.state = "completed" /\ mkJob.stored /\ ~mkJob.priced
      [] op = "getOwn" -> mkJob # NoRecord /\ mkJob.stored /\ mkOwner = mkCall[c].user
      [] op = "hasAccess" -> mkCall[c].user \in mkBought

Reads(c) ==
    /\ \E op \in {"getCompleted", "getUnpriced", "getOwn", "hasAccess"} :
          At(c, op) /\ IF Admits(c, op) THEN Continue(c) ELSE EndsWith(c, <<>>)
    /\ UNCHANGED <<mkRecords, mkAnswer, mkCached, mkCrashCount, mkHistory>>

\* Indexes are touched only if the state changes.
SetState(c, s) ==
    LET old == mkCall[c].old IN
    /\ At(c, s)
    /\ \E stored \in IF s = "completed" THEN BOOLEAN ELSE {old.stored} :
          mkJob' = [old EXCEPT !.state = s, !.stored = stored]
    /\ mkCompleted' = (mkCompleted \/ s = "completed")
    /\ IF old.state = s THEN Fails(c)
       ELSE mkCall' = [mkCall EXCEPT ![c] =
               [@ EXCEPT !.todo = AfterCommand(mkCall[c].todo), !.new = s]]
    /\ UNCHANGED <<mkOwner, mkListed, mkBought, mkBoughtBy, mkUsage, mkAnswer, mkCached,
                   mkCrashCount, mkShown, mkConfirmed, mkServed, mkLoose>>

SetJob(c) ==
    LET old == mkCall[c].old IN
    /\ \/ At(c, "countView") /\ mkJob' = old
       \/ At(c, "setPrice") /\ mkJob' = [old EXCEPT !.priced = TRUE]
       \/ At(c, "del") /\ mkJob' = NoRecord
    /\ Continue(c)
    /\ UNCHANGED <<mkOwner, mkListed, mkBought, mkBoughtBy, mkUsage, mkAnswer, mkCached,
                   mkCrashCount, mkHistory>>

Index(c) ==
    /\ \/ At(c, "unlist") /\ mkListed' = mkListed \ {mkCall[c].old.state}
       \/ At(c, "list") /\ mkListed' = mkListed \cup {mkCall[c].new}
    /\ Continue(c)
    /\ UNCHANGED <<mkJob, mkOwner, mkBought, mkBoughtBy, mkUsage, mkAnswer, mkCached,
                   mkCrashCount, mkHistory>>

(***************************************************************************)
(* The answer of a node, whose own test finds only an empty array empty.   *)
(***************************************************************************)
NodeFindsEmpty(content) == content = "emptyArray"
RouteFindsEmpty(content) == content # "data"

AnswerArrives(c) ==
    /\ mkCall[c] = IdleCall
    /\ mkOwner # Nobody
    /\ \E content \in Contents :
          mkCall' = [mkCall EXCEPT ![c].todo =
                        IF NodeFindsEmpty(content) THEN << To("failed"), <<"emitError">> >>
                        ELSE << To("completed"), <<content>> >>]
    /\ UNCHANGED <<mkRecords, mkAnswer, mkCached, mkCrashCount, mkHistory>>

Waiting == \E c \in MkCalls : At(c, "wait")

\* An event that nobody waits for is lost; a job without a record is an error.
Emits(c) ==
    /\ \/ At(c, "emitError") /\ mkAnswer' = IF Waiting THEN "error" ELSE mkAnswer
       \/ \E content \in Contents :
             /\ At(c, content)
             /\ mkAnswer' = IF ~Waiting THEN mkAnswer
                            ELSE IF mkCall[c].old = NoRecord THEN "error" ELSE content
    /\ Continue(c)
    /\ UNCHANGED <<mkRecords, mkCached, mkCrashCount, mkHistory>>

\* The answer, an error or the timer ends the wait; a full queue refuses it.
Waits(c) ==
    /\ At(c, "wait")
    /\ \/ mkAnswer = "none" /\ EndsWith(c, <<>>)
       \/ mkAnswer \in Contents /\ ~RouteFindsEmpty(mkAnswer) /\ Continue(c)
       \/ mkAnswer \in Contents /\ RouteFindsEmpty(mkAnswer) /\ EndsWith(c, <<To("failed")>>)
       \/ mkAnswer \notin Contents /\ EndsWith(c, <<To("failed")>>)
    /\ mkAnswer' = "none"
    /\ UNCHANGED <<mkRecords, mkCached, mkCrashCount, mkHistory>>

(***************************************************************************)
(* Details and files are served.                                           *)
(***************************************************************************)
GetCachedJobDetails(c) ==
    /\ At(c, "cached")
    /\ IF mkCached THEN mkShown' = TRUE /\ EndsWith(c, <<>>)
       ELSE Continue(c) /\ UNCHANGED mkShown
    /\ UNCHANGED <<mkRecords, mkAnswer, mkCached, mkCrashCount,
                   mkCompleted, mkConfirmed, mkServed, mkLoose>>

\* (Mutant first: in any state.)
Displayable_Always(job) == TRUE
Displayable(job) == job.state = "completed"

\* The view is counted, and the record written back, whatever its state.
SetCachedJobDetails(c) ==
    /\ At(c, "remember")
    /\ IF Displayable(mkCall[c].old) THEN mkCached' = TRUE /\ mkShown' = TRUE
       ELSE UNCHANGED <<mkCached, mkShown>>
    /\ Continue(c)
    /\ UNCHANGED <<mkRecords, mkAnswer, mkCrashCount, mkCompleted, mkConfirmed, mkServed, mkLoose>>

CacheExpires ==
    /\ mkCached
    /\ mkCached' = FALSE
    /\ UNCHANGED <<mkRecords, mkAnswer, mkCall, mkCrashCount, mkHistory>>

Serves(c) ==
    /\ At(c, "serve")
    /\ mkShown' = TRUE
    /\ Continue(c)
    /\ UNCHANGED <<mkRecords, mkAnswer, mkCached, mkCrashCount,
                   mkCompleted, mkConfirmed, mkServed, mkLoose>>

(***************************************************************************)
(* Purchases.                                                              *)
(***************************************************************************)
\* An existing purchase is a success at once.
HasPurchaseAccess(c) ==
    LET u == mkCall[c].user IN
    /\ At(c, "hasPurchase")
    /\ IF u \in mkBought THEN Fails(c) /\ mkConfirmed' = mkConfirmed \cup {u}
       ELSE Continue(c) /\ UNCHANGED mkConfirmed
    /\ UNCHANGED <<mkRecords, mkAnswer, mkCached, mkCrashCount,
                   mkCompleted, mkShown, mkServed, mkLoose>>

StorePurchase(c) ==
    LET u == mkCall[c].user IN
    /\ \/ At(c, "setPurchase") /\ mkBought' = mkBought \cup {u} /\ UNCHANGED mkBoughtBy
       \/ At(c, "addPurchase") /\ mkBoughtBy' = mkBoughtBy \cup {u} /\ UNCHANGED mkBought
    /\ Continue(c)
    /\ UNCHANGED <<mkJob, mkOwner, mkListed, mkUsage, mkAnswer, mkCached, mkCrashCount, mkHistory>>

Confirms(c) ==
    /\ At(c, "confirm")
    /\ mkConfirmed' = mkConfirmed \cup {mkCall[c].user}
    /\ Continue(c)
    /\ UNCHANGED <<mkRecords, mkAnswer, mkCached, mkCrashCount,
                   mkCompleted, mkShown, mkServed, mkLoose>>

(***************************************************************************)
(* The process dies: requests and the cache are gone.                      *)
(***************************************************************************)
MkCrash ==
    /\ mkCrashCount < MkCrashes
    /\ mkCrashCount' = mkCrashCount + 1
    /\ mkCall' = [c \in MkCalls |-> IF Busy(c) THEN Over ELSE mkCall[c]]
    /\ mkAnswer' = "none"
    /\ mkCached' = FALSE
    /\ mkLoose' = mkLoose \cup ({mkCall[c].user : c \in {d \in MkCalls : Busy(d)}} \ {Nobody})
    /\ UNCHANGED <<mkRecords, mkCompleted, mkShown, mkConfirmed, mkServed>>

MkInit ==
    /\ mkJob = NoRecord /\ mkOwner = Nobody /\ mkListed = {}
    /\ mkBought = {} /\ mkBoughtBy = {}
    /\ mkUsage = [u \in MkUsers |-> 0] /\ mkServed = [u \in MkUsers |-> 0]
    /\ mkAnswer = "none" /\ mkCached = FALSE
    /\ mkCall = [c \in MkCalls |-> IdleCall]
    /\ mkCrashCount = 0
    /\ mkCompleted = FALSE /\ mkShown = FALSE /\ mkConfirmed = {} /\ mkLoose = {}

MkStep(c) ==
    \/ MkRequest(c) \/ Authorizes(c) \/ CreateAPIKey(c)
    \/ CheckRateLimit(c) \/ GetUsage(c) \/ IncrementAPIUsage(c)
    \/ Create(c) \/ GetJob(c) \/ Reads(c) \/ SetJob(c) \/ Index(c)
    \/ \E s \in JobStates : SetState(c, s)
    \/ AnswerArrives(c) \/ Emits(c) \/ Waits(c)
    \/ GetCachedJobDetails(c) \/ SetCachedJobDetails(c) \/ Serves(c)
    \/ HasPurchaseAccess(c) \/ StorePurchase(c) \/ Confirms(c)

MkNext == (\E c \in MkCalls : MkStep(c)) \/ CacheExpires \/ MkCrash

MkSpec == MkInit /\ [][MkNext]_mkVars

(***************************************************************************)
(* Properties.                                                             *)
(***************************************************************************)
\* The usage limit of a key bounds the successful requests made with it, as
\* long as its user makes them one at a time: the limit is read before the
\* job is created and the usage counted after it was answered.
LimitRespected ==
    \A u \in MkUsers \ mkLoose : mkServed[u] <= UsageLimit

\* A user who was told that a purchase is stored has access to the job, and
\* finds it among the user's purchases, unless a crash came between the two
\* writes, or the request that makes them is still at the second.
PurchaseIsListed ==
    \A u \in mkConfirmed :
        /\ u \in mkBought
        /\ \/ u \in mkBoughtBy
           \/ mkCrashCount > 0
           \/ \E c \in MkCalls : mkCall[c].user = u /\ At(c, "addPurchase")

\* Whatever stale records are written back, details, files and purchases are
\* only ever of a job that was completed, and a scrape's owner is no exception.
SeenOnlyCompleted ==
    mkShown \/ mkCached \/ mkBought # {} => mkCompleted
=============================================================================
