------------------------------- MODULE Scripts -------------------------------
(***************************************************************************)
(* The maintenance scripts, run by hand beside the server on the same      *)
(* Redis: scripts/migrate_to_multijob.ts ("add", and "clean" with          *)
(* --cleanup), scripts/migrate_referral_codes.ts ("codes") and             *)
(* scripts/fix_race_condition_victims.ts with --apply ("fix").             *)
(*                                                                         *)
(* A script is one asynchronous chain over copies of the client records    *)
(* taken at its start; an action is one Redis command with the code up to  *)
(* the next.  getAllClients is one step: its answers are copies of one     *)
(* moment or a later one.  Scripts run one at a time, and stop by a crash  *)
(* or an error anywhere.  Of the server only the writes that meet them are *)
(* here: JobLifecycle has its own steps.  A reward is one point.           *)
(***************************************************************************)
EXTENDS Naturals, FiniteSets

CONSTANTS ScUsers,   \* principals
          ScJobs,    \* jobs
          ScCodes,   \* referral codes
          ScNone,    \* no principal, no code
          ScPast,    \* bound: rewards stored for a user before
          ScRuns     \* bound: runs of scripts

ASSUME ScriptsAssumption ==
    /\ ScNone \notin ScUsers \cup ScCodes
    /\ {ScPast, ScRuns} \subseteq Nat

VARIABLES
    scClient,    \* user -> its client record
    scLookup,    \* code -> the user it leads to
    scEarned,    \* user -> rewards stored for it
    scLedger,    \* user -> its points on the ledger
    scPaying,    \* user -> completed jobs not yet credited
    scCreating,  \* users created, whose code is not yet indexed
    script,      \* the script at work, or the last one
    scRuns,      \* runs so far
    scWork,      \* user -> jobs it works on                        (history)
    scTaken,     \* jobs anyone ever worked on                      (history)
    scDue,       \* user -> the most it can be owed                 (history)
    scOverwrote, \* users whose record was replaced by an old copy, or that
                 \* took a job before their record was migrated     (history)
    scRaced,     \* users paid, or passed over, while checked       (history)
    scBroken     \* codes whose replacement or indexing failed      (history)

serverVars == <<scEarned, scLedger, scPaying, scCreating, scWork, scTaken, scDue>>
scHistories == <<scOverwrote, scRaced, scBroken>>
scVars == <<scClient, scLookup, serverVars, script, scRuns, scHistories>>

\* multi: there is an activeJobs array; old: there are jobID and jobStatus;
\* legacy: jobID, when jobStatus is WORKING.
NoClient == [code |-> ScNone, multi |-> FALSE, active |-> {}, old |-> FALSE, legacy |-> {},
             balance |-> 0]
NewClient(code) == [NoClient EXCEPT !.code = code, !.multi = TRUE]
Known == {u \in ScUsers : scClient[u] # NoClient}

ScriptIdle == [op |-> "none", pc |-> "idle", stage |-> "initial", todo |-> {},
               seen |-> [u \in ScUsers |-> NoClient], missing |-> {}, dups |-> {},
               user |-> ScNone, code |-> ScNone, new |-> ScNone, read |-> 0, owed |-> 0,
               report |-> "none"]

\* Records of before the change, some of which lost points; a code, perhaps one
\* that others have too, leads to one of them if it leads anywhere.
OldClients ==
    [code : ScCodes, multi : {FALSE}, active : {{}}, old : {TRUE},
     legacy : {{}} \cup {{j} : j \in ScJobs}, balance : 0 .. ScPast]

ScInit ==
    /\ scClient \in [ScUsers -> OldClients \cup {NoClient}]
    /\ \A u, v \in ScUsers : u # v => scClient[u].legacy \cap scClient[v].legacy = {}
    /\ scLookup \in [ScCodes -> ScUsers \cup {ScNone}]
    /\ \A c \in ScCodes : scLookup[c] # ScNone => scClient[scLookup[c]].code = c
    /\ scEarned \in [ScUsers -> 0 .. ScPast]
    /\ scLedger \in [ScUsers -> 0 .. ScPast]
    /\ \A u \in ScUsers : scClient[u].balance <= scEarned[u]
    /\ scPaying = [u \in ScUsers |-> {}]
    /\ scCreating = {}
    /\ script = ScriptIdle
    /\ scRuns = 0
    /\ scWork = [u \in ScUsers |-> scClient[u].legacy]
    /\ scTaken = UNION {scClient[u].legacy : u \in ScUsers}
    /\ scDue = [u \in ScUsers |-> IF scEarned[u] < scLedger[u] THEN scLedger[u] ELSE scEarned[u]]
    /\ scOverwrote = {} /\ scRaced = {} /\ scBroken = {}
-----------------------------------------------------------------------------
(* The server.                                                             *)

Checked(u) == script.op = "fix" /\ script.user = u

\* The record with a job assigned to it.
Given(client, j) == [client EXCEPT !.multi = TRUE, !.active = @ \cup {j}]

\* assignJobToClient takes a record without activeJobs for one without jobs.
ScAssigns(u, j) ==
    /\ u \in Known /\ j \notin scTaken
    /\ scTaken' = scTaken \cup {j}
    /\ scWork' = [scWork EXCEPT ![u] = @ \cup {j}]
    /\ scClient' = [scClient EXCEPT ![u] = Given(@, j)]
    /\ scOverwrote' = IF scClient[u].multi THEN scOverwrote ELSE scOverwrote \cup {u}
    /\ UNCHANGED <<scLookup, scEarned, scLedger, scPaying, scCreating, scDue, script, scRuns,
                   scRaced, scBroken>>

\* updateJobCompleted: the reward is stored with the job, then credited.
ScCompletes(u, j) ==
    /\ j \in scWork[u] \ scPaying[u]
    /\ scEarned' = [scEarned EXCEPT ![u] = @ + 1]
    /\ scDue' = [scDue EXCEPT ![u] = @ + 1]
    /\ scPaying' = [scPaying EXCEPT ![u] = @ \cup {j}]
    /\ scRaced' = IF Checked(u) THEN scRaced \cup {u} ELSE scRaced
    /\ UNCHANGED <<scClient, scLookup, scLedger, scCreating, script, scRuns, scWork, scTaken,
                   scOverwrote, scBroken>>

\* The record the credit of a job is written in.
Rewarded(client, j) == [client EXCEPT !.multi = TRUE, !.active = @ \ {j}, !.balance = @ + 1]

ScCredits(u, j) ==
    /\ j \in scPaying[u]
    /\ scPaying' = [scPaying EXCEPT ![u] = @ \ {j}]
    /\ scWork' = [scWork EXCEPT ![u] = @ \ {j}]
    /\ scClient' = [scClient EXCEPT ![u] = Rewarded(@, j)]
    /\ scRaced' = IF Checked(u) THEN scRaced \cup {u} ELSE scRaced
    /\ UNCHANGED <<scLookup, scEarned, scLedger, scCreating, scTaken, scDue, script, scRuns,
                   scOverwrote, scBroken>>

\* login of a new principal: a code drawn at random, that nobody drew before.
Drawn == {scClient[u].code : u \in ScUsers} \cup {script.new}

ScCreates(u, c) ==
    /\ u \notin Known /\ c \notin Drawn /\ scLookup[c] = ScNone
    /\ scClient' = [scClient EXCEPT ![u] = NewClient(c)]
    /\ scCreating' = scCreating \cup {u}
    /\ UNCHANGED <<scLookup, scEarned, scLedger, scPaying, scWork, scTaken, scDue, script,
                   scRuns, scHistories>>

ScIndexes(u) ==
    /\ u \in scCreating
    /\ scLookup' = [scLookup EXCEPT ![scClient[u].code] = u]
    /\ scCreating' = scCreating \ {u}
    /\ UNCHANGED <<scClient, scEarned, scLedger, scPaying, scWork, scTaken, scDue, script,
                   scRuns, scHistories>>
-----------------------------------------------------------------------------
(* Any script.                                                             *)

ScStarts(op) ==
    /\ script.pc \in {"idle", "done"} /\ scRuns < ScRuns
    /\ Known # {}
    /\ script' = [ScriptIdle EXCEPT !.op = op, !.pc = IF op = "codes" THEN "audit" ELSE "each",
                     !.todo = Known, !.seen = scClient]
    /\ scRuns' = scRuns + 1
    /\ UNCHANGED <<scClient, scLookup, serverVars, scHistories>>

\* On to the next client of the loop, or to the end of it.
After(u) == [script EXCEPT !.todo = @ \ {u}, !.pc = IF script.todo = {u} THEN "done" ELSE "each",
                           !.user = ScNone, !.read = 0, !.owed = 0]

Each(op, u) == script.op = op /\ script.pc = "each" /\ u \in script.todo
-----------------------------------------------------------------------------
(* migrate_to_multijob.ts.                                                 *)

\* The whole copy goes back, with the fields of this script.
Replaces(u, client) ==
    /\ scClient' = [scClient EXCEPT ![u] = client]
    /\ scOverwrote' = IF scClient[u] # script.seen[u] THEN scOverwrote \cup {u} ELSE scOverwrote

AddMultiJobToClient(u) ==
    /\ Each("add", u)
    /\ IF script.seen[u].multi THEN UNCHANGED <<scClient, scOverwrote>>
       ELSE Replaces(u, [script.seen[u] EXCEPT !.multi = TRUE, !.active = script.seen[u].legacy])
    /\ script' = After(u)
    /\ UNCHANGED <<scLookup, serverVars, scRuns, scRaced, scBroken>>

\* "Ensure client has required multi-job fields before cleanup".  (Mutant first:
\* not ensured.)
Cleanable_Any(client) == client.old
Cleanable(client) == client.old /\ client.multi

CleanupClient(u) ==
    /\ Each("clean", u)
    /\ IF ~ Cleanable(script.seen[u]) THEN UNCHANGED <<scClient, scOverwrote>>
       ELSE Replaces(u, [script.seen[u] EXCEPT !.old = FALSE, !.legacy = {}])
    /\ script' = After(u)
    /\ UNCHANGED <<scLookup, serverVars, scRuns, scRaced, scBroken>>
-----------------------------------------------------------------------------
(* fix_race_condition_victims.ts --apply.                                  *)

CheckUserDiscrepancy(u) ==
    /\ Each("fix", u)
    /\ script' = [script EXCEPT !.pc = "sum", !.user = u, !.read = scClient[u].balance]
    /\ scRaced' = IF scPaying[u] # {} THEN scRaced \cup {u} ELSE scRaced
    /\ UNCHANGED <<scClient, scLookup, serverVars, scRuns, scOverwrote, scBroken>>

\* The ledger's balance, or the sum of the rewards when it does not answer.
CalculateExpectedBalance ==
    /\ script.pc = "sum"
    /\ \E expected \in {scEarned[script.user], scLedger[script.user]} :
          script' = IF expected > script.read
                    THEN [script EXCEPT !.pc = "fetch", !.owed = expected - script.read]
                    ELSE After(script.user)
    /\ UNCHANGED <<scClient, scLookup, serverVars, scRuns, scHistories>>

CompensateUser ==
    /\ script.pc = "fetch"
    /\ script' = [script EXCEPT !.pc = "pay", !.read = scClient[script.user].balance]
    /\ UNCHANGED <<scClient, scLookup, serverVars, scRuns, scHistories>>

\* (Mutant first: what is missing and all that was missing before.)
Compensated_Twice(balance, owed) == balance + owed + owed
Compensated(balance, owed) == balance + owed

Compensates ==
    /\ script.pc = "pay"
    /\ scClient' = [scClient EXCEPT ![script.user].balance = Compensated(script.read, script.owed)]
    /\ script' = After(script.user)
    /\ UNCHANGED <<scLookup, serverVars, scRuns, scHistories>>
-----------------------------------------------------------------------------
(* migrate_referral_codes.ts.                                              *)

Audits(stage) == [script EXCEPT !.pc = "audit", !.stage = stage, !.todo = Known,
                                !.seen = scClient, !.missing = {}, !.dups = {}]

AuditReferralCodeIndex(u) ==
    /\ script.pc = "audit" /\ u \in script.todo
    /\ LET c == script.seen[u].code
       IN  script' = [script EXCEPT
             !.todo = @ \ {u},
             !.missing = IF scLookup[c] = ScNone THEN @ \cup {<<u, c>>} ELSE @,
             !.dups = IF scLookup[c] \in {ScNone, u} THEN @ ELSE @ \cup {c}]
    /\ UNCHANGED <<scClient, scLookup, serverVars, scRuns, scHistories>>

\* "All referral codes are already indexed", when none is missing; or duplicates
\* first, then missing ones, then the verification.
RunReferralCodeMigration ==
    /\ script.pc = "audit" /\ script.todo = {}
    /\ script' =
          CASE script.stage = "initial" ->
                 IF script.missing = {} THEN [script EXCEPT !.pc = "done", !.report = "nothing"]
                 ELSE Audits(IF script.dups = {} THEN "index" ELSE "fix")
            [] script.stage = "fix" -> [script EXCEPT !.pc = "fixing"]
            [] script.stage = "index" -> [script EXCEPT !.pc = "indexing"]
            [] script.stage = "verify" -> [script EXCEPT !.pc = "done",
                 !.report = IF script.missing = {} /\ script.dups = {} THEN "success" ELSE "issues"]
    /\ UNCHANGED <<scClient, scLookup, serverVars, scRuns, scHistories>>

\* "Keep the first client with the original code", whichever that is.
FixDuplicateReferralCodes ==
    /\ script.pc = "fixing"
    /\ \/ /\ script.dups = {}
          /\ script' = Audits("index")
       \/ \E c \in script.dups :
             LET holders == {u \in Known : scClient[u].code = c}
             IN  \E first \in IF holders = {} THEN {ScNone} ELSE holders :
                    script' = [script EXCEPT !.pc = "others", !.dups = @ \ {c}, !.code = c,
                                             !.todo = holders \ {first}]
    /\ UNCHANGED <<scClient, scLookup, serverVars, scRuns, scHistories>>

\* A code that leads nowhere, which an unindexed client may hold all the same;
\* not one that the server draws at this moment.
GenerateUniqueReferralCode ==
    /\ script.pc = "others"
    /\ \/ /\ script.todo = {}
          /\ script' = [script EXCEPT !.pc = "fixing", !.code = ScNone]
       \/ \E u \in script.todo, c \in ScCodes :
             /\ scLookup[c] = ScNone /\ c \notin {scClient[v].code : v \in scCreating}
             /\ script' = [script EXCEPT !.pc = "update", !.user = u, !.new = c]
    /\ UNCHANGED <<scClient, scLookup, serverVars, scRuns, scHistories>>

\* The result of updateClient is not looked at: it may have given up.
GivesNewCode ==
    /\ script.pc = "update"
    /\ script' = [script EXCEPT !.pc = "set"]
    /\ \/ /\ scClient' = [scClient EXCEPT ![script.user].code = script.new]
          /\ UNCHANGED scBroken
       \/ /\ scBroken' = scBroken \cup {script.code, script.new}
          /\ UNCHANGED scClient
    /\ UNCHANGED <<scLookup, serverVars, scRuns, scOverwrote, scRaced>>

IndexesNewCode ==
    /\ script.pc = "set"
    /\ scLookup' = [scLookup EXCEPT ![script.new] = script.user]
    /\ script' = [script EXCEPT !.pc = "old"]
    /\ UNCHANGED <<scClient, serverVars, scRuns, scHistories>>

NextOther == [script EXCEPT !.pc = "others", !.todo = @ \ {script.user}, !.user = ScNone,
                            !.new = ScNone]

\* (Mutant first: the old entry is left alone.)
MustDrop_Never(u, c) == FALSE
MustDrop(u, c) == scLookup[c] = u

ReadsOldCode ==
    /\ script.pc = "old"
    /\ script' = IF MustDrop(script.user, script.code) THEN [script EXCEPT !.pc = "drop"]
                 ELSE NextOther
    /\ UNCHANGED <<scClient, scLookup, serverVars, scRuns, scHistories>>

DropsOldCode ==
    /\ script.pc = "drop"
    /\ scLookup' = [scLookup EXCEPT ![script.code] = ScNone]
    /\ script' = NextOther
    /\ UNCHANGED <<scClient, serverVars, scRuns, scHistories>>

\* "Double-check that it's still missing".
IndexMissingReferralCodes ==
    /\ script.pc = "indexing"
    /\ \/ /\ script.missing = {}
          /\ script' = Audits("verify")
       \/ \E entry \in script.missing :
             script' =
                IF entry[2] \in script.dups \/ scLookup[entry[2]] # ScNone
                THEN [script EXCEPT !.missing = @ \ {entry}]
                ELSE [script EXCEPT !.missing = @ \ {entry}, !.pc = "write",
                                    !.user = entry[1], !.code = entry[2]]
    /\ UNCHANGED <<scClient, scLookup, serverVars, scRuns, scHistories>>

IndexesCode ==
    /\ script.pc = "write"
    /\ scLookup' = [scLookup EXCEPT ![script.code] = script.user]
    /\ script' = [script EXCEPT !.pc = "indexing", !.user = ScNone, !.code = ScNone]
    /\ UNCHANGED <<scClient, serverVars, scRuns, scHistories>>
-----------------------------------------------------------------------------
(* Errors and crashes.                                                     *)

Torn == IF script.pc \in {"set", "old", "drop"} THEN {script.code}
        ELSE IF script.pc = "write" THEN {script.code} ELSE {}

\* An error is caught once per client, per duplicate, or per missing code.
ScFails ==
    /\ \/ /\ script.pc = "each"
          /\ \E u \in script.todo :
                /\ script' = After(u)
                /\ scRaced' = scRaced \cup {u}
       \/ /\ script.pc \in {"sum", "fetch", "pay"}
          /\ script' = After(script.user)
          /\ scRaced' = scRaced \cup {script.user}
       \/ /\ script.pc \in {"others", "update", "set", "old", "drop"}
          /\ script' = [script EXCEPT !.pc = "fixing", !.todo = {}, !.user = ScNone,
                                      !.code = ScNone, !.new = ScNone]
          /\ UNCHANGED scRaced
       \/ /\ script.pc = "write"
          /\ script' = [script EXCEPT !.pc = "indexing", !.user = ScNone, !.code = ScNone]
          /\ UNCHANGED scRaced
    /\ scBroken' = scBroken \cup Torn
    /\ UNCHANGED <<scClient, scLookup, serverVars, scRuns, scOverwrote>>

ScCrash ==
    /\ script.pc \notin {"idle", "done"}
    /\ script' = ScriptIdle
    /\ scBroken' = scBroken \cup Torn
    /\ UNCHANGED <<scClient, scLookup, serverVars, scRuns, scOverwrote, scRaced>>

ServerStep ==
    \E u \in ScUsers :
       \/ \E j \in ScJobs : ScAssigns(u, j) \/ ScCompletes(u, j) \/ ScCredits(u, j)
       \/ \E c \in ScCodes : ScCreates(u, c)
       \/ ScIndexes(u)

ClientStep ==
    \/ \E u \in ScUsers : AddMultiJobToClient(u) \/ CleanupClient(u) \/ CheckUserDiscrepancy(u)
    \/ CalculateExpectedBalance \/ CompensateUser \/ Compensates

CodeStep ==
    \/ \E u \in ScUsers : AuditReferralCodeIndex(u)
    \/ RunReferralCodeMigration \/ FixDuplicateReferralCodes \/ GenerateUniqueReferralCode
    \/ GivesNewCode \/ IndexesNewCode \/ ReadsOldCode \/ DropsOldCode
    \/ IndexMissingReferralCodes \/ IndexesCode

ScNext ==
    \/ \E op \in {"add", "clean", "fix", "codes"} : ScStarts(op)
    \/ ServerStep \/ ClientStep \/ CodeStep \/ ScFails \/ ScCrash

ScSpec == ScInit /\ [][ScNext]_scVars
-----------------------------------------------------------------------------
ClientRecords ==
    [code : ScCodes \cup {ScNone}, multi : BOOLEAN, active : SUBSET ScJobs, old : BOOLEAN,
     legacy : SUBSET ScJobs, balance : Nat]
ScriptRecords ==
    [op : {"none", "add", "clean", "fix", "codes"},
     pc : {"idle", "each", "sum", "fetch", "pay", "audit", "fixing", "others", "update", "set",
           "old", "drop", "indexing", "write", "done"},
     stage : {"initial", "fix", "index", "verify"}, todo : SUBSET ScUsers,
     seen : [ScUsers -> ClientRecords], missing : SUBSET (ScUsers \X ScCodes),
     dups : SUBSET ScCodes, user : ScUsers \cup {ScNone}, code : ScCodes \cup {ScNone},
     new : ScCodes \cup {ScNone}, read : Nat, owed : Nat,
     report : {"none", "nothing", "success", "issues"}]

\* Records, entries and the script are well formed.
ScTypeOK ==
    /\ scClient \in [ScUsers -> ClientRecords]
    /\ scLookup \in [ScCodes -> ScUsers \cup {ScNone}]
    /\ scEarned \in [ScUsers -> Nat] /\ scLedger \in [ScUsers -> Nat]
    /\ scDue \in [ScUsers -> Nat]
    /\ scPaying \in [ScUsers -> SUBSET ScJobs] /\ scWork \in [ScUsers -> SUBSET ScJobs]
    /\ scCreating \in SUBSET ScUsers /\ scTaken \in SUBSET ScJobs
    /\ script \in ScriptRecords /\ scRuns \in 0 .. ScRuns
    /\ scOverwrote \in SUBSET ScUsers /\ scRaced \in SUBSET ScUsers /\ scBroken \in SUBSET ScCodes

\* Through both migrations, in any order, cut short and run again, a client's
\* record names the jobs it works on, in jobID or in activeJobs.  Left out are
\* clients the server writes to between the copy and its return, and clients
\* given a job before they are migrated: both do lose jobs.
JobsSurvive ==
    \A u \in ScUsers \ scOverwrote : scWork[u] \subseteq scClient[u].active \cup scClient[u].legacy

\* However often it is run, and wherever it stops, the compensation leaves nobody
\* with more than the rewards or the ledger say it is owed; when it ends, nobody it went
\* through with less than both say.  Left out are clients paid while checked.
CompensatedExactly ==
    \A u \in ScUsers \ scRaced :
       /\ scClient[u].balance <= scDue[u]
       /\ script.op = "fix" /\ script.pc = "done" /\ script.seen[u] # NoClient =>
             LET due == scClient[u].balance + Cardinality(scPaying[u])
             IN  due >= scEarned[u] \/ due >= scLedger[u]

\* A code leads to a client that holds it, or whose code is being replaced; when
\* the migration ends, each code that it saw leads somewhere; and when it says
\* "All referral codes are now indexed" each leads to its holder.  Left out are
\* codes whose replacement or indexing failed half way, which no later run mends.
CodesLead ==
    /\ \A c \in ScCodes \ scBroken :
          scLookup[c] # ScNone /\ scClient[scLookup[c]].code # c =>
             script.pc \in {"set", "old", "drop"} /\ script.user = scLookup[c] /\ script.code = c
    /\ script.op = "codes" /\ script.pc = "done" =>
          \A u \in ScUsers \ scCreating :
             LET c == script.seen[u].code
             IN  /\ c \notin scBroken \cup {ScNone} => scLookup[c] # ScNone
                 /\ c # ScNone /\ script.report = "success" => scLookup[c] = u
=============================================================================
