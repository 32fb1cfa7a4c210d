----------------------------- MODULE MCRecords ------------------------------
(***************************************************************************)
(* One run for small instances of four components that keep records in     *)
(* Redis: calls of updateClient, calls of the referral service, the        *)
(* requests about one sold job, and the maintenance scripts, with the      *)
(* records of one user of before (jobs and points) or with the codes of    *)
(* all.  Where one part is at work the others rest.                        *)
(***************************************************************************)
EXTENDS MCClientUpdates, Referrals, Marketplace, Scripts, TLC

CONSTANT Active

VARIABLE part

TaskShare == [t \in RefTiers |-> 3 - t]
WeekShare == [t \in RefTiers |-> 3 - t]

\* ScCodes are the values of RefCalls.
Symmetry == Permutations(RefUsers) \cup Permutations(RefCalls)

\* One user of before, whose code is indexed: its jobs and points are open.
OneUser ==
    \E u \in ScUsers, client \in OldClients, earned \in 0 .. ScPast, ledger \in 0 .. ScPast :
       /\ scClient = [v \in ScUsers |-> IF v = u THEN client ELSE NoClient]
       /\ scLookup = [c \in ScCodes |-> IF c = client.code THEN u ELSE ScNone]
       /\ scEarned = [v \in ScUsers |-> IF v = u THEN earned ELSE 0]
       /\ scLedger = [v \in ScUsers |-> IF v = u THEN ledger ELSE 0]

\* Users without jobs and points: their codes are open.
OnlyCodes ==
    /\ scClient \in [ScUsers -> {k \in OldClients \cup {NoClient} :
                                    k.legacy = {} /\ k.balance = 0}]
    /\ scEarned = [u \in ScUsers |-> 0] /\ scLedger = [u \in ScUsers |-> 0]

NoScripts ==
    /\ scClient = [u \in ScUsers |-> NoClient] /\ scLookup = [c \in ScCodes |-> ScNone]
    /\ scEarned = [u \in ScUsers |-> 0] /\ scLedger = [u \in ScUsers |-> 0]

RecordsInit ==
    /\ part \in {"clients", "referrals", "market", "jobs", "codes"}
    /\ Init
    /\ part # "clients" => record.status = Active /\ \A c \in Callers : status[c] = None
    /\ CASE part = "jobs" -> OneUser
         [] part = "codes" -> OnlyCodes
         [] OTHER -> NoScripts
    /\ RefInit /\ MkInit /\ ScInit

RecordsNext ==
    /\ \/ part = "clients" /\ Next /\ UNCHANGED <<refVars, mkVars, scVars>>
       \/ part = "referrals" /\ RefNext /\ UNCHANGED <<vars, mkVars, scVars>>
       \/ part = "market" /\ MkNext /\ UNCHANGED <<vars, refVars, scVars>>
       \/ part \in {"jobs", "codes"} /\ ScNext /\ UNCHANGED <<vars, refVars, mkVars>>
    /\ part = "jobs" => script'.op # "codes" /\ scCreating' = {}
    /\ part = "codes" => script'.op \in {"none", "codes"} /\ scTaken' = {}
    /\ UNCHANGED part

RecordsSpec == RecordsInit /\ [][RecordsNext]_<<vars, refVars, mkVars, scVars, part>>
=============================================================================
