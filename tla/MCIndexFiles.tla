---------------------------- MODULE MCIndexFiles ----------------------------
(***************************************************************************)
(* One run for small instances of two components: the calls on a job       *)
(* record, or the calls on stored files.  The files come in two scenarios: *)
(* one identifier and one name (the other identifier was lost in a crash)  *)
(* under two calls, of which one stores, two sweeps and a crash; or two    *)
(* identifiers and two names under one call at a time, one use, one sweep. *)
(***************************************************************************)
EXTENDS MCJobIndex, Files

CONSTANTS d2, f2, n2, s2

VARIABLE part

OneFile ==
    /\ \A p \in Chains : chain[p].name # n2
    /\ chain[d2].plan = "none"

TwoFiles ==
    /\ chain[d2] = AtRest /\ chain[s2] = AtRest
    /\ fileUses < FileUses /\ fileCrashes = 0

BothInit ==
    /\ Init
    /\ \/ part \in {"job", "two files"} /\ FileInit
       \/ part = "one file" /\ FileInitWith({f2})

BothNext ==
    /\ \/ part = "job" /\ Next /\ UNCHANGED fileVars
       \/ part = "one file" /\ FileNext /\ OneFile' /\ UNCHANGED vars
       \/ part = "two files" /\ FileNext /\ TwoFiles' /\ UNCHANGED vars
    /\ UNCHANGED part

BothSpec == BothInit /\ [][BothNext]_<<vars, fileVars, part>>
=============================================================================
