------------------------- MODULE UptimeRewards_proofs -------------------------
(***************************************************************************)
(* Proofs about UptimeRewards, for any number of sockets and of            *)
(* distribution runs: first what holds whatever overlaps or fails, then    *)
(* what holds as long as nothing does.                                     *)
(***************************************************************************)
EXTENDS UptimeRewards, SumLemmas, TLAPS

\* What a record must satisfy, wherever a copy of it is held.
Consistent(rec) ==
    /\ rec.processed <= rec.total
    /\ rec.isProcessed => rec.processed = rec.total

\* Every copy a chain or a run will write back is consistent, and every session
\* in Redis or in a chain's hands was begun.
CopiesConsistent ==
    /\ \A c \in Chains : Consistent(chain[c].record)
    /\ \A r \in Runs : Consistent(run[r].record)
SessionsBegun ==
    /\ active \in begun \cup {None}
    /\ \A c \in Chains :
        /\ chain[c].session \in begun \cup {None}
        /\ chain[c].pc \in {"extend", "complete"} => chain[c].session # None

IInv == TypeOK /\ SessionsBegun /\ CopiesConsistent /\ RecordConsistent

ChainPcs == {"idle", "readActive", "extend", "complete", "readDaily", "storeDaily", "done"}
ChainStates == [pc : ChainPcs, session : Sockets \cup {None}, record : Records]
RunStates == [pc : {"idle", "send", "confirm", "credit", "storeDaily"},
              record : Records, reward : Nat]

\* The constants of the module are well formed.
LEMMA Constants ==
    /\ NoMinutes \in Records /\ Consistent(NoMinutes)
    /\ Idle \in ChainStates /\ Idle.pc = "idle" /\ Idle.session = None /\ Idle.record = NoMinutes
    /\ NoRun \in RunStates /\ NoRun.record = NoMinutes
    /\ \A s \in Sockets : {Register(s), Message(s), Error(s), Close(s)} \subseteq Chains
BY DEF NoMinutes, Records, Consistent, Idle, ChainStates, ChainPcs, NoRun, RunStates,
       Register, Message, Error, Close, Chains

\* Both writers of the daily record keep it consistent, whatever it was.
LEMMA RecordsWritten ==
    ASSUME NEW rec \in Records, Consistent(rec)
    PROVE  /\ WithSession(rec) \in Records /\ Consistent(WithSession(rec))
           /\ Processed(rec) \in Records /\ Consistent(Processed(rec))
           /\ Unprocessed(rec) \in Nat
<1>1. /\ WithSession(rec).total = rec.total + 1 /\ WithSession(rec).processed = rec.processed
      /\ WithSession(rec).isProcessed = FALSE
      /\ Processed(rec).total = rec.total /\ Processed(rec).processed = rec.total
  BY DEF WithSession, Processed, Records
<1>2. rec.total \in Nat /\ rec.processed \in Nat /\ rec.processed <= rec.total
  BY DEF Records, Consistent
<1>3. WithSession(rec) \in Records /\ Processed(rec) \in Records
  <2>1. [rec EXCEPT !.total = rec.total + 1] \in Records
    BY <1>2 DEF Records
  <2>2. [rec EXCEPT !.processed = rec.total] \in Records
    BY <1>2 DEF Records
  <2>3. \A q \in Records, b \in BOOLEAN : [q EXCEPT !.isProcessed = b] \in Records
    BY Zenon DEF Records
  <2>4. /\ WithSession(rec) = [[rec EXCEPT !.total = rec.total + 1] EXCEPT !.isProcessed = FALSE]
        /\ Processed(rec) = [[rec EXCEPT !.processed = rec.total] EXCEPT !.isProcessed = TRUE]
    BY DEF WithSession, Processed, Records
  <2> QED
    BY <2>1, <2>2, <2>3, <2>4
<1>4. Consistent(WithSession(rec))
  <2>1. WithSession(rec).processed <= WithSession(rec).total
    BY <1>1, <1>2
  <2>2. ~ WithSession(rec).isProcessed
    BY <1>1
  <2> QED
    BY <2>1, <2>2 DEF Consistent
<1>5. Consistent(Processed(rec))
  BY <1>1, <1>2 DEF Consistent
<1>6. Unprocessed(rec) \in Nat
  BY <1>2 DEF Unprocessed
<1> QED
  BY <1>3, <1>4, <1>5, <1>6

\* The type invariant, with its sets named.
LEMMA TypeNamed ==
    TypeOK <=>
        /\ active \in Sockets \cup {None} /\ completed \in SUBSET begun /\ daily \in Records
        /\ uptimeReward \in Nat /\ confirmed \in Nat /\ minted \in Nat
        /\ socket \in [Sockets -> {"absent", "connected", "gone"}]
        /\ begun \in SUBSET Sockets
        /\ chain \in [Chains -> ChainStates] /\ run \in [Runs -> RunStates]
        /\ disturbed \in BOOLEAN
        /\ messages \in 0 .. MaxMessages /\ lostReplies \in 0 .. MaxLostReplies
        /\ restarts \in 0 .. MaxRestarts
BY DEF TypeOK, ChainStates, ChainPcs, RunStates

\* The invariant holds initially.
LEMMA InitIInv == Init => IInv
<1> SUFFICES ASSUME Init PROVE IInv
  OBVIOUS
<1> USE DEF Init
<1>1. TypeOK
  <2>1. /\ chain \in [Chains -> ChainStates] /\ run \in [Runs -> RunStates]
        /\ daily \in Records
    BY Constants
  <2>2. 0 \in 0 .. MaxMessages /\ 0 \in 0 .. MaxLostReplies /\ 0 \in 0 .. MaxRestarts
    BY RewardsAssumption
  <2> QED
    BY <2>1, <2>2, TypeNamed
<1>2. SessionsBegun
  BY Constants DEF Init, SessionsBegun
<1>3. CopiesConsistent /\ RecordConsistent
  BY Constants DEF Init, CopiesConsistent, RecordConsistent, Consistent, NoMinutes
<1> QED
  BY <1>1, <1>2, <1>3 DEF IInv

\* A chain that takes a step to a good state, while the runs, the record and the
\* sessions stay, keeps the parts of the invariant about chains.
LEMMA ChainMoves ==
    ASSUME IInv, NEW c \in Chains, NEW new \in ChainStates,
           chain' = [chain EXCEPT ![c] = new],
           Consistent(new.record), new.session \in begun \cup {None},
           new.pc \in {"extend", "complete"} => new.session # None,
           begun \subseteq begun', active' \in begun' \cup {None},
           UNCHANGED run
    PROVE  /\ chain' \in [Chains -> ChainStates]
           /\ SessionsBegun' /\ CopiesConsistent'
<1>1. chain \in [Chains -> ChainStates]
  BY TypeNamed DEF IInv
<1>2. \A d \in Chains : chain'[d] = IF d = c THEN new ELSE chain[d]
  BY <1>1
<1>3. chain' \in [Chains -> ChainStates]
  BY <1>1
<1>4. SessionsBegun'
  BY <1>2 DEF IInv, SessionsBegun
<1>5. CopiesConsistent'
  BY <1>2 DEF IInv, CopiesConsistent
<1> QED
  BY <1>3, <1>4, <1>5

\* The same for a run that takes a step to a good state.
LEMMA RunMoves ==
    ASSUME IInv, NEW r \in Runs, NEW new \in RunStates,
           run' = [run EXCEPT ![r] = new], Consistent(new.record),
           UNCHANGED <<active, begun, chain>>
    PROVE  /\ run' \in [Runs -> RunStates]
           /\ SessionsBegun' /\ CopiesConsistent'
<1>1. run \in [Runs -> RunStates]
  BY TypeNamed DEF IInv
<1>2. \A q \in Runs : run'[q] = IF q = r THEN new ELSE run[q]
  BY <1>1
<1>3. run' \in [Runs -> RunStates]
  BY <1>1
<1>4. SessionsBegun'
  BY DEF IInv, SessionsBegun
<1>5. CopiesConsistent'
  BY <1>2 DEF IInv, CopiesConsistent
<1> QED
  BY <1>3, <1>4, <1>5

\* A chain that begins takes such a step.
LEMMA ChainBegins ==
    ASSUME IInv, NEW c \in Chains, NEW pc \in {"done", "readActive"}, Begin(c, pc),
           begun \subseteq begun', active' \in begun' \cup {None}, UNCHANGED run
    PROVE  /\ chain' \in [Chains -> ChainStates] /\ disturbed' \in BOOLEAN
           /\ SessionsBegun' /\ CopiesConsistent'
<1> DEFINE new == [chain[c] EXCEPT !.pc = pc]
<1>1. /\ new \in ChainStates /\ new.pc = pc
      /\ new.session = chain[c].session /\ new.record = chain[c].record
  BY TypeNamed DEF IInv, ChainStates, ChainPcs
<1>2. chain' = [chain EXCEPT ![c] = new] /\ disturbed' \in BOOLEAN
  BY TypeNamed DEF IInv, Begin
<1>3. /\ Consistent(new.record) /\ new.session \in begun \cup {None}
      /\ ~ new.pc \in {"extend", "complete"}
  BY <1>1 DEF IInv, CopiesConsistent, SessionsBegun
<1> HIDE DEF new
<1> QED
  BY <1>1, <1>2, <1>3, ChainMoves
-----------------------------------------------------------------------------
\* Each action of sockets preserves the invariant ...
LEMMA ConnectPreserves == ASSUME IInv, NEW s \in Sockets, Connects(s) PROVE IInv'
<1> USE DEF IInv, Connects, redisVars, bounds
<1>1. socket' \in [Sockets -> {"absent", "connected", "gone"}]
  BY DEF TypeOK
<1>2. TypeOK'
  BY <1>1 DEF TypeOK
<1>3. SessionsBegun' /\ CopiesConsistent' /\ RecordConsistent'
  BY DEF SessionsBegun, CopiesConsistent, RecordConsistent
<1> QED
  BY <1>2, <1>3

LEMMA RegisterPreserves == ASSUME IInv, NEW s \in Sockets, Registers(s) PROVE IInv'
<1> USE DEF IInv, Registers
<1>1. Register(s) \in Chains
  BY Constants
<1>2. /\ chain' \in [Chains -> ChainStates] /\ disturbed' \in BOOLEAN
      /\ SessionsBegun' /\ CopiesConsistent'
  BY <1>1, ChainBegins
<1>3. TypeOK'
  BY <1>2 DEF TypeOK, bounds, ChainStates, ChainPcs
<1> QED
  BY <1>2, <1>3 DEF RecordConsistent

LEMMA MessagePreserves == ASSUME IInv, NEW s \in Sockets, MessageArrives(s) PROVE IInv'
<1> USE DEF IInv, MessageArrives, redisVars
<1>1. Message(s) \in Chains
  BY Constants
<1>2. /\ chain' \in [Chains -> ChainStates] /\ disturbed' \in BOOLEAN
      /\ SessionsBegun' /\ CopiesConsistent'
  BY <1>1, ChainBegins DEF SessionsBegun
<1>3. messages' \in 0 .. MaxMessages
  BY RewardsAssumption DEF TypeOK
<1>4. TypeOK'
  BY <1>2, <1>3 DEF TypeOK, ChainStates, ChainPcs
<1> QED
  BY <1>2, <1>4 DEF RecordConsistent

LEMMA DisconnectPreserves ==
    ASSUME IInv, NEW s \in Sockets, NEW c \in {Error(s), Close(s)}, Disconnects(c)
    PROVE  IInv'
<1> USE DEF IInv, Disconnects, redisVars
<1>1. c \in Chains
  BY Constants
<1>2. /\ chain' \in [Chains -> ChainStates] /\ disturbed' \in BOOLEAN
      /\ SessionsBegun' /\ CopiesConsistent'
  BY <1>1, ChainBegins DEF SessionsBegun
<1>3. TypeOK'
  BY <1>2 DEF TypeOK, bounds, ChainStates, ChainPcs
<1> QED
  BY <1>2, <1>3 DEF RecordConsistent
-----------------------------------------------------------------------------
\* ... and so does each step of a chain, ...
LEMMA ForgetType ==
    ASSUME TypeOK, NEW s \in Sockets, Forget(s) \/ UNCHANGED socket
    PROVE  socket' \in [Sockets -> {"absent", "connected", "gone"}]
BY DEF TypeOK, Forget

LEMMA ReadActivePreserves == ASSUME IInv, NEW c \in Chains, ReadsActive(c) PROVE IInv'
<1> USE DEF IInv, ReadsActive, redisVars, bounds
<1>1. c[2] \in Sockets
  BY DEF Chains
<1>2. socket' \in [Sockets -> {"absent", "connected", "gone"}]
  BY <1>1, ForgetType
<1>3. PICK new \in ChainStates :
        /\ chain' = [chain EXCEPT ![c] = new]
        /\ Consistent(new.record) /\ new.session \in begun \cup {None}
        /\ new.pc \in {"extend", "complete"} => new.session # None
  <2> USE TypeNamed
  <2>0. chain[c] \in ChainStates /\ Consistent(chain[c].record)
        /\ chain[c].session \in begun \cup {None} /\ active \in begun \cup {None}
    BY DEF CopiesConsistent, SessionsBegun
  <2>1. CASE active # None
    <3> DEFINE pc == IF IsMessage(c) THEN "extend" ELSE "complete"
               new == [chain[c] EXCEPT !.session = active, !.pc = pc]
    <3>1. chain' = [chain EXCEPT ![c] = new]
      BY <2>1
    <3>2. pc \in ChainPcs /\ active \in Sockets \cup {None}
      BY DEF ChainPcs
    <3>3. new \in ChainStates /\ new.record = chain[c].record /\ new.session = active
      <4> HIDE DEF pc
      <4> QED
        BY <2>0, <3>2 DEF ChainStates
    <3> HIDE DEF new
    <3> QED
      BY <2>0, <2>1, <3>1, <3>3
  <2>2. CASE active = None /\ IsMessage(c)
    BY <2>2, Constants
  <2>3. CASE active = None /\ ~ IsMessage(c)
    <3> DEFINE new == [chain[c] EXCEPT !.pc = "done"]
    <3>1. chain' = [chain EXCEPT ![c] = new]
      BY <2>3
    <3>2. /\ new \in ChainStates /\ new.record = chain[c].record
          /\ new.session = chain[c].session /\ new.pc = "done"
      BY <2>0 DEF ChainStates, ChainPcs
    <3> HIDE DEF new
    <3> QED
      BY <2>0, <3>1, <3>2
  <2> QED
    BY <2>1, <2>2, <2>3
<1>4. chain' \in [Chains -> ChainStates] /\ SessionsBegun' /\ CopiesConsistent'
  BY <1>3, ChainMoves DEF SessionsBegun
<1>5. TypeOK'
  BY <1>2, <1>4 DEF TypeOK, ChainStates, ChainPcs
<1> QED
  BY <1>4, <1>5 DEF RecordConsistent

LEMMA ExtendPreserves == ASSUME IInv, NEW c \in Chains, Extends(c) PROVE IInv'
<1> USE DEF IInv, Extends, bounds
<1>1. active' \in begun' \cup {None}
  BY DEF SessionsBegun
<1>2. chain' \in [Chains -> ChainStates] /\ SessionsBegun' /\ CopiesConsistent'
  BY <1>1, Constants, ChainMoves
<1>3. TypeOK'
  BY <1>1, <1>2 DEF TypeOK, ChainStates, ChainPcs
<1> QED
  BY <1>2, <1>3 DEF RecordConsistent

LEMMA CompletePreserves == ASSUME IInv, NEW c \in Chains, Completes(c) PROVE IInv'
<1> USE DEF IInv, Completes, bounds
<1> DEFINE new == [Idle EXCEPT !.pc = "readDaily"]
<1>1. /\ new \in ChainStates /\ new.pc = "readDaily" /\ new.session = None
      /\ Consistent(new.record)
  BY Constants DEF ChainStates, ChainPcs
<1>2. active' = None /\ chain' = [chain EXCEPT ![c] = new]
  BY DEF Removed
<1>3. chain' \in [Chains -> ChainStates] /\ SessionsBegun' /\ CopiesConsistent'
  <2> HIDE DEF new
  <2> QED
    BY <1>1, <1>2, ChainMoves
<1>4. completed' \in SUBSET begun'
  BY DEF TypeOK, SessionsBegun
<1>5. TypeOK'
  BY <1>2, <1>3, <1>4 DEF TypeOK, ChainStates, ChainPcs
<1> QED
  BY <1>3, <1>5 DEF RecordConsistent

LEMMA ReadDailyPreserves == ASSUME IInv, NEW c \in Chains, ReadsDaily(c) PROVE IInv'
<1> USE DEF IInv, ReadsDaily, redisVars, bounds
<1> DEFINE new == [chain[c] EXCEPT !.record = daily, !.pc = "storeDaily"]
<1>1. /\ new \in ChainStates /\ new.pc = "storeDaily" /\ new.session = chain[c].session
      /\ new.record = daily
  BY TypeNamed DEF ChainStates, ChainPcs
<1>2. Consistent(new.record) /\ new.session \in begun \cup {None}
  BY <1>1 DEF SessionsBegun, RecordConsistent, Consistent
<1>3. chain' = [chain EXCEPT ![c] = new]
  OBVIOUS
<1>4. chain' \in [Chains -> ChainStates] /\ SessionsBegun' /\ CopiesConsistent'
  <2> HIDE DEF new
  <2> QED
    BY <1>1, <1>2, <1>3, ChainMoves DEF SessionsBegun
<1>5. TypeOK'
  BY <1>4 DEF TypeOK, ChainStates, ChainPcs
<1> QED
  BY <1>4, <1>5 DEF RecordConsistent

\* ... where the record is written from the chain's own copy, ...
LEMMA StoreDailyPreserves == ASSUME IInv, NEW c \in Chains, StoresDaily(c) PROVE IInv'
<1> USE DEF IInv, StoresDaily, bounds
<1> DEFINE new == [Idle EXCEPT !.pc = "done"]
<1>1. chain[c].record \in Records /\ Consistent(chain[c].record)
  BY TypeNamed DEF ChainStates, CopiesConsistent
<1>2. daily' \in Records /\ Consistent(daily')
  BY <1>1, RecordsWritten
<1>3. new \in ChainStates /\ new.pc = "done" /\ new.session = None /\ Consistent(new.record)
  BY Constants DEF ChainStates, ChainPcs
<1>4. chain' \in [Chains -> ChainStates] /\ SessionsBegun' /\ CopiesConsistent'
  <2>1. chain' = [chain EXCEPT ![c] = new]
    OBVIOUS
  <2> HIDE DEF new
  <2> QED
    BY <1>3, <2>1, ChainMoves DEF SessionsBegun
<1>5. socket' \in [Sockets -> {"absent", "connected", "gone"}]
  <2>1. c[2] \in Sockets
    BY DEF Chains
  <2> QED
    BY <2>1, ForgetType
<1>6. TypeOK'
  BY <1>2, <1>4, <1>5 DEF TypeOK, ChainStates, ChainPcs
<1> QED
  BY <1>2, <1>4, <1>6 DEF RecordConsistent, Consistent
-----------------------------------------------------------------------------
\* ... and each step of a run.
LEMMA RunReadPreserves == ASSUME IInv, NEW r \in Runs, RunReads(r) PROVE IInv'
<1> USE DEF IInv, RunReads, redisVars, bounds
<1> DEFINE new == [NoRun EXCEPT !.pc = "send", !.record = daily]
<1>1. new \in RunStates /\ new.record = daily
  BY Constants, TypeNamed DEF RunStates
<1>2. Consistent(daily) /\ run' = [run EXCEPT ![r] = new]
  BY DEF RecordConsistent, Consistent
<1>3. run' \in [Runs -> RunStates] /\ SessionsBegun' /\ CopiesConsistent'
  <2> HIDE DEF new
  <2> QED
    BY <1>1, <1>2, RunMoves
<1>4. TypeOK'
  BY <1>3 DEF TypeOK, RunStates
<1> QED
  BY <1>3, <1>4 DEF RecordConsistent

\* A run that moves on, with the record it read, takes a good step.
LEMMA RunGoesOn ==
    ASSUME IInv, NEW r \in Runs, NEW pc \in {"confirm", "storeDaily"}, To(r, pc),
           UNCHANGED <<active, begun, chain>>
    PROVE  run' \in [Runs -> RunStates] /\ SessionsBegun' /\ CopiesConsistent'
<1> DEFINE new == [run[r] EXCEPT !.pc = pc]
<1>1. new \in RunStates /\ new.record = run[r].record
  BY TypeNamed DEF IInv, RunStates
<1>2. Consistent(new.record) /\ run' = [run EXCEPT ![r] = new]
  BY <1>1 DEF IInv, CopiesConsistent, To
<1> HIDE DEF new
<1> QED
  BY <1>1, <1>2, RunMoves

LEMMA LedgerPreserves ==
    ASSUME IInv, NEW r \in Runs, NEW reply \in {"Ok", "Err", "lost"}, LedgerReplies(r, reply)
    PROVE  IInv'
<1> USE DEF IInv, LedgerReplies, redisVars
<1>1. Unprocessed(run[r].record) \in Nat
  BY TypeNamed, RecordsWritten DEF RunStates, CopiesConsistent
<1>2. minted' \in Nat
  BY <1>1 DEF TypeOK
<1>3. run' \in [Runs -> RunStates] /\ SessionsBegun' /\ CopiesConsistent'
  <2>1. CASE To(r, "confirm")
    BY <2>1, RunGoesOn
  <2>2. CASE run' = [run EXCEPT ![r] = NoRun]
    BY <2>2, Constants, RunMoves
  <2> QED
    BY <2>1, <2>2
<1>4. lostReplies' \in 0 .. MaxLostReplies
  BY RewardsAssumption DEF TypeOK
<1>5. disturbed' \in BOOLEAN
  BY DEF TypeOK
<1>6. TypeOK'
  BY <1>2, <1>3, <1>4, <1>5 DEF TypeOK, RunStates
<1> QED
  BY <1>3, <1>6 DEF RecordConsistent

LEMMA ConfirmPreserves == ASSUME IInv, NEW r \in Runs, Confirms(r) PROVE IInv'
<1> USE DEF IInv, Confirms, bounds
<1> DEFINE new == [run[r] EXCEPT !.pc = "credit", !.reward = uptimeReward]
<1>1. Unprocessed(run[r].record) \in Nat
  BY TypeNamed, RecordsWritten DEF RunStates, CopiesConsistent
<1>2. new \in RunStates /\ new.record = run[r].record
  BY TypeNamed DEF RunStates
<1>3. Consistent(new.record) /\ run' = [run EXCEPT ![r] = new]
  BY <1>2 DEF CopiesConsistent
<1>4. run' \in [Runs -> RunStates] /\ SessionsBegun' /\ CopiesConsistent'
  <2> HIDE DEF new
  <2> QED
    BY <1>2, <1>3, RunMoves
<1>5. confirmed' \in Nat
  BY <1>1 DEF TypeOK
<1>6. TypeOK'
  BY <1>4, <1>5 DEF TypeOK, RunStates
<1> QED
  BY <1>4, <1>6 DEF RecordConsistent

LEMMA CreditPreserves == ASSUME IInv, NEW r \in Runs, Credits(r) PROVE IInv'
<1> USE DEF IInv, Credits, bounds
<1>1. Unprocessed(run[r].record) \in Nat /\ run[r].reward \in Nat
  BY TypeNamed, RecordsWritten DEF RunStates, CopiesConsistent
<1>2. run' \in [Runs -> RunStates] /\ SessionsBegun' /\ CopiesConsistent'
  BY RunGoesOn
<1>3. uptimeReward' \in Nat
  BY <1>1 DEF TypeOK
<1>4. TypeOK'
  BY <1>2, <1>3 DEF TypeOK, RunStates
<1> QED
  BY <1>2, <1>4 DEF RecordConsistent

LEMMA StoreProcessedPreserves == ASSUME IInv, NEW r \in Runs, StoresProcessed(r) PROVE IInv'
<1> USE DEF IInv, StoresProcessed, bounds
<1>1. run[r].record \in Records /\ Consistent(run[r].record)
  BY TypeNamed DEF RunStates, CopiesConsistent
<1>2. daily' \in Records /\ Consistent(daily')
  BY <1>1, RecordsWritten
<1>3. run' \in [Runs -> RunStates] /\ SessionsBegun' /\ CopiesConsistent'
  BY Constants, RunMoves
<1>4. TypeOK'
  BY <1>2, <1>3 DEF TypeOK, RunStates
<1> QED
  BY <1>2, <1>3, <1>4 DEF RecordConsistent, Consistent

\* A crash forgets every copy.
LEMMA RestartPreserves == ASSUME IInv, Restart PROVE IInv'
<1> USE DEF IInv, Restart, redisVars
<1>1. [Idle EXCEPT !.pc = "done"] \in ChainStates
  BY Constants DEF ChainStates, ChainPcs
<1>2. \A c \in Chains :
        /\ chain'[c] \in {Idle, [Idle EXCEPT !.pc = "done"]}
        /\ chain'[c].session = None /\ chain'[c].record = NoMinutes
        /\ chain'[c].pc \in {"idle", "done"}
  BY DEF Idle
<1>3. chain' \in [Chains -> ChainStates] /\ run' \in [Runs -> RunStates]
  BY <1>1, <1>2, Constants
<1>4. CopiesConsistent'
  BY <1>2, Constants DEF CopiesConsistent
<1>5. SessionsBegun'
  BY <1>2 DEF SessionsBegun
<1>6. socket' \in [Sockets -> {"absent", "connected", "gone"}]
  BY DEF TypeOK
<1>7. restarts' \in 0 .. MaxRestarts
  BY RewardsAssumption DEF TypeOK
<1>8. TypeOK'
  BY <1>3, <1>6, <1>7 DEF TypeOK, ChainStates, ChainPcs, RunStates
<1> QED
  BY <1>4, <1>5, <1>8 DEF RecordConsistent
-----------------------------------------------------------------------------
LEMMA NextIInv == IInv /\ [Next]_vars => IInv'
<1> SUFFICES ASSUME IInv, [Next]_vars PROVE IInv'
  OBVIOUS
<1>1. CASE \E s \in Sockets : Connects(s) \/ Registers(s) \/ MessageArrives(s)
  BY <1>1, ConnectPreserves, RegisterPreserves, MessagePreserves
<1>2. CASE \E s \in Sockets, c \in Chains : c \in {Error(s), Close(s)} /\ Disconnects(c)
  BY <1>2, DisconnectPreserves
<1>3. CASE \E c \in Chains : ChainStep(c)
  BY <1>3, ReadActivePreserves, ExtendPreserves, CompletePreserves, ReadDailyPreserves,
     StoreDailyPreserves DEF ChainStep
<1>4. CASE \E r \in Runs : RunStep(r)
  BY <1>4, RunReadPreserves, LedgerPreserves, ConfirmPreserves, CreditPreserves,
     StoreProcessedPreserves DEF RunStep
<1>5. CASE Restart
  BY <1>5, RestartPreserves
<1>6. CASE UNCHANGED vars
  BY <1>6 DEF vars, redisVars, bounds, IInv, TypeOK, SessionsBegun, CopiesConsistent,
     RecordConsistent
<1> QED
  BY <1>1, <1>2, <1>3, <1>4, <1>5, <1>6 DEF Next

\* The invariant holds in every reachable state.
LEMMA Invariant == Spec => []IInv
BY InitIInv, NextIInv, PTL DEF Spec

\* Whatever Redis holds and whatever chains and runs carry is well formed: a
\* reward is never negative, and only sessions that were begun are completed.
THEOREM TypeCorrect == Spec => []TypeOK
<1>1. IInv => TypeOK
  BY DEF IInv
<1> QED
  BY Invariant, <1>1, PTL

\* For any number of sockets and overlapping runs, through stale copies and
\* crashes, updateDailyUptimeRecord and processUserReward keep the daily record
\* consistent: no more minutes are processed than there are, and the flag never
\* hides unprocessed ones.
THEOREM RecordsStayConsistent == Spec => []RecordConsistent
<1>1. IInv => RecordConsistent
  BY DEF IInv
<1> QED
  BY Invariant, <1>1, PTL
-----------------------------------------------------------------------------
\* What a run is about to credit was confirmed after it read the balance.
CreditsCovered ==
    \A r \in Runs :
        run[r].pc = "credit" => run[r].reward + Unprocessed(run[r].record) <= confirmed

LEMMA NextCredits ==
    IInv /\ CreditsCovered /\ CreditsConfirmed /\ [Next]_vars =>
        CreditsCovered' /\ CreditsConfirmed'
<1> SUFFICES ASSUME IInv, CreditsCovered, CreditsConfirmed, [Next]_vars
             PROVE  CreditsCovered' /\ CreditsConfirmed'
  OBVIOUS
<1> USE DEF CreditsCovered, CreditsConfirmed, redisVars
<1>0. /\ run \in [Runs -> RunStates] /\ uptimeReward \in Nat /\ confirmed \in Nat
      /\ \A r \in Runs : /\ Unprocessed(run[r].record) \in Nat
                         /\ run[r].reward \in Nat
  <2>1. /\ run \in [Runs -> RunStates] /\ uptimeReward \in Nat /\ confirmed \in Nat
        /\ \A r \in Runs : Consistent(run[r].record)
    BY TypeNamed DEF IInv, CopiesConsistent
  <2> QED
    BY <2>1, RecordsWritten DEF RunStates
<1>1. CASE UNCHANGED <<run, uptimeReward, confirmed>>
  BY <1>1
<1>2. ASSUME NEW r \in Runs, RunStep(r)
      PROVE  CreditsCovered' /\ CreditsConfirmed'
  <2>1. CASE RunReads(r)
    <3>1. \A q \in Runs : run'[q].pc = "credit" => q # r /\ run'[q] = run[q]
      BY <1>0, <2>1 DEF RunReads, NoRun
    <3> QED
      BY <2>1, <3>1 DEF RunReads
  <2>2. CASE \E reply \in {"Ok", "Err", "lost"} : LedgerReplies(r, reply)
    <3>1. \A q \in Runs : run'[q].pc = "credit" => q # r /\ run'[q] = run[q]
      BY <1>0, <2>2 DEF LedgerReplies, NoRun, To, RunStates
    <3> QED
      BY <2>2, <3>1 DEF LedgerReplies
  <2>3. CASE Confirms(r)
    <3>1. /\ confirmed' = confirmed + Unprocessed(run[r].record)
          /\ UNCHANGED uptimeReward
      BY <2>3 DEF Confirms
    <3>2. \A q \in Runs \ {r} : run'[q] = run[q]
      BY <1>0, <2>3 DEF Confirms
    <3>3. run'[r].reward = uptimeReward /\ run'[r].record = run[r].record
      BY <1>0, <2>3 DEF Confirms, RunStates
    <3> QED
      BY <1>0, <3>1, <3>2, <3>3 DEF Unprocessed
  <2>4. CASE Credits(r)
    <3>1. \A q \in Runs : run'[q].pc = "credit" => q # r /\ run'[q] = run[q]
      BY <1>0, <2>4 DEF Credits, To, RunStates
    <3> QED
      BY <1>0, <2>4, <3>1 DEF Credits
  <2>5. CASE StoresProcessed(r)
    <3>1. \A q \in Runs : run'[q].pc = "credit" => q # r /\ run'[q] = run[q]
      BY <1>0, <2>5 DEF StoresProcessed, NoRun
    <3> QED
      BY <2>5, <3>1 DEF StoresProcessed
  <2> QED
    BY <1>2, <2>1, <2>2, <2>3, <2>4, <2>5 DEF RunStep
<1>3. CASE Restart
  <2>1. \A q \in Runs : run'[q].pc # "credit"
    BY <1>3 DEF Restart, NoRun
  <2> QED
    BY <1>3, <2>1 DEF Restart
<1>4. CASE \E s \in Sockets : Connects(s) \/ Registers(s) \/ MessageArrives(s)
  BY <1>1, <1>4 DEF Connects, Registers, MessageArrives
<1>5. CASE \E s \in Sockets, c \in Chains : c \in {Error(s), Close(s)} /\ Disconnects(c)
  BY <1>1, <1>5 DEF Disconnects
<1>6. CASE \E c \in Chains : ChainStep(c)
  BY <1>1, <1>6 DEF ChainStep, ReadsActive, Extends, Completes, ReadsDaily, StoresDaily
<1>7. CASE UNCHANGED vars
  BY <1>1, <1>7 DEF vars
<1> QED
  BY <1>2, <1>3, <1>4, <1>5, <1>6, <1>7 DEF Next

\* Whatever runs overlap and however stale the balance updateUserBalance read, a
\* client is never credited more than CONFIRMED transactions say.
THEOREM NeverOvercredited == Spec => []CreditsConfirmed
<1>1. Init => CreditsCovered /\ CreditsConfirmed
  BY DEF Init, NoRun, CreditsCovered, CreditsConfirmed
<1> QED
  BY <1>1, Invariant, NextCredits, PTL DEF Spec
-----------------------------------------------------------------------------
\* What the ledger paid and is not yet CONFIRMED.
Pending == [r \in Runs |-> IF run[r].pc = "confirm" THEN Unprocessed(run[r].record) ELSE 0]
LedgerCovers == confirmed + SumFunctionOnSet(Pending, Runs) <= minted
-----------------------------------------------------------------------------
\* While nothing overlaps or fails, one chain or one run is at work, ...
AtWork(c) == chain[c].pc \notin {"idle", "done"}
OneAtATime ==
    /\ \A c, d \in Chains : AtWork(c) /\ AtWork(d) => c = d
    /\ \A q, r \in Runs : run[q].pc # "idle" /\ run[r].pc # "idle" => q = r
    /\ \A c \in Chains, r \in Runs : AtWork(c) => run[r].pc = "idle"

\* ... what it read is still true, no session is completed twice, ...
ReadsAreTrue ==
    /\ \A c \in Chains : /\ chain[c].pc \in {"extend", "complete"} => chain[c].session = active
                         /\ chain[c].pc = "storeDaily" => chain[c].record = daily
    /\ \A r \in Runs : run[r].pc # "idle" => run[r].record = daily
SessionsEndOnce ==
    /\ active \notin completed
    /\ \A s \in Sockets : /\ chain[Register(s)].pc \in {"idle", "done"}
                          /\ chain[Register(s)].pc = "idle" => s \notin begun

\* ... and the books are off by what it has yet to write.
Storing == \E c \in Chains : chain[c].pc \in {"readDaily", "storeDaily"}
Paid == \E r \in Runs : run[r].pc \in {"confirm", "credit", "storeDaily"}
Settled == \E r \in Runs : run[r].pc \in {"credit", "storeDaily"}
Books ==
    /\ Cardinality(completed) = IF Storing THEN daily.total + 1 ELSE daily.total
    /\ minted = IF Paid THEN daily.total ELSE daily.processed
    /\ confirmed = IF Settled THEN daily.total ELSE daily.processed
Serial == OneAtATime /\ ReadsAreTrue /\ SessionsEndOnce /\ Books
SIInv == IsFiniteSet(completed) /\ (~ disturbed => Serial)
-----------------------------------------------------------------------------
\* What the runs hold, as the ledger's proof needs it.
LEMMA RunRecords ==
    ASSUME IInv
    PROVE  /\ run \in [Runs -> RunStates] /\ confirmed \in Nat /\ minted \in Nat
           /\ \A r \in Runs : Unprocessed(run[r].record) \in Nat
           /\ Pending \in [Runs -> Nat] /\ SumFunctionOnSet(Pending, Runs) \in Nat
<1>1. /\ run \in [Runs -> RunStates] /\ confirmed \in Nat /\ minted \in Nat
      /\ \A r \in Runs : Consistent(run[r].record)
  BY TypeNamed DEF IInv, CopiesConsistent
<1>2. \A r \in Runs : Unprocessed(run[r].record) \in Nat
  BY <1>1, RecordsWritten DEF RunStates
<1>3. Pending \in [Runs -> Nat]
  BY <1>2 DEF Pending
<1> QED
  BY <1>1, <1>2, <1>3, RewardsAssumption, SumIsNat

\* One run begins or ends to owe its confirmation.
LEMMA PendingMoves ==
    ASSUME IInv, NEW r \in Runs, NEW k \in Nat,
           Pending' = [Pending EXCEPT ![r] = k]
    PROVE  /\ SumFunctionOnSet(Pending', Runs) \in Nat
           /\ SumFunctionOnSet(Pending', Runs) + Pending[r] = SumFunctionOnSet(Pending, Runs) + k
<1>1. Pending \in [Runs -> Nat] /\ IsFiniteSet(Runs)
  BY RunRecords, RewardsAssumption
<1>2. PICK f \in [Runs -> Nat] : f = Pending
  BY <1>1
<1>3. PICK g \in [Runs -> Nat] : g = [f EXCEPT ![r] = k]
  BY <1>2
<1>4. SumFunctionOnSet(g, Runs) \in Nat
  BY <1>1, <1>3, SumIsNat
<1>5. SumFunctionOnSet(g, Runs) + f[r] = SumFunctionOnSet(f, Runs) + k
  <2>1. IsFiniteSet(Runs) /\ f \in [Runs -> Nat] /\ r \in Runs /\ k \in Nat
    BY <1>1, <1>2
  <2>2. SumFunctionOnSet([f EXCEPT ![r] = k], Runs) + f[r] = SumFunctionOnSet(f, Runs) + k
    BY <2>1, SumOfUpdate
  <2> QED
    BY <1>3, <2>2
<1>6. Pending' = g
  BY <1>2, <1>3
<1> QED
  BY <1>2, <1>4, <1>5, <1>6

\* A run that moves between stages at which it owes nothing.
LEMMA NothingPending ==
    ASSUME IInv, LedgerCovers, NEW r \in Runs, NEW new, run' = [run EXCEPT ![r] = new],
           run[r].pc # "confirm", new.pc # "confirm", UNCHANGED confirmed,
           minted' \in Nat, minted <= minted'
    PROVE  LedgerCovers'
<1>1. \A q \in Runs : run'[q] = IF q = r THEN new ELSE run[q]
  BY RunRecords
<1>2. Pending' = Pending
  BY <1>1 DEF Pending
<1>3. /\ confirmed + SumFunctionOnSet(Pending, Runs) <= minted
      /\ confirmed \in Nat /\ minted \in Nat /\ SumFunctionOnSet(Pending, Runs) \in Nat
  BY RunRecords DEF LedgerCovers
<1> QED
  BY <1>2, <1>3 DEF LedgerCovers

LEMMA LedgerRepliesCovers ==
    ASSUME IInv, LedgerCovers, NEW r \in Runs, NEW reply \in {"Ok", "Err", "lost"},
           LedgerReplies(r, reply)
    PROVE  LedgerCovers'
<1>0. PICK u : u = Unprocessed(run[r].record)
  OBVIOUS
<1>1. /\ run \in [Runs -> RunStates] /\ u \in Nat /\ minted \in Nat /\ confirmed \in Nat
      /\ run[r].pc = "send" /\ confirmed' = confirmed
      /\ SumFunctionOnSet(Pending, Runs) \in Nat
  BY <1>0, RunRecords DEF LedgerReplies, redisVars
<1>2. minted' = (IF reply = "Err" THEN minted ELSE minted + u)
  BY <1>0 DEF LedgerReplies
<1>3. CASE reply = "Ok"
  <2>1. run' = [run EXCEPT ![r].pc = "confirm"]
    BY <1>3 DEF LedgerReplies, Succeeded, To
  <2>2. \A q \in Runs : /\ q # r => run'[q] = run[q]
                        /\ q = r => run'[q].pc = "confirm" /\ run'[q].record = run[q].record
    BY <1>1, <2>1 DEF RunStates
  <2>3. Pending' = [Pending EXCEPT ![r] = u]
    BY <1>0, <2>2 DEF Pending
  <2>4. /\ SumFunctionOnSet(Pending', Runs) \in Nat
        /\ SumFunctionOnSet(Pending', Runs) + Pending[r] = SumFunctionOnSet(Pending, Runs) + u
    BY <1>1, <2>3, PendingMoves
  <2>5. Pending[r] = 0
    BY <1>1 DEF Pending
  <2>6. minted' = minted + u
    BY <1>2, <1>3
  <2>7. confirmed + SumFunctionOnSet(Pending, Runs) <= minted
    BY DEF LedgerCovers
  <2>8. SumFunctionOnSet(Pending', Runs) = SumFunctionOnSet(Pending, Runs) + u
    BY <2>4, <2>5
  <2>9. confirmed + (SumFunctionOnSet(Pending, Runs) + u) <= minted + u
    BY <1>1, <2>7
  <2> QED
    BY <1>1, <2>6, <2>8, <2>9 DEF LedgerCovers
<1>4. CASE reply # "Ok"
  <2>1. run' = [run EXCEPT ![r] = NoRun]
    BY <1>4 DEF LedgerReplies, Succeeded
  <2>2. minted' \in Nat /\ minted <= minted'
    BY <1>1, <1>2
  <2>3. PICK new : new = NoRun
    OBVIOUS
  <2>4. new.pc # "confirm"
    BY <2>3 DEF NoRun
  <2>5. run' = [run EXCEPT ![r] = new] /\ run[r].pc # "confirm"
    BY <1>1, <2>1, <2>3
  <2> QED
    BY <1>1, <2>2, <2>4, <2>5, NothingPending
<1> QED
  BY <1>3, <1>4

LEMMA ConfirmsCovers ==
    ASSUME IInv, LedgerCovers, NEW r \in Runs, Confirms(r)
    PROVE  LedgerCovers'
<1>0. PICK u : u = Unprocessed(run[r].record)
  OBVIOUS
<1>1. /\ run \in [Runs -> RunStates] /\ u \in Nat /\ minted \in Nat /\ confirmed \in Nat
      /\ run[r].pc = "confirm" /\ confirmed' = confirmed + u /\ minted' = minted
      /\ SumFunctionOnSet(Pending, Runs) \in Nat
  BY <1>0, RunRecords DEF Confirms
<1>2. \A q \in Runs : /\ q # r => run'[q] = run[q]
                      /\ q = r => run'[q].pc = "credit"
  BY <1>1 DEF Confirms, RunStates
<1>3. Pending' = [Pending EXCEPT ![r] = 0]
  BY <1>2 DEF Pending
<1>4. /\ SumFunctionOnSet(Pending', Runs) \in Nat
      /\ SumFunctionOnSet(Pending', Runs) + Pending[r] = SumFunctionOnSet(Pending, Runs) + 0
  BY <1>3, PendingMoves
<1>5. Pending[r] = u
  BY <1>0, <1>1 DEF Pending
<1>6. confirmed + SumFunctionOnSet(Pending, Runs) <= minted
  BY DEF LedgerCovers
<1>7. SumFunctionOnSet(Pending', Runs) + u = SumFunctionOnSet(Pending, Runs)
  BY <1>1, <1>4, <1>5
<1>8. (confirmed + u) + SumFunctionOnSet(Pending', Runs) <= minted
  BY <1>1, <1>4, <1>6, <1>7
<1> QED
  BY <1>1, <1>8 DEF LedgerCovers

LEMMA NextCovers ==
    ASSUME IInv, LedgerCovers, [Next]_vars
    PROVE  LedgerCovers'
<1>1. CASE UNCHANGED <<run, confirmed, minted>>
  BY <1>1 DEF LedgerCovers, Pending
<1>2. ASSUME NEW r \in Runs, RunStep(r) PROVE LedgerCovers'
  <2>0. run \in [Runs -> RunStates] /\ minted \in Nat
    BY RunRecords
  <2>1. CASE RunReads(r)
    <3>1. PICK new : new = [NoRun EXCEPT !.pc = "send", !.record = daily]
      OBVIOUS
    <3>2. new.pc = "send" /\ run' = [run EXCEPT ![r] = new] /\ run[r].pc = "idle"
      BY <2>1, <3>1 DEF RunReads, NoRun
    <3>3. minted' \in Nat /\ minted <= minted' /\ confirmed' = confirmed /\ run[r].pc # "confirm"
      BY <2>0, <2>1 DEF RunReads, redisVars
    <3> QED
      BY <3>2, <3>3, NothingPending
  <2>2. CASE \E reply \in {"Ok", "Err", "lost"} : LedgerReplies(r, reply)
    BY <2>2, LedgerRepliesCovers
  <2>3. CASE Confirms(r)
    BY <2>3, ConfirmsCovers
  <2>4. CASE Credits(r)
    <3>1. PICK new : new = [run[r] EXCEPT !.pc = "storeDaily"]
      OBVIOUS
    <3>2. new.pc = "storeDaily" /\ run' = [run EXCEPT ![r] = new]
      BY <2>0, <2>4, <3>1 DEF Credits, To, RunStates
    <3>3. minted' \in Nat /\ minted <= minted' /\ confirmed' = confirmed /\ run[r].pc # "confirm"
      BY <2>0, <2>4 DEF Credits
    <3> QED
      BY <3>2, <3>3, NothingPending
  <2>5. CASE StoresProcessed(r)
    <3>1. PICK new : new = NoRun
      OBVIOUS
    <3>2. new.pc = "idle" /\ run' = [run EXCEPT ![r] = new] /\ run[r].pc = "storeDaily"
      BY <2>5, <3>1 DEF StoresProcessed, NoRun
    <3>3. minted' \in Nat /\ minted <= minted' /\ confirmed' = confirmed /\ run[r].pc # "confirm"
      BY <2>0, <2>5 DEF StoresProcessed
    <3> QED
      BY <3>2, <3>3, NothingPending
  <2> QED
    BY <1>2, <2>1, <2>2, <2>3, <2>4, <2>5 DEF RunStep
<1>3. CASE Restart
  <2>1. Pending' = [r \in Runs |-> 0]
    BY <1>3 DEF Restart, NoRun, Pending
  <2>2. SumFunctionOnSet([r \in Runs |-> 0], Runs) = 0
    BY RewardsAssumption, SumOfZeros
  <2>3. SumFunctionOnSet(Pending', Runs) = 0
    BY <2>1, <2>2
  <2>4. confirmed' = confirmed /\ minted' = minted
    BY <1>3 DEF Restart, redisVars
  <2>5. confirmed <= minted /\ confirmed \in Nat
    BY RunRecords DEF LedgerCovers
  <2> QED
    BY <2>3, <2>4, <2>5 DEF LedgerCovers
<1>4. CASE \E s \in Sockets : Connects(s) \/ Registers(s) \/ MessageArrives(s)
  BY <1>1, <1>4 DEF Connects, Registers, MessageArrives, redisVars
<1>5. CASE \E s \in Sockets, c \in Chains : c \in {Error(s), Close(s)} /\ Disconnects(c)
  BY <1>1, <1>5 DEF Disconnects, redisVars
<1>6. CASE \E c \in Chains : ChainStep(c)
  BY <1>1, <1>6 DEF ChainStep, ReadsActive, Extends, Completes, ReadsDaily, StoresDaily, redisVars
<1>7. CASE UNCHANGED vars
  BY <1>1, <1>7 DEF vars, redisVars
<1> QED
  BY <1>2, <1>3, <1>4, <1>5, <1>6, <1>7 DEF Next

\* Whatever overlaps, gets lost or crashes: no more is credited than CONFIRMED
\* transactions say, and no more is CONFIRMED than the ledger paid.
THEOREM LedgerPaidIt == Spec => []BackedByLedger
<1>1. Init => LedgerCovers
  <2> SUFFICES ASSUME Init PROVE LedgerCovers
    OBVIOUS
  <2>1. Pending = [r \in Runs |-> 0]
    BY DEF Init, Pending, NoRun
  <2>2. SumFunctionOnSet([r \in Runs |-> 0], Runs) = 0
    BY RewardsAssumption, SumOfZeros
  <2>3. SumFunctionOnSet(Pending, Runs) = 0
    BY <2>1, <2>2
  <2> QED
    BY <2>3 DEF LedgerCovers, Init
<1>2. IInv /\ LedgerCovers /\ [Next]_vars => LedgerCovers'
  BY NextCovers
<1>3. IInv /\ LedgerCovers /\ CreditsConfirmed => BackedByLedger
  BY RunRecords DEF LedgerCovers, BackedByLedger
<1> QED
  BY <1>1, <1>2, <1>3, Invariant, NeverOvercredited, PTL DEF Spec
-----------------------------------------------------------------------------
LEMMA RewardTypes ==
    ASSUME IInv
    PROVE  /\ chain \in [Chains -> ChainStates] /\ run \in [Runs -> RunStates]
           /\ daily \in Records /\ daily.total \in Nat /\ daily.processed \in Nat
           /\ minted \in Nat /\ confirmed \in Nat
           /\ completed \in SUBSET begun /\ begun \in SUBSET Sockets /\ active \in begun \cup {None}
           /\ None \notin Sockets
BY TypeNamed, RewardsAssumption DEF IInv, SessionsBegun, Records

\* Nothing but one chain, or but one run, is at work.
OnlyChain(c) ==
    /\ \A d \in Chains \ {c} : ~ AtWork(d)
    /\ \A r \in Runs : run[r].pc = "idle"
OnlyRun(r) ==
    /\ \A c \in Chains : ~ AtWork(c)
    /\ \A q \in Runs \ {r} : run[q].pc = "idle"

\* A step of the only chain at work.
LEMMA OnlyChainSteps ==
    ASSUME IInv, Serial, NEW c \in Chains, OnlyChain(c), NEW new,
           chain' = [chain EXCEPT ![c] = new], UNCHANGED run
    PROVE  /\ OneAtATime' /\ ~ Paid /\ ~ Settled /\ ~ Paid' /\ ~ Settled'
           /\ \A r \in Runs : run'[r].pc = "idle"
           /\ Storing <=> chain[c].pc \in {"readDaily", "storeDaily"}
           /\ Storing' <=> new.pc \in {"readDaily", "storeDaily"}
           /\ chain'[c] = new /\ \A d \in Chains \ {c} : chain'[d] = chain[d]
           /\ \A d \in Chains \ {c} : chain'[d].pc \in {"idle", "done"}
<1>1. \A d \in Chains : chain'[d] = IF d = c THEN new ELSE chain[d]
  BY RewardTypes
<1>2. \A r \in Runs : run[r].pc = "idle" /\ run'[r].pc = "idle"
  BY DEF OnlyChain
<1>3. \A d \in Chains \ {c} : chain[d].pc \in {"idle", "done"} /\ chain'[d] = chain[d]
  BY <1>1 DEF OnlyChain, AtWork
<1>4. OneAtATime'
  BY <1>2, <1>3 DEF OneAtATime, AtWork
<1>5. ~ Paid /\ ~ Settled /\ ~ Paid' /\ ~ Settled'
  BY <1>2 DEF Paid, Settled
<1>6. /\ Storing <=> chain[c].pc \in {"readDaily", "storeDaily"}
      /\ Storing' <=> new.pc \in {"readDaily", "storeDaily"}
  BY <1>1, <1>3 DEF Storing
<1> QED
  BY <1>1, <1>2, <1>3, <1>4, <1>5, <1>6

\* A step of the only run at work.
LEMMA OnlyRunSteps ==
    ASSUME IInv, Serial, NEW r \in Runs, OnlyRun(r), NEW new,
           run' = [run EXCEPT ![r] = new],
           UNCHANGED <<chain, active, completed, begun>>
    PROVE  /\ OneAtATime' /\ SessionsEndOnce' /\ ~ Storing /\ ~ Storing'
           /\ Paid <=> run[r].pc \in {"confirm", "credit", "storeDaily"}
           /\ Paid' <=> new.pc \in {"confirm", "credit", "storeDaily"}
           /\ Settled <=> run[r].pc \in {"credit", "storeDaily"}
           /\ Settled' <=> new.pc \in {"credit", "storeDaily"}
           /\ ReadsAreTrue' <=> (new.pc # "idle" => new.record = daily')
<1>1. \A q \in Runs : run'[q] = IF q = r THEN new ELSE run[q]
  BY RewardTypes
<1>2. \A c \in Chains : chain[c].pc \in {"idle", "done"} /\ chain'[c] = chain[c]
  BY DEF OnlyRun, AtWork
<1>3. \A q \in Runs \ {r} : run[q].pc = "idle" /\ run'[q].pc = "idle"
  BY <1>1 DEF OnlyRun
<1>4. OneAtATime'
  BY <1>2, <1>3 DEF OneAtATime, AtWork
<1>5. ~ Storing /\ ~ Storing'
  BY <1>2 DEF Storing
<1>6. /\ Paid <=> run[r].pc \in {"confirm", "credit", "storeDaily"}
      /\ Paid' <=> new.pc \in {"confirm", "credit", "storeDaily"}
      /\ Settled <=> run[r].pc \in {"credit", "storeDaily"}
      /\ Settled' <=> new.pc \in {"credit", "storeDaily"}
  BY <1>1, <1>3 DEF Paid, Settled
<1>7. SessionsEndOnce'
  BY DEF Serial, SessionsEndOnce
<1>8. ReadsAreTrue' <=> (new.pc # "idle" => new.record = daily')
  BY <1>1, <1>2, <1>3 DEF ReadsAreTrue
<1> QED
  BY <1>4, <1>5, <1>6, <1>7, <1>8

\* Who is at work alone.
LEMMA Alone ==
    ASSUME OneAtATime
    PROVE  /\ \A c \in Chains : AtWork(c) => OnlyChain(c)
           /\ \A r \in Runs : run[r].pc # "idle" => OnlyRun(r)
           /\ ~ Working => /\ \A c \in Chains : OnlyChain(c) /\ chain[c].pc \in {"idle", "done"}
                           /\ \A r \in Runs : OnlyRun(r) /\ run[r].pc = "idle"
<1>1. \A c \in Chains : AtWork(c) => OnlyChain(c)
  BY DEF OneAtATime, OnlyChain
<1>2. \A r \in Runs : run[r].pc # "idle" => OnlyRun(r)
  BY DEF OneAtATime, OnlyRun
<1>3. ~ Working => /\ \A c \in Chains : chain[c].pc \in {"idle", "done"}
                   /\ \A r \in Runs : run[r].pc = "idle"
  BY DEF Working
<1>4. ~ Working => /\ \A c \in Chains : OnlyChain(c) /\ chain[c].pc \in {"idle", "done"}
                   /\ \A r \in Runs : OnlyRun(r) /\ run[r].pc = "idle"
  BY <1>3 DEF OnlyChain, OnlyRun, AtWork
<1> QED
  BY <1>1, <1>2, <1>4
-----------------------------------------------------------------------------
\* A chain begins while nothing is at work.
LEMMA BeginsSerial ==
    ASSUME IInv, Serial, NEW c \in Chains, NEW pc \in {"done", "readActive"}, Begin(c, pc), ~ Working,
           UNCHANGED <<completed, daily, confirmed, minted, run>>
    PROVE  OneAtATime' /\ ReadsAreTrue' /\ Books'
<1>1. PICK new : new = [chain[c] EXCEPT !.pc = pc]
  OBVIOUS
<1>2. chain' = [chain EXCEPT ![c] = new] /\ new.pc = pc /\ OnlyChain(c) /\ chain[c].pc = "idle"
  BY <1>1, Alone, RewardTypes DEF Begin, Serial, ChainStates
<1>3. /\ OneAtATime' /\ ~ Paid /\ ~ Settled /\ ~ Paid' /\ ~ Settled'
      /\ \A r \in Runs : run'[r].pc = "idle"
      /\ ~ Storing /\ ~ Storing'
      /\ \A d \in Chains : chain'[d].pc \in {"idle", "done", "readActive"}
  <2>1. /\ OneAtATime' /\ ~ Paid /\ ~ Settled /\ ~ Paid' /\ ~ Settled'
        /\ \A r \in Runs : run'[r].pc = "idle"
        /\ Storing <=> chain[c].pc \in {"readDaily", "storeDaily"}
        /\ Storing' <=> new.pc \in {"readDaily", "storeDaily"}
        /\ chain'[c] = new /\ \A d \in Chains \ {c} : chain'[d].pc \in {"idle", "done"}
    BY <1>2, OnlyChainSteps
  <2>2. new.pc \in {"done", "readActive"}
    BY <1>2
  <2> QED
    BY <1>2, <2>1, <2>2
<1>4. ReadsAreTrue'
  BY <1>3 DEF ReadsAreTrue
<1>5. Books'
  BY <1>3 DEF Serial, Books
<1> QED
  BY <1>3, <1>4, <1>5

LEMMA RegistersSerial ==
    ASSUME IInv, SIInv, NEW s \in Sockets, Registers(s)
    PROVE  SIInv'
<1>1. IsFiniteSet(completed)'
  BY DEF SIInv, Registers
<1>2. ASSUME ~ disturbed' PROVE Serial'
  <2>1. Serial /\ ~ Working /\ Register(s) \in Chains
    BY <1>2, Constants DEF SIInv, Registers, Begin
  <2>2. OneAtATime' /\ ReadsAreTrue' /\ Books'
    BY <2>1, BeginsSerial DEF Registers
  <2>3. s \notin begun
    BY <2>1 DEF Serial, SessionsEndOnce, Registers, Begin
  <2>4. \A q \in Sockets : Register(q) \in Chains /\ (q # s => Register(q) # Register(s))
    BY Constants DEF Register
  <2>5. /\ chain'[Register(s)].pc = "done"
        /\ \A q \in Sockets \ {s} : chain'[Register(q)] = chain[Register(q)]
    BY <2>1, <2>4, RewardTypes DEF Registers, Begin, ChainStates
  <2>6. active' = s /\ completed' = completed /\ begun' = begun \cup {s}
    BY DEF Registers
  <2>7. SessionsEndOnce'
    BY <2>1, <2>3, <2>5, <2>6, RewardTypes DEF Serial, SessionsEndOnce
  <2> QED
    BY <2>2, <2>7 DEF Serial
<1> QED
  BY <1>1, <1>2 DEF SIInv

\* A message, or the end of a socket, begins.
LEMMA OthersBeginSerial ==
    ASSUME IInv, SIInv, NEW c \in Chains, Begin(c, "readActive"), \A s \in Sockets : c # Register(s),
           UNCHANGED <<active, begun, completed, daily, confirmed, minted, run>>
    PROVE  SIInv'
<1>1. IsFiniteSet(completed)'
  BY DEF SIInv
<1>2. ASSUME ~ disturbed' PROVE Serial'
  <2>1. Serial /\ ~ Working
    BY <1>2 DEF SIInv, Begin
  <2>2. OneAtATime' /\ ReadsAreTrue' /\ Books'
    BY <2>1, BeginsSerial
  <2>3. \A s \in Sockets : chain'[Register(s)] = chain[Register(s)]
    BY Constants, RewardTypes DEF Begin
  <2>4. SessionsEndOnce'
    BY <2>1, <2>3 DEF Serial, SessionsEndOnce
  <2> QED
    BY <2>2, <2>4 DEF Serial
<1> QED
  BY <1>1, <1>2 DEF SIInv
-----------------------------------------------------------------------------
\* A chain at work is the only one, and no registration.
LEMMA WorkingChain ==
    ASSUME IInv, Serial, NEW c \in Chains, AtWork(c)
    PROVE  /\ OnlyChain(c) /\ \A s \in Sockets : c # Register(s)
           /\ \A s \in Sockets : Register(s) \in Chains
BY Alone, Constants DEF Serial, SessionsEndOnce, AtWork

\* Steps of a chain that leave the books alone.
LEMMA ChainSerial ==
    ASSUME IInv, Serial, NEW c \in Chains, AtWork(c), NEW new, chain' = [chain EXCEPT ![c] = new],
           new.pc \in {"extend", "complete"} => new.session = active',
           new.pc = "storeDaily" => new.record = daily',
           new.pc \in {"readDaily", "storeDaily"} <=> chain[c].pc \in {"readDaily", "storeDaily"},
           UNCHANGED <<active, begun, completed, daily, confirmed, minted, run>>
    PROVE  Serial'
<1>1. OnlyChain(c) /\ \A s \in Sockets : c # Register(s) /\ Register(s) \in Chains
  BY WorkingChain
<1>2. /\ OneAtATime' /\ ~ Paid /\ ~ Settled /\ ~ Paid' /\ ~ Settled'
      /\ \A r \in Runs : run'[r].pc = "idle"
      /\ Storing' <=> Storing
      /\ chain'[c] = new /\ \A d \in Chains \ {c} : chain'[d] = chain[d]
      /\ \A d \in Chains \ {c} : chain'[d].pc \in {"idle", "done"}
  BY <1>1, OnlyChainSteps
<1>3. ReadsAreTrue'
  <2>1. ASSUME NEW d \in Chains
        PROVE  /\ chain'[d].pc \in {"extend", "complete"} => chain'[d].session = active'
               /\ chain'[d].pc = "storeDaily" => chain'[d].record = daily'
    <3>1. CASE d = c
      BY <1>2, <3>1
    <3>2. CASE d # c
      BY <1>2, <3>2
    <3> QED
      BY <3>1, <3>2
  <2> QED
    BY <1>2, <2>1 DEF ReadsAreTrue
<1>4. SessionsEndOnce'
  BY <1>1, <1>2 DEF Serial, SessionsEndOnce
<1>5. Books'
  BY <1>2 DEF Serial, Books
<1> QED
  BY <1>2, <1>3, <1>4, <1>5 DEF Serial

LEMMA ReadsActiveSerial ==
    ASSUME IInv, SIInv, NEW c \in Chains, ReadsActive(c)
    PROVE  SIInv'
<1>0. PICK th : th = chain[c]
  OBVIOUS
<1>1. th \in ChainStates /\ th.pc = "readActive" /\ AtWork(c)
  BY <1>0, RewardTypes DEF ReadsActive, AtWork
<1>2. UNCHANGED <<active, begun, completed, daily, confirmed, minted, run, disturbed>>
  BY DEF ReadsActive, redisVars
<1>3. PICK new : /\ chain' = [chain EXCEPT ![c] = new]
                 /\ new.pc \in {"extend", "complete", "idle", "done"}
                 /\ new.pc \in {"extend", "complete"} => new.session = active
  <2>1. CASE active # None
    <3>1. PICK pc : pc = (IF IsMessage(c) THEN "extend" ELSE "complete")
      OBVIOUS
    <3>2. PICK one, new : one = [th EXCEPT !.session = active] /\ new = [one EXCEPT !.pc = pc]
      OBVIOUS
    <3>3. one \in ChainStates /\ one.session = active
      BY <1>1, <3>2, RewardTypes DEF ChainStates
    <3>4. new.session = active /\ new.pc = pc
      BY <3>2, <3>3 DEF ChainStates
    <3>5. chain' = [chain EXCEPT ![c] = new]
      BY <1>0, <2>1, <3>1, <3>2, RewardTypes DEF ReadsActive
    <3> QED
      BY <3>1, <3>4, <3>5
  <2>2. CASE active = None /\ IsMessage(c)
    BY <2>2, Constants DEF ReadsActive
  <2>3. CASE active = None /\ ~ IsMessage(c)
    <3>1. PICK new : new = [th EXCEPT !.pc = "done"]
      OBVIOUS
    <3>2. new.pc = "done"
      BY <1>1, <3>1 DEF ChainStates
    <3>3. chain' = [chain EXCEPT ![c] = new]
      BY <1>0, <2>3, <3>1, RewardTypes DEF ReadsActive
    <3> QED
      BY <3>2, <3>3
  <2> QED
    BY <2>1, <2>2, <2>3
<1>4. new.pc \notin {"readDaily", "storeDaily"} /\ chain[c].pc \notin {"readDaily", "storeDaily"}
  BY <1>0, <1>1, <1>3
<1>5. ASSUME Serial PROVE Serial'
  BY <1>1, <1>2, <1>3, <1>4, <1>5, ChainSerial
<1> QED
  BY <1>2, <1>5 DEF SIInv

\* The session it read is the active one still.
LEMMA ExtendsSerial ==
    ASSUME IInv, SIInv, NEW c \in Chains, Extends(c)
    PROVE  SIInv'
<1>1. UNCHANGED <<begun, completed, daily, confirmed, minted, run, disturbed>>
  BY DEF Extends
<1>2. ASSUME Serial PROVE Serial'
  <2>1. chain[c].pc = "extend" /\ AtWork(c) /\ chain' = [chain EXCEPT ![c] = Idle]
    BY DEF Extends, AtWork
  <2>2. active' = active
    BY <1>2, <2>1 DEF Extends, Serial, ReadsAreTrue
  <2>3. Idle.pc = "idle"
    BY Constants
  <2>4. PICK new : new = Idle
    OBVIOUS
  <2> QED
    BY <1>1, <1>2, <2>1, <2>2, <2>3, <2>4, ChainSerial
<1> QED
  BY <1>1, <1>2 DEF SIInv

LEMMA ReadsDailySerial ==
    ASSUME IInv, SIInv, NEW c \in Chains, ReadsDaily(c)
    PROVE  SIInv'
<1>0. PICK th : th = chain[c]
  OBVIOUS
<1>1. UNCHANGED <<active, begun, completed, daily, confirmed, minted, run, disturbed>>
  BY DEF ReadsDaily, redisVars
<1>2. th \in ChainStates /\ th.pc = "readDaily" /\ AtWork(c)
  BY <1>0, RewardTypes DEF ReadsDaily, AtWork
<1>3. PICK one, new : one = [th EXCEPT !.record = daily] /\ new = [one EXCEPT !.pc = "storeDaily"]
  OBVIOUS
<1>4. one \in ChainStates /\ one.record = daily
  BY <1>2, <1>3, RewardTypes DEF ChainStates
<1>5. new.record = daily /\ new.pc = "storeDaily"
  BY <1>3, <1>4 DEF ChainStates
<1>6. chain' = [chain EXCEPT ![c] = new]
  BY <1>0, <1>3, RewardTypes DEF ReadsDaily
<1>7. ASSUME Serial PROVE Serial'
  BY <1>0, <1>1, <1>2, <1>5, <1>6, <1>7, ChainSerial
<1> QED
  BY <1>1, <1>7 DEF SIInv

\* The session is completed: the record is now one short.
LEMMA CompletesSerial ==
    ASSUME IInv, SIInv, NEW c \in Chains, Completes(c)
    PROVE  SIInv'
<1>1. PICK s : s = chain[c].session
  OBVIOUS
<1>2. /\ chain[c].pc = "complete" /\ AtWork(c) /\ completed' = completed \cup {s} /\ active' = None
      /\ UNCHANGED <<begun, daily, confirmed, minted, run, disturbed>>
  BY <1>1 DEF Completes, AtWork, Removed
<1>3. IsFiniteSet(completed) /\ IsFiniteSet(completed')
  BY <1>2, FS_AddElement DEF SIInv
<1>4. ASSUME Serial PROVE Serial'
  <2>1. PICK new : new = [Idle EXCEPT !.pc = "readDaily"]
    OBVIOUS
  <2>2. new.pc = "readDaily" /\ chain' = [chain EXCEPT ![c] = new]
    BY <2>1 DEF Completes, Idle
  <2>3. OnlyChain(c) /\ \A q \in Sockets : c # Register(q) /\ Register(q) \in Chains
    BY <1>2, <1>4, WorkingChain
  <2>4. /\ OneAtATime' /\ ~ Paid /\ ~ Settled /\ ~ Paid' /\ ~ Settled'
        /\ \A r \in Runs : run'[r].pc = "idle"
        /\ ~ Storing /\ Storing'
        /\ chain'[c] = new /\ \A d \in Chains \ {c} : chain'[d] = chain[d]
        /\ \A d \in Chains \ {c} : chain'[d].pc \in {"idle", "done"}
    <3>1. chain[c].pc \notin {"readDaily", "storeDaily"}
      BY <1>2
    <3>2. UNCHANGED run
      BY <1>2
    <3> QED
      BY <1>4, <2>2, <2>3, <3>1, <3>2, OnlyChainSteps
  <2>5. \A d \in Chains : chain'[d].pc \in {"idle", "done", "readDaily"}
    BY <2>2, <2>4
  <2>6. ReadsAreTrue'
    BY <2>4, <2>5 DEF ReadsAreTrue
  <2>7. s = active /\ s # None /\ s \notin completed
    BY <1>1, <1>2, <1>4 DEF Serial, ReadsAreTrue, SessionsEndOnce, IInv, SessionsBegun
  <2>8. None \notin completed'
    BY <1>2, <2>7, RewardTypes
  <2>9. SessionsEndOnce'
    BY <1>2, <1>4, <2>3, <2>4, <2>8 DEF Serial, SessionsEndOnce
  <2>10. Cardinality(completed') = daily.total + 1
    <3>1. Cardinality(completed) = daily.total
      BY <1>4, <2>4 DEF Serial, Books
    <3>2. Cardinality(completed \cup {s}) = Cardinality(completed) + 1
      BY <1>3, <2>7, FS_AddElement
    <3> QED
      BY <1>2, <3>1, <3>2
  <2>11. Books'
    BY <1>2, <1>4, <2>4, <2>10 DEF Serial, Books
  <2> QED
    BY <2>4, <2>6, <2>9, <2>11 DEF Serial
<1> QED
  BY <1>2, <1>3, <1>4 DEF SIInv

\* The record has the minutes of every completed session.
LEMMA StoresDailySerial ==
    ASSUME IInv, SIInv, NEW c \in Chains, StoresDaily(c)
    PROVE  SIInv'
<1>1. PICK rec : rec = chain[c].record
  OBVIOUS
<1>2. /\ chain[c].pc = "storeDaily" /\ AtWork(c) /\ daily' = WithSession(rec)
      /\ UNCHANGED <<active, begun, completed, confirmed, minted, run, disturbed>>
  BY <1>1 DEF StoresDaily, AtWork
<1>3. ASSUME Serial PROVE Serial'
  <2>1. PICK new : new = [Idle EXCEPT !.pc = "done"]
    OBVIOUS
  <2>2. new.pc = "done" /\ chain' = [chain EXCEPT ![c] = new]
    BY <2>1 DEF StoresDaily, Idle
  <2>3. OnlyChain(c) /\ \A q \in Sockets : c # Register(q) /\ Register(q) \in Chains
    BY <1>2, <1>3, WorkingChain
  <2>4. /\ OneAtATime' /\ ~ Paid /\ ~ Settled /\ ~ Paid' /\ ~ Settled'
        /\ \A r \in Runs : run'[r].pc = "idle"
        /\ Storing /\ ~ Storing'
        /\ chain'[c] = new /\ \A d \in Chains \ {c} : chain'[d] = chain[d]
        /\ \A d \in Chains \ {c} : chain'[d].pc \in {"idle", "done"}
    <3>1. UNCHANGED run /\ chain[c].pc \in {"readDaily", "storeDaily"} /\ new.pc \notin {"readDaily", "storeDaily"}
      BY <1>2, <2>2
    <3> QED
      BY <1>3, <2>2, <2>3, <3>1, OnlyChainSteps, ZenonT(40)
  <2>5. \A d \in Chains : chain'[d].pc \in {"idle", "done"}
    BY <2>2, <2>4
  <2>6. ReadsAreTrue'
    BY <2>4, <2>5 DEF ReadsAreTrue
  <2>7. SessionsEndOnce'
    BY <1>2, <1>3, <2>3, <2>4 DEF Serial, SessionsEndOnce
  <2>8. rec = daily
    BY <1>1, <1>2, <1>3 DEF Serial, ReadsAreTrue
  <2>9. daily'.total = daily.total + 1 /\ daily'.processed = daily.processed
    BY <1>2, <2>8, RewardTypes DEF WithSession, Records
  <2>10. Books'
    BY <1>2, <1>3, <2>4, <2>9 DEF Serial, Books
  <2> QED
    BY <2>4, <2>6, <2>7, <2>10 DEF Serial
<1> QED
  BY <1>2, <1>3 DEF SIInv
-----------------------------------------------------------------------------
\* A run that finds unprocessed minutes begins while nothing is at work.
LEMMA RunReadsSerial ==
    ASSUME IInv, SIInv, NEW r \in Runs, RunReads(r)
    PROVE  SIInv'
<1>1. UNCHANGED <<active, begun, completed, daily, confirmed, minted, chain>>
  BY DEF RunReads, redisVars
<1>2. ASSUME ~ disturbed' PROVE Serial'
  <2>1. Serial /\ ~ Working /\ run[r].pc = "idle"
    BY <1>2 DEF SIInv, RunReads
  <2>2. OnlyRun(r)
    BY <2>1, Alone DEF Serial
  <2>3. PICK new : new = [NoRun EXCEPT !.pc = "send", !.record = daily]
    OBVIOUS
  <2>4. new.pc = "send" /\ new.record = daily /\ run' = [run EXCEPT ![r] = new]
    BY <2>3 DEF RunReads, NoRun
  <2>5. /\ OneAtATime' /\ SessionsEndOnce' /\ ~ Storing /\ ~ Storing'
        /\ ~ Paid /\ ~ Paid' /\ ~ Settled /\ ~ Settled' /\ ReadsAreTrue'
    BY <1>1, <2>1, <2>2, <2>4, OnlyRunSteps
  <2>6. Books'
    BY <1>1, <2>1, <2>5 DEF Serial, Books
  <2> QED
    BY <2>5, <2>6 DEF Serial
<1> QED
  BY <1>1, <1>2 DEF SIInv

\* What a run at work finds: it is alone, and its copy of the record is true.
LEMMA WorkingRun ==
    ASSUME IInv, Serial, NEW r \in Runs, run[r].pc # "idle"
    PROVE  /\ OnlyRun(r) /\ run[r].record = daily
           /\ Unprocessed(run[r].record) \in Nat
           /\ daily.processed + Unprocessed(run[r].record) = daily.total
<1>1. OnlyRun(r) /\ run[r].record = daily
  BY Alone DEF Serial, ReadsAreTrue
<1>2. daily.total \in Nat /\ daily.processed \in Nat /\ daily.processed <= daily.total
  BY RewardTypes DEF IInv, RecordConsistent
<1> QED
  BY <1>1, <1>2 DEF Unprocessed

LEMMA LedgerRepliesSerial ==
    ASSUME IInv, SIInv, NEW r \in Runs, NEW reply \in {"Ok", "Err", "lost"}, LedgerReplies(r, reply)
    PROVE  SIInv'
<1>0. PICK u : u = Unprocessed(run[r].record)
  OBVIOUS
<1>1. /\ UNCHANGED <<active, begun, completed, daily, confirmed, chain>>
      /\ run[r].pc = "send" /\ run[r] \in RunStates
  BY RewardTypes DEF LedgerReplies, redisVars
<1>2. ASSUME ~ disturbed' PROVE Serial'
  <2>1. Serial /\ reply # "lost"
    BY <1>2 DEF SIInv, LedgerReplies
  <2>2. OnlyRun(r) /\ run[r].record = daily /\ u \in Nat /\ daily.processed + u = daily.total
    BY <1>0, <1>1, <2>1, WorkingRun
  <2>3. CASE reply = "Ok"
    <3>1. PICK new : new = [run[r] EXCEPT !.pc = "confirm"]
      OBVIOUS
    <3>2. new.pc = "confirm" /\ new.record = daily
      BY <1>1, <2>2, <3>1 DEF RunStates
    <3>3. run' = [run EXCEPT ![r] = new]
      BY <2>3, <3>1, RewardTypes DEF LedgerReplies, Succeeded, To
    <3>4. /\ OneAtATime' /\ SessionsEndOnce' /\ ~ Storing /\ ~ Storing'
          /\ ~ Paid /\ Paid' /\ ~ Settled /\ ~ Settled' /\ ReadsAreTrue'
      BY <1>1, <2>1, <2>2, <3>2, <3>3, OnlyRunSteps
    <3>5. minted' = minted + u
      BY <1>0, <2>3 DEF LedgerReplies
    <3>6. Books'
      BY <1>1, <2>1, <2>2, <3>4, <3>5 DEF Serial, Books
    <3> QED
      BY <3>4, <3>6 DEF Serial
  <2>4. CASE reply = "Err"
    <3>1. PICK new : new = NoRun
      OBVIOUS
    <3>2. new.pc = "idle" /\ run' = [run EXCEPT ![r] = new] /\ minted' = minted
      BY <2>4, <3>1 DEF LedgerReplies, Succeeded, NoRun
    <3>3. /\ OneAtATime' /\ SessionsEndOnce' /\ ~ Storing /\ ~ Storing'
          /\ ~ Paid /\ ~ Paid' /\ ~ Settled /\ ~ Settled' /\ ReadsAreTrue'
      BY <1>1, <2>1, <2>2, <3>2, OnlyRunSteps
    <3>4. Books'
      BY <1>1, <2>1, <3>2, <3>3 DEF Serial, Books
    <3> QED
      BY <3>3, <3>4 DEF Serial
  <2> QED
    BY <2>1, <2>3, <2>4
<1> QED
  BY <1>1, <1>2 DEF SIInv

LEMMA ConfirmsSerial ==
    ASSUME IInv, SIInv, NEW r \in Runs, Confirms(r)
    PROVE  SIInv'
<1>0. PICK u : u = Unprocessed(run[r].record)
  OBVIOUS
<1>1. /\ UNCHANGED <<active, begun, completed, daily, minted, chain, disturbed>>
      /\ run[r].pc = "confirm" /\ run[r] \in RunStates /\ confirmed' = confirmed + u
  BY <1>0, RewardTypes DEF Confirms
<1>2. ASSUME Serial PROVE Serial'
  <2>1. OnlyRun(r) /\ run[r].record = daily /\ u \in Nat /\ daily.processed + u = daily.total
    BY <1>0, <1>1, <1>2, WorkingRun
  <2>2. PICK one, new : one = [run[r] EXCEPT !.pc = "credit"] /\ new = [one EXCEPT !.reward = uptimeReward]
    OBVIOUS
  <2>3. one.pc = "credit" /\ one.record = daily /\ one \in [DOMAIN run[r] -> {one[x] : x \in DOMAIN run[r]}]
    BY <1>1, <2>1, <2>2 DEF RunStates
  <2>4. new.pc = "credit" /\ new.record = daily
    BY <1>1, <2>2, <2>3 DEF RunStates
  <2>5. run' = [run EXCEPT ![r] = new]
    BY <2>2, RewardTypes DEF Confirms
  <2>6. /\ OneAtATime' /\ SessionsEndOnce' /\ ~ Storing /\ ~ Storing'
        /\ Paid /\ Paid' /\ ~ Settled /\ Settled' /\ ReadsAreTrue'
    BY <1>1, <1>2, <2>1, <2>4, <2>5, OnlyRunSteps
  <2>7. Books'
    BY <1>1, <1>2, <2>1, <2>6 DEF Serial, Books
  <2> QED
    BY <2>6, <2>7 DEF Serial
<1> QED
  BY <1>1, <1>2 DEF SIInv

LEMMA CreditsSerial ==
    ASSUME IInv, SIInv, NEW r \in Runs, Credits(r)
    PROVE  SIInv'
<1>1. /\ UNCHANGED <<active, begun, completed, daily, minted, confirmed, chain, disturbed>>
      /\ run[r].pc = "credit" /\ run[r] \in RunStates
  BY RewardTypes DEF Credits
<1>2. ASSUME Serial PROVE Serial'
  <2>1. OnlyRun(r) /\ run[r].record = daily
    BY <1>1, <1>2, WorkingRun
  <2>2. PICK new : new = [run[r] EXCEPT !.pc = "storeDaily"]
    OBVIOUS
  <2>3. new.pc = "storeDaily" /\ new.record = daily
    BY <1>1, <2>1, <2>2 DEF RunStates
  <2>4. run' = [run EXCEPT ![r] = new]
    BY <2>2, RewardTypes DEF Credits, To
  <2>5. /\ OneAtATime' /\ SessionsEndOnce' /\ ~ Storing /\ ~ Storing'
        /\ Paid /\ Paid' /\ Settled /\ Settled' /\ ReadsAreTrue'
    BY <1>1, <1>2, <2>1, <2>3, <2>4, OnlyRunSteps
  <2>6. Books'
    BY <1>1, <1>2, <2>5 DEF Serial, Books
  <2> QED
    BY <2>5, <2>6 DEF Serial
<1> QED
  BY <1>1, <1>2 DEF SIInv

LEMMA StoresProcessedSerial ==
    ASSUME IInv, SIInv, NEW r \in Runs, StoresProcessed(r)
    PROVE  SIInv'
<1>1. /\ UNCHANGED <<active, begun, completed, minted, confirmed, chain, disturbed>>
      /\ run[r].pc = "storeDaily" /\ daily' = Processed(run[r].record)
  BY DEF StoresProcessed
<1>2. ASSUME Serial PROVE Serial'
  <2>1. OnlyRun(r) /\ run[r].record = daily
    BY <1>1, <1>2, WorkingRun
  <2>2. PICK new : new = NoRun
    OBVIOUS
  <2>3. new.pc = "idle" /\ run' = [run EXCEPT ![r] = new]
    BY <2>2 DEF NoRun, StoresProcessed
  <2>4. /\ OneAtATime' /\ SessionsEndOnce' /\ ~ Storing /\ ~ Storing'
        /\ Paid /\ ~ Paid' /\ Settled /\ ~ Settled' /\ ReadsAreTrue'
    BY <1>1, <1>2, <2>1, <2>3, OnlyRunSteps
  <2>5. daily'.total = daily.total /\ daily'.processed = daily.total
    BY <1>1, <2>1, RewardTypes DEF Processed, Records
  <2>6. Books'
    BY <1>1, <1>2, <2>4, <2>5 DEF Serial, Books
  <2> QED
    BY <2>4, <2>6 DEF Serial
<1> QED
  BY <1>1, <1>2 DEF SIInv
-----------------------------------------------------------------------------
LEMMA InitSerial == Init => SIInv
<1> SUFFICES ASSUME Init PROVE SIInv
  OBVIOUS
<1>1. /\ \A c \in Chains : chain[c].pc = "idle"
      /\ \A r \in Runs : run[r].pc = "idle"
      /\ \A s \in Sockets : chain[Register(s)].pc = "idle"
  BY Constants DEF Init, Idle, NoRun
<1>2. IsFiniteSet(completed) /\ Cardinality(completed) = 0
  BY FS_EmptySet DEF Init
<1>3. OneAtATime /\ ReadsAreTrue /\ SessionsEndOnce
  BY <1>1 DEF OneAtATime, AtWork, ReadsAreTrue, SessionsEndOnce, Init
<1>4. ~ Storing /\ ~ Paid /\ ~ Settled
  BY <1>1 DEF Storing, Paid, Settled
<1>5. Books
  BY <1>2, <1>4 DEF Books, Init, NoMinutes
<1> QED
  BY <1>2, <1>3, <1>5 DEF SIInv, Serial

LEMMA SerialUnmoved ==
    ASSUME SIInv,
           UNCHANGED <<active, begun, completed, daily, confirmed, minted, chain, run, disturbed>>
    PROVE  SIInv'
BY DEF SIInv, Serial, OneAtATime, AtWork, ReadsAreTrue, SessionsEndOnce, Books, Storing, Paid, Settled

LEMMA NextSerial ==
    ASSUME IInv, SIInv, [Next]_vars
    PROVE  SIInv'
<1>1. ASSUME NEW s \in Sockets, Connects(s) \/ Registers(s) \/ MessageArrives(s)
      PROVE  SIInv'
  <2>1. CASE Connects(s)
    BY <2>1, SerialUnmoved DEF Connects, redisVars
  <2>2. CASE Registers(s)
    BY <2>2, RegistersSerial
  <2>3. CASE MessageArrives(s)
    <3>1. Message(s) \in Chains /\ \A q \in Sockets : Message(s) # Register(q)
      BY Constants DEF Message, Register
    <3> QED
      BY <2>3, <3>1, OthersBeginSerial DEF MessageArrives, redisVars
  <2> QED
    BY <1>1, <2>1, <2>2, <2>3
<1>2. ASSUME NEW s \in Sockets, NEW c \in Chains, c \in {Error(s), Close(s)}, Disconnects(c)
      PROVE  SIInv'
  <2>1. \A q \in Sockets : c # Register(q)
    BY <1>2 DEF Error, Close, Register
  <2> QED
    BY <1>2, <2>1, OthersBeginSerial DEF Disconnects, redisVars
<1>3. ASSUME NEW c \in Chains, ChainStep(c) PROVE SIInv'
  BY <1>3, ReadsActiveSerial, ExtendsSerial, CompletesSerial, ReadsDailySerial, StoresDailySerial
     DEF ChainStep
<1>4. ASSUME NEW r \in Runs, RunStep(r) PROVE SIInv'
  BY <1>4, RunReadsSerial, LedgerRepliesSerial, ConfirmsSerial, CreditsSerial, StoresProcessedSerial
     DEF RunStep
<1>5. CASE Restart
  BY <1>5 DEF Restart, SIInv, redisVars
<1>6. CASE UNCHANGED vars
  BY <1>6, SerialUnmoved DEF vars, redisVars
<1> QED
  BY <1>1, <1>2, <1>3, <1>4, <1>5, <1>6 DEF Next

\* As long as uptime chains and distribution runs follow each other and nothing
\* fails, each completed session is in the daily record once, and exactly the
\* minutes it says are processed were paid and CONFIRMED.
THEOREM BooksBalance == Spec => []ExactWhenSerial
<1>1. SIInv => ExactWhenSerial
  <2> SUFFICES ASSUME SIInv, ~ disturbed, ~ Working
               PROVE  /\ daily.total = Cardinality(completed)
                      /\ daily.processed = confirmed /\ confirmed = minted
    BY DEF ExactWhenSerial
  <2>1. Books
    BY DEF SIInv, Serial
  <2>2. ~ Storing /\ ~ Paid /\ ~ Settled
    BY DEF Working, Storing, Paid, Settled
  <2> QED
    BY <2>1, <2>2 DEF Books
<1> QED
  BY <1>1, InitSerial, NextSerial, Invariant, PTL DEF Spec
=============================================================================
