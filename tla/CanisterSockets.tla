--------------------------- MODULE CanisterSockets ---------------------------
(***************************************************************************)
(* Messages from the node canister to its clients, through the gateway.    *)
(* The canister numbers a message, certifies it and appends it to a list,  *)
(* and a gateway polls the list from the key after the last it was given.  *)
(*                                                                         *)
(* Sending awaits calls of the canister to itself.  The platform runs      *)
(* these in the order they were made; their replies may come in any.       *)
(*                                                                         *)
(* Clients are numbered in the order they registered, contents, signatures *)
(* and the certificate itself are left out.  Every caller of a shared      *)
(* function called by the canister itself is the canister: all gateways    *)
(* have one list.                                                          *)
(***************************************************************************)
EXTENDS Naturals, Sequences, SequencesExt

CONSTANTS
    CsClients,      \* client ids
    CsCalls,        \* sends in progress at a time
    CsReturned,     \* MAX_NUMBER_OF_RETURNED_MESSAGES
    CsMaxKeys,      \* bound on messages
    CsRestarts      \* bound on restarts of the gateway

ASSUME CsAssumption ==
    {CsReturned, CsMaxKeys, CsRestarts} \subseteq Nat /\ CsReturned > 0

VARIABLES
    csKeyed,        \* clientPublicKeyMap
    csGateway,      \* clientGatewayMap
    csNum,          \* clientMessageNumMap, 0 for none (numbers are one more)
    csNonce,        \* nextMessageNonce
    csExpiry,       \* keys in MESSAGE_DELETE_QUEUE
    csCert,         \* keys in CERT_TREE
    csList,         \* GATEWAY_MESSAGES_MAP of the one gateway
    csCall,         \* sends in progress
    csInbox,        \* sends whose request to the canister itself waits to run
    gwMap,          \* canister_client_session_map
    gwAlive,        \* clients with an open socket
    gwNonce,        \* the poller's nonce
    gwReply,        \* messages of the poll being handed on
    gwRestarts,
    csReordered,    \* history: a message was appended after a later one
    csDeleted,      \* history: clients deleted once
    gwHanded,       \* history: keys handed on since the gateway started
    gwDisordered    \* history: a key was handed on after it or a later one

csState == <<csKeyed, csGateway, csNum, csNonce, csExpiry, csCert, csList, csCall, csInbox>>
gwState == <<gwMap, gwAlive, gwNonce, gwReply, gwRestarts>>
csHistory == <<csReordered, csDeleted, gwHanded, gwDisordered>>
csVars == <<csState, gwState, csHistory>>

NoSend == [pc |-> "none", client |-> 0, key |-> 0, num |-> 0]

Keys(s) == {s[i].key : i \in DOMAIN s}

(***************************************************************************)
(* Clients come and go.                                                    *)
(***************************************************************************)
WsRegister(c) ==
    /\ csKeyed' = csKeyed \cup {c}
    /\ UNCHANGED <<csGateway, csNum, csNonce, csExpiry, csCert, csList, csCall, csInbox,
                   gwState, csHistory>>

\* send_message_from_canister up to its first await.
Sends(k, c) ==
    /\ csCall[k] = NoSend
    /\ csCall' = [csCall EXCEPT ![k] = [@ EXCEPT !.pc = "gateway", !.client = c]]

\* A socket's first frame.  A socket whose session number is a saved client's
\* is taken for that client and never opened: no step here.
Connects(c) ==
    /\ gwMap' = gwMap \cup {c}
    /\ gwAlive' = gwAlive \cup {c}

WsOpen(k, c) ==
    /\ c \in csKeyed
    /\ Connects(c)
    /\ csGateway' = csGateway \cup {c}
    /\ Sends(k, c)
    /\ UNCHANGED <<csKeyed, csNum, csNonce, csExpiry, csCert, csList, csInbox,
                   gwNonce, gwReply, gwRestarts, csHistory>>

\* A frame is answered, or a job is sent on behalf of the RPC canister.
Answers(k, c) ==
    /\ c \in csKeyed
    /\ Sends(k, c)
    /\ UNCHANGED <<csKeyed, csGateway, csNum, csNonce, csExpiry, csCert, csList, csInbox,
                   gwState, csHistory>>

\* The canister forgets a client when the database did.
DeleteClient(c) ==
    /\ csKeyed' = csKeyed \ {c}
    /\ csGateway' = csGateway \ {c}
    /\ csNum' = [csNum EXCEPT ![c] = 0]
    /\ csDeleted' = csDeleted \cup {c}

WsClose(c) ==
    /\ c \in gwAlive
    /\ gwAlive' = gwAlive \ {c}
    /\ DeleteClient(c) \/ UNCHANGED <<csKeyed, csGateway, csNum, csDeleted>>
    /\ UNCHANGED <<csNonce, csExpiry, csCert, csList, csCall, csInbox,
                   gwMap, gwNonce, gwReply, gwRestarts, csReordered, gwHanded, gwDisordered>>

(***************************************************************************)
(* One send.                                                               *)
(***************************************************************************)
\* Expired entries are the oldest, and their sends ended long ago.
Expirable == {x \in SUBSET csExpiry :
    /\ \A n \in x : \A m \in csExpiry \ x : n < m
    /\ \A k \in CsCalls : csCall[k].key \notin x}

\* delete_message takes the first message off, whichever has the key.  (Mutant
\* first: it takes off none.)
Remaining_All(x) == csList
Remaining(x) == SubSeq(csList, Min({Cardinality(x), Len(csList)}) + 1, Len(csList))
Uncertified(x) == csCert \ x

Queues(k) == csInbox' = Append(csInbox, k)

Keyed(k) ==
    /\ csCall[k].pc = "gateway"
    /\ IF csCall[k].client \in csGateway
       THEN /\ csNonce < CsMaxKeys
            /\ csNonce' = csNonce + 1
            /\ \E x \in Expirable :
                  /\ csExpiry' = (csExpiry \ x) \cup {csNonce'}
                  /\ csList' = Remaining(x)
                  /\ csCert' = Uncertified(x)
            /\ csCall' = [csCall EXCEPT ![k] = [@ EXCEPT !.pc = "num", !.key = csNonce']]
            /\ Queues(k)
       ELSE /\ csCall' = [csCall EXCEPT ![k] = NoSend]
            /\ UNCHANGED <<csNonce, csExpiry, csCert, csList, csInbox>>
    /\ UNCHANGED <<csKeyed, csGateway, csNum, gwState, csHistory>>

\* (Mutant first: the number is not stored.)
Counted_Unstored(c) == csNum
Counted(c) == [csNum EXCEPT ![c] = @ + 1]

\* The request at the head of the inbox runs.
NextClientMessageNum ==
    /\ csInbox # <<>> /\ csCall[Head(csInbox)].pc = "num"
    /\ LET k == Head(csInbox) c == csCall[k].client IN
          /\ csNum' = Counted(c)
          /\ csCall' = [csCall EXCEPT ![k] = [@ EXCEPT !.pc = "numbered", !.num = csNum'[c]]]
    /\ csInbox' = Tail(csInbox)
    /\ UNCHANGED <<csKeyed, csGateway, csNonce, csExpiry, csCert, csList,
                   gwState, csHistory>>

Numbered(k) ==
    /\ csCall[k].pc = "numbered"
    /\ csCall' = [csCall EXCEPT ![k].pc = "cert"]
    /\ Queues(k)
    /\ UNCHANGED <<csKeyed, csGateway, csNum, csNonce, csExpiry, csCert, csList,
                   gwState, csHistory>>

PutCertForMessage ==
    /\ csInbox # <<>> /\ csCall[Head(csInbox)].pc = "cert"
    /\ LET k == Head(csInbox) IN
          /\ csCert' = csCert \cup {csCall[k].key}
          /\ csCall' = [csCall EXCEPT ![k].pc = "certified"]
    /\ csInbox' = Tail(csInbox)
    /\ UNCHANGED <<csKeyed, csGateway, csNum, csNonce, csExpiry, csList,
                   gwState, csHistory>>

Certified(k) ==
    LET m == [key |-> csCall[k].key, client |-> csCall[k].client, num |-> csCall[k].num] IN
    /\ csCall[k].pc = "certified"
    /\ csList' = Append(csList, m)
    /\ csReordered' = (csReordered \/ \E n \in Keys(csList) : n > m.key)
    /\ csCall' = [csCall EXCEPT ![k] = NoSend]
    /\ UNCHANGED <<csKeyed, csGateway, csNum, csNonce, csExpiry, csCert, csInbox,
                   gwState, csDeleted, gwHanded, gwDisordered>>

(***************************************************************************)
(* The gateway's poller, which starts with its first client.               *)
(***************************************************************************)
Before(nonce) == Cardinality({i \in DOMAIN csList : csList[i].key < nonce})

WsGetMessages ==
    /\ gwMap # {} /\ gwReply = <<>>
    /\ gwReply' = SubSeq(csList, Before(gwNonce) + 1, Min({Before(gwNonce) + CsReturned, Len(csList)}))
    /\ UNCHANGED <<csState, gwMap, gwAlive, gwNonce, gwRestarts, csHistory>>

\* (Mutant first: the key itself, and the message is given again.)
NextNonce_Same(key) == key
NextNonce(key) == key + 1

\* A message to a client without a live socket is dropped, and counted on.
Hands ==
    /\ gwReply # <<>>
    /\ gwHanded' = gwHanded \cup {Head(gwReply).key}
    /\ gwDisordered' = (gwDisordered \/ \E n \in gwHanded : n >= Head(gwReply).key)
    /\ gwNonce' = NextNonce(Head(gwReply).key)
    /\ gwReply' = Tail(gwReply)
    /\ UNCHANGED <<csState, gwMap, gwAlive, gwRestarts, csReordered, csDeleted>>

GatewayRestarts ==
    /\ gwRestarts < CsRestarts
    /\ gwRestarts' = gwRestarts + 1
    /\ gwMap' = {} /\ gwAlive' = {} /\ gwNonce' = 0 /\ gwReply' = <<>>
    /\ gwHanded' = {} /\ gwDisordered' = FALSE
    /\ UNCHANGED <<csState, csReordered, csDeleted>>

CsInit ==
    /\ csKeyed = {} /\ csGateway = {} /\ csNum = [c \in CsClients |-> 0]
    /\ csNonce = 0 /\ csExpiry = {} /\ csCert = {} /\ csList = <<>>
    /\ csCall = [k \in CsCalls |-> NoSend] /\ csInbox = <<>>
    /\ gwMap = {} /\ gwAlive = {} /\ gwNonce = 0 /\ gwReply = <<>> /\ gwRestarts = 0
    /\ csReordered = FALSE /\ csDeleted = {} /\ gwHanded = {} /\ gwDisordered = FALSE

CsNext ==
    \/ \E c \in CsClients : (c \notin csDeleted /\ WsRegister(c)) \/ WsClose(c)
    \/ \E k \in CsCalls, c \in CsClients : WsOpen(k, c) \/ Answers(k, c)
    \/ \E k \in CsCalls : Keyed(k) \/ Numbered(k) \/ Certified(k)
    \/ NextClientMessageNum \/ PutCertForMessage
    \/ WsGetMessages \/ Hands \/ GatewayRestarts

CsSpec == CsInit /\ [][CsNext]_csVars

(***************************************************************************)
(* Properties.                                                             *)
(***************************************************************************)
\* Of two messages to a client, the one with the later key has the later
\* number, in whatever order the sends that overlap get their replies.
NumbersFollowKeys ==
    \A i, j \in DOMAIN csList :
        (csList[i].client = csList[j].client /\ csList[i].client \notin csDeleted
            /\ csList[i].key < csList[j].key) => csList[i].num < csList[j].num

\* Every message in the list can be certified, although expired messages are
\* taken off the list's front and their certificates by key; as long as
\* messages were appended in the order of their keys.
ListedIsCertified == csReordered \/ Keys(csList) \subseteq csCert

\* The poller is given every key once, in order, and passes over none that
\* was in the list; as long as messages were appended in order.
PolledOnce ==
    csReordered \/
        /\ ~gwDisordered
        /\ \A n \in Keys(csList) :
              n >= gwNonce \/ n \in gwHanded
=============================================================================
