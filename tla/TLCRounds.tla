----------------------------- MODULE TLCRounds ------------------------------
(***************************************************************************)
(* Rounds of threshold logical clocks: gossip with confirmation, acks and  *)
(* the confirmations of a majority that move a gossiper to its next round  *)
(* (gossiper/tlc.go, blockchainhandler.go, mainhandler.go with hw3ex3).    *)
(*                                                                         *)
(* Of gossiping this module keeps what module Gossip shows: a message that *)
(* a node has stored can reach every other node at any later time, again   *)
(* and again or never.  processTLCMessage hands it to two goroutines, one  *)
(* stores it and one puts it in the queue of handleTLCMessage; each is slow*)
(* at will and a message may be received again, so that neither the network*)
(* nor the queue needs a variable of its own.  Acks are never removed: the *)
(* routed packets are delayed, duplicated and lost.  Ids are taken one at a*)
(* time: module Gossip has the case where they are not.                    *)
(***************************************************************************)
EXTENDS Integers, FiniteSets

CONSTANTS
  Node,       \* gossipers; peersData.Size is their number
  AckAll,     \* ackAllMode: also acknowledge messages of earlier rounds
  MaxBlocks,  \* bound: blocks published by the client of each node
  Repeated    \* bound: whether an accepted confirmation is handled again

ASSUME RoundsAssumption ==
  /\ IsFiniteSet(Node)
  /\ AckAll \in BOOLEAN
  /\ MaxBlocks \in [Node -> Nat]
  /\ Repeated \in BOOLEAN

VARIABLES
  seqID,          \* next id of each node
  stored,         \* TLC messages in the gossip storage of each node
  clientBlock,    \* ids of own blocks waiting in packetChannels["clientBlock"]
  round,          \* the goroutine of processClientBlocks
  myTime,         \* round of each node
  confirmations,  \* confirmations kept, with round and origin
  tlcStatus,      \* per origin, the ids whose confirmation was accepted
  saving,         \* saveConfirmation between its test and its write
  tlcConfirm,     \* a notification is waiting in tlcConfirmChan
  acks            \* acks sent

vars == <<seqID, stored, clientBlock, round, myTime, confirmations, tlcStatus,
          saving, tlcConfirm, acks>>

ID == Nat \ {0}
NotConfirmed == -1      \* the Confirmed field of a message that asks for acks
VectorClock == [Node -> ID]
TLCMessage ==
  [origin : Node, id : ID, confirmed : {NotConfirmed}] \cup
  [origin : Node, id : ID, confirmed : ID, vc : VectorClock]
Confirmation == [round : Nat, origin : Node, confirmed : ID]
RoundState ==
  [pc : {"idle"}] \cup
  [pc : {"waiting"}, id : ID, witnesses : SUBSET Node, delivered : BOOLEAN]
Ack == [from : Node, to : Node, id : ID]

\* Variant: half of the nodes is enough.
AtLeastHalf(S) == Cardinality(S) >= Cardinality(Node) \div 2

\* More than half of peersData.Size.
Majority(S) == Cardinality(S) > Cardinality(Node) \div 2

-----------------------------------------------------------------------------
(***************************************************************************)
(* Reading the state.                                                      *)
(***************************************************************************)

Held(S, o) == {m.id : m \in {x \in S : x.origin = o}}

\* Variant: the largest known id of every origin.
ClockOfKnown(S) ==
  [o \in Node |-> Cardinality({i \in Held(S, o) : 1 .. i \subseteq Held(S, o)})]

\* The least unknown id of every origin (module Gossip: StatusIsLeastUnknown):
\* one more than the number of ids that are held with all the smaller ones.
Clock(S) ==
  [o \in Node |-> 1 + Cardinality({i \in Held(S, o) : 1 .. i \subseteq Held(S, o)})]

\* checkIfINeedPeerStatus: the peer's clock is ahead somewhere.
checkIfINeedPeerStatus(mine, theirs) == \E o \in Node : theirs[o] > mine[o]

\* getMessageOriginalRound: confirmations of the origin accepted so far for
\* ids before the one that the message introduces or confirms.
getMessageOriginalRound(ids, i) == Cardinality({k \in ids : k < i})

RoundOf(n, m) ==
  getMessageOriginalRound(tlcStatus[n][m.origin],
                          IF m.confirmed = NotConfirmed THEN m.id ELSE m.confirmed)

\* checkForCausalProperty for a confirmation: n has every message that its
\* origin had when it sent it.
checkForCausalProperty(n, m) == ~checkIfINeedPeerStatus(Clock(stored[n]), m.vc)

\* Variant: who confirmed in an earlier round counts too.
ConfirmedUpTo(n, r) == {c.origin : c \in {x \in confirmations[n] : x.round <= r}}

\* Who confirmed in round r, as far as n knows.
Confirmed(n, r) == {c.origin : c \in {x \in confirmations[n] : x.round = r}}

\* tlcMap.OriginMessage[origin] = tlc: a later confirmation replaces.
Put(C, c) == {x \in C : ~(x.round = c.round /\ x.origin = c.origin)} \cup {c}

-----------------------------------------------------------------------------
Init ==
  /\ seqID = [n \in Node |-> 1]
  /\ stored = [n \in Node |-> {}]
  /\ clientBlock = [n \in Node |-> {}]
  /\ round = [n \in Node |-> [pc |-> "idle"]]
  /\ myTime = [n \in Node |-> 0]
  /\ confirmations = [n \in Node |-> {}]
  /\ tlcStatus = [n \in Node |-> [o \in Node |-> {}]]
  /\ saving = [n \in Node |-> {}]
  /\ tlcConfirm = [n \in Node |-> FALSE]
  /\ acks = {}

-----------------------------------------------------------------------------
(***************************************************************************)
(* A node's own messages and its rounds.                                   *)
(***************************************************************************)

\* createAndPublishTxBlock for a new block of the client of n.
Publish(n) ==
  /\ Cardinality({m \in stored[n] : m.origin = n /\ m.confirmed = NotConfirmed})
       < MaxBlocks[n]
  /\ stored' = [stored EXCEPT ![n] = @ \cup
       {[origin |-> n, id |-> seqID[n], confirmed |-> NotConfirmed]}]
  /\ clientBlock' = [clientBlock EXCEPT ![n] = @ \cup {seqID[n]}]
  /\ seqID' = [seqID EXCEPT ![n] = @ + 1]
  /\ UNCHANGED <<round, myTime, confirmations, tlcStatus, saving, tlcConfirm, acks>>

\* createTLCMessage for the confirmation of block i.
Confirm(n, i) ==
  /\ stored' = [stored EXCEPT ![n] = @ \cup
       {[origin |-> n, id |-> seqID[n], confirmed |-> i, vc |-> Clock(stored[n])]}]
  /\ seqID' = [seqID EXCEPT ![n] = @ + 1]

\* checkForConfirmationsMajority has counted a majority: the next round, and
\* the confirmation of block i unless it was sent before.
Advance(n, i, delivered) ==
  /\ myTime' = [myTime EXCEPT ![n] = @ + 1]
  /\ round' = [round EXCEPT ![n] = [pc |-> "idle"]]
  /\ IF delivered THEN UNCHANGED <<stored, seqID>> ELSE Confirm(n, i)

Wait(n, i) ==
  /\ round' = [round EXCEPT ![n] =
       [pc |-> "waiting", id |-> i, witnesses |-> {n}, delivered |-> FALSE]]
  /\ UNCHANGED <<myTime, stored, seqID>>

\* tlcRound for a block: gossipWithConfirmation up to its loop.  Goroutines
\* put the blocks in the channel, so they may be taken in any order.
StartRound(n, i) ==
  /\ round[n].pc = "idle" /\ i \in clientBlock[n]
  /\ clientBlock' = [clientBlock EXCEPT ![n] = @ \ {i}]
  /\ IF Majority(Confirmed(n, myTime[n])) THEN Advance(n, i, FALSE) ELSE Wait(n, i)
  /\ UNCHANGED <<confirmations, tlcStatus, saving, tlcConfirm, acks>>

\* Variant: acks go on being counted after the confirmation was sent.
ReceiveAckAgain(n, k) ==
  /\ k \in acks /\ k.to = n /\ round[n].pc = "waiting" /\ k.id = round[n].id
  /\ LET W == round[n].witnesses \cup {k.from} IN
     /\ round' = [round EXCEPT ![n] =
          [pc |-> "waiting", id |-> k.id, witnesses |-> W, delivered |-> Majority(W)]]
     /\ IF Majority(W)
        THEN /\ Confirm(n, k.id)
             /\ confirmations' = [confirmations EXCEPT ![n] = Put(@,
                  [round |-> myTime[n], origin |-> n, confirmed |-> k.id])]
             /\ tlcConfirm' = [tlcConfirm EXCEPT ![n] = TRUE]
        ELSE UNCHANGED <<stored, seqID, confirmations, tlcConfirm>>
  /\ UNCHANGED <<clientBlock, myTime, tlcStatus, saving, acks>>

\* Ack k for the current block; with a majority of witnesses the block is
\* confirmed, which this node counts itself.
ReceiveAck(n, k) ==
  /\ k \in acks /\ k.to = n
  /\ round[n].pc = "waiting" /\ k.id = round[n].id /\ ~round[n].delivered
  /\ LET W == round[n].witnesses \cup {k.from} IN
     /\ round' = [round EXCEPT ![n] =
          [pc |-> "waiting", id |-> k.id, witnesses |-> W, delivered |-> Majority(W)]]
     /\ IF Majority(W)
        THEN /\ Confirm(n, k.id)
             /\ confirmations' = [confirmations EXCEPT ![n] = Put(@,
                  [round |-> myTime[n], origin |-> n, confirmed |-> k.id])]
             /\ tlcConfirm' = [tlcConfirm EXCEPT ![n] = TRUE]
        ELSE UNCHANGED <<stored, seqID, confirmations, tlcConfirm>>
  /\ UNCHANGED <<clientBlock, myTime, tlcStatus, saving, acks>>

\* A notification from tlcConfirmChan.
ReceiveConfirm(n) ==
  /\ round[n].pc = "waiting" /\ tlcConfirm[n]
  /\ tlcConfirm' = [tlcConfirm EXCEPT ![n] = FALSE]
  /\ IF Majority(Confirmed(n, myTime[n]))
     THEN Advance(n, round[n].id, round[n].delivered)
     ELSE UNCHANGED <<myTime, round, stored, seqID>>
  /\ UNCHANGED <<clientBlock, confirmations, tlcStatus, saving, acks>>

-----------------------------------------------------------------------------
(***************************************************************************)
(* Messages of other nodes.                                                *)
(***************************************************************************)

\* What node n may have received by now, from whichever node.
Received(n) == {m \in UNION {stored[s] : s \in Node} : m.origin # n}

\* handleGossipMessage stores the message.
Store(n, m) ==
  /\ m \in Received(n)
  /\ stored' = [stored EXCEPT ![n] = @ \cup {m}]
  /\ UNCHANGED <<seqID, clientBlock, round, myTime, confirmations, tlcStatus,
                 saving, tlcConfirm, acks>>

\* handleTLCMessage, a message that asks for an ack.
HandleUnconfirmed(n, m) ==
  /\ saving[n] = {} /\ m \in Received(n) /\ m.confirmed = NotConfirmed
  /\ acks' = acks \cup
       IF AckAll \/ RoundOf(n, m) >= myTime[n]
       THEN {[from |-> n, to |-> m.origin, id |-> m.id]} ELSE {}
  /\ UNCHANGED <<seqID, stored, clientBlock, round, myTime, confirmations,
                 tlcStatus, saving, tlcConfirm>>

\* handleTLCMessage, a confirmation, up to the test in saveConfirmation.  If
\* the clock of the message is ahead it stays queued: it is queued again
\* after a timeout.  A round that is over is not saved, only notified.
HandleConfirmed(n, m) ==
  /\ saving[n] = {} /\ m \in Received(n) /\ m.confirmed # NotConfirmed
  /\ Repeated \/ m.confirmed \notin tlcStatus[n][m.origin]
  /\ checkForCausalProperty(n, m)
  /\ tlcStatus' = [tlcStatus EXCEPT ![n][m.origin] = @ \cup {m.confirmed}]
  /\ IF RoundOf(n, m) >= myTime[n]
     THEN /\ saving' = [saving EXCEPT ![n] = {[round |-> RoundOf(n, m),
                        origin |-> m.origin, confirmed |-> m.confirmed]}]
          /\ UNCHANGED tlcConfirm
     ELSE /\ tlcConfirm' = [tlcConfirm EXCEPT ![n] = TRUE]
          /\ UNCHANGED saving
  /\ UNCHANGED <<seqID, stored, clientBlock, round, myTime, confirmations,
                 acks>>

\* Variant: the waiting goroutine is not notified.
SaveQuietly(n, c) ==
  /\ c \in saving[n]
  /\ confirmations' = [confirmations EXCEPT ![n] = Put(@, c)]
  /\ saving' = [saving EXCEPT ![n] = {}]
  /\ UNCHANGED <<seqID, stored, clientBlock, round, myTime, tlcStatus,
                 tlcConfirm, acks>>

\* saveConfirmation writes the map, then the goroutine in a round is notified.
SaveConfirmation(n, c) ==
  /\ c \in saving[n]
  /\ confirmations' = [confirmations EXCEPT ![n] = Put(@, c)]
  /\ saving' = [saving EXCEPT ![n] = {}]
  /\ tlcConfirm' = [tlcConfirm EXCEPT ![n] = TRUE]
  /\ UNCHANGED <<seqID, stored, clientBlock, round, myTime, tlcStatus, acks>>

-----------------------------------------------------------------------------
Next ==
  \E n \in Node :
    \/ Publish(n)
    \/ \E i \in clientBlock[n] : StartRound(n, i)
    \/ \E k \in acks : ReceiveAck(n, k)
    \/ ReceiveConfirm(n)
    \/ \E m \in Received(n) :
         Store(n, m) \/ HandleUnconfirmed(n, m) \/ HandleConfirmed(n, m)
    \/ \E c \in saving[n] : SaveConfirmation(n, c)

Spec == Init /\ [][Next]_vars

-----------------------------------------------------------------------------
TypeOK ==
  /\ seqID \in [Node -> ID]
  /\ stored \in [Node -> SUBSET TLCMessage]
  /\ clientBlock \in [Node -> SUBSET ID]
  /\ round \in [Node -> RoundState]
  /\ myTime \in [Node -> Nat]
  /\ confirmations \in [Node -> SUBSET Confirmation]
  /\ tlcStatus \in [Node -> [Node -> SUBSET ID]]
  /\ saving \in [Node -> SUBSET Confirmation]
  /\ tlcConfirm \in [Node -> BOOLEAN]
  /\ acks \subseteq Ack

\* The confirmations of n among the messages S, and the blocks they confirm.
Confirming(S, n) == {m \in S : m.origin = n /\ m.confirmed # NotConfirmed}
BlocksOf(S, n) == {m.confirmed : m \in Confirming(S, n)}
ConfirmedBlocks(n) == BlocksOf(stored[n], n)

\* Rounds move together: a node enters round r only after more than half of
\* the nodes, itself or not, have sent r confirmations, in whatever order
\* messages, retries and blocks were handled on the way.
MajorityConfirmed ==
  \A n \in Node : myTime[n] > 0 =>
    2 * Cardinality({o \in Node : Cardinality(ConfirmedBlocks(o)) >= myTime[n]})
      > Cardinality(Node)

\* n has sent no two confirmations of the same block.
EachOnce(S, n) == \A x, y \in Confirming(S, n) : x.confirmed = y.confirmed => x = y

\* Every round confirms one block, once: no block is confirmed a second time
\* by late acks or by the end of the round, as many blocks are confirmed as
\* there are rounds over, and one more when the current one's confirmation is
\* sent.
OneConfirmationPerRound ==
  \A n \in Node :
    /\ EachOnce(stored[n], n)
    /\ Cardinality(ConfirmedBlocks(n)) =
         myTime[n] + (IF round[n].pc = "waiting" /\ round[n].delivered THEN 1 ELSE 0)

\* The rounds of the nodes and how many blocks they have confirmed are a
\* threshold logical clock, however acks, confirmations and blocks interleave.
Threshold == INSTANCE ThresholdClock WITH
  clock <- myTime, sent <- [n \in Node |-> Cardinality(ConfirmedBlocks(n))]
ImplementsClock == Threshold!Spec

\* A goroutine waiting in a round that has its majority of confirmations has
\* a notification to wake it: none is lost between the first test, the tests
\* in the loop and the confirmations saved early for a round to come.
NoLostWakeup ==
  \A n \in Node :
    round[n].pc = "waiting" /\ Majority(Confirmed(n, myTime[n])) => tlcConfirm[n]
=============================================================================
