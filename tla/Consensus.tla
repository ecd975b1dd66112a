------------------------------ MODULE Consensus ------------------------------
(***************************************************************************)
(* Que sera consensus: three rounds of threshold logical clocks to agree   *)
(* on the next block of files (gossiper/qsc.go, with the rounds of tlc.go  *)
(* and handleTLCMessage of blockchainhandler.go as hw3ex4 runs them).      *)
(*                                                                         *)
(* Of the rounds this module keeps what module TLCRounds shows.  A message *)
(* can reach every node at any later time, again and again or never; a     *)
(* confirmation waits in the queue until its vector clock is reached, which*)
(* is one more such delay; a goroutine with its majority is woken.  The ids*)
(* of a node's messages count the messages that ask for acks only: their   *)
(* order is what getMessageOriginalRound looks at.                         *)
(*                                                                         *)
(* A block is its hash, and its hash is the sequence of the names of the   *)
(* files in the blocks from the first one up to it.                        *)
(***************************************************************************)
EXTENDS Naturals, Sequences, FiniteSets

CONSTANTS
  Node,      \* gossipers; peersData.Size is their number
  Name,      \* names of files
  NoName,    \* the name in the block of the empty message
  Files,     \* Files[n]: the names of the files the client of n indexes, in order
  Fitness,   \* Fitness[n]: per file, what rand.Float32 may return; only the order counts
  Hears,     \* Hears[n]: the nodes whose messages n gets
  AckAll,    \* ackAllMode: also acknowledge messages of earlier rounds
  Repeated   \* bound: whether a message that was handled is handled again

ASSUME ConsensusAssumption ==
  /\ IsFiniteSet(Node)
  /\ NoName \notin Name
  /\ Files \in [Node -> Seq(Name)]
  /\ Fitness \in [Node -> Seq(SUBSET Nat)]
  /\ \A n \in Node : Len(Fitness[n]) = Len(Files[n])
  /\ Hears \in [Node -> SUBSET Node]
  /\ AckAll \in BOOLEAN
  /\ Repeated \in BOOLEAN

VARIABLES
  indexed,           \* how many files of each client were published
  tlc,               \* the messages of each node that ask for acks
  confirmed,         \* ids of the messages a node has confirmed
  acks,              \* acks sent
  clientBlock,       \* ids of blocks waiting in packetChannels["clientBlock"]
  qsc,               \* the goroutine of processClientBlocks, in qscRound
  myTime,            \* round of each node
  tlcStatus,         \* per origin, the ids whose confirmation was accepted
  acking,            \* a message between the tests of handleTLCMessage and its ack
  saving,            \* saveConfirmation between its test and its write
  confirmations,     \* confirmations kept, with round and origin
  messageSeen,       \* messages acknowledged, with round and origin
  committedHistory,  \* blocks committed
  topBlockchainHash, \* the last one committed
  previousBlockHash  \* the one that the next block of the client follows

chain == <<committedHistory, topBlockchainHash, previousBlockHash>>
kept == <<tlcStatus, acking, saving, confirmations, messageSeen>>
vars == <<indexed, tlc, confirmed, acks, clientBlock, qsc, myTime, kept, chain>>

Block == Seq(Name \cup {NoName}) \ {<<>>}
Hash == Seq(Name \cup {NoName})     \* <<>> is the hash of no block
Message == [block : Block, fitness : Nat]
ID == Nat \ {0}
Saved == [round : Nat, origin : Node, id : ID]
Ack == [from : Node, to : Node, id : ID]
\* step is 0, 1 or 2 in round s, s + 1 and s + 2.
QSCRound ==
  [pc : {"idle", "crashed"}] \cup
  [pc : {"start"}, step : 0 .. 2, id : ID] \cup
  [pc : {"wait"}, step : 0 .. 2, id : ID, delivered : BOOLEAN]

\* More than half of peersData.Size.
Majority(S) == Cardinality(S) > Cardinality(Node) \div 2

-----------------------------------------------------------------------------
(* Reading the state. *)

getMessageOriginalRound(ids, i) == Cardinality({k \in ids : k < i})
RoundOf(n, o, i) == getMessageOriginalRound(tlcStatus[n][o], i)

\* tlcMap.OriginMessage[origin] = tlc: a later message replaces.
Put(C, c) == {x \in C : ~(x.round = c.round /\ x.origin = c.origin)} \cup {c}

\* Variant: what was kept in earlier rounds counts too.
UpTo(C, r) == {c \in C : c.round <= r}

Of(C, r) == {c \in C : c.round = r}

Origins(C) == {c.origin : c \in C}
Messages(C) == {tlc[c.origin][c.id] : c \in C}

\* &TLCMessage{Fitness: 0}
EmptyMessage == [block |-> <<NoName>>, fitness |-> 0]

\* getTLCWithHighestFitness: the first of the highest in the order of the
\* map, and the empty message if none has a fitness above 0.
Highest(M) ==
  LET best == {m \in M : m.fitness > 0 /\ \A x \in M : x.fitness <= m.fitness}
  IN  IF best = {} THEN {EmptyMessage} ELSE best

NameIsNew(n, b) == \A c \in committedHistory[n] : c[Len(c)] # b[Len(b)]
HistoryIsKnown(n, b) == \A i \in 1 .. Len(b) - 1 : SubSeq(b, 1, i) \in committedHistory[n]

\* No other committed block has the name, and the history is known.
isTxBlockValid(n, b) == NameIsNew(n, b) /\ HistoryIsKnown(n, b)

\* What checkIfConsensusReached may return for a consensus from round s: the
\* best of the confirmed messages if no other as good was seen and a message
\* of round s + 1 confirms it again.
checkIfConsensusReached(n, s) ==
  {b \in Highest(Messages(Of(confirmations[n], s))) :
     /\ \A m \in Messages(Of(messageSeen[n], s)) : m.fitness >= b.fitness => m.block = b.block
     /\ \E m \in Messages(Of(confirmations[n], s + 1)) : m.block = b.block}

Init ==
  /\ indexed = [n \in Node |-> 0]
  /\ tlc = [n \in Node |-> <<>>]
  /\ confirmed = [n \in Node |-> {}]
  /\ acks = {}
  /\ clientBlock = [n \in Node |-> {}]
  /\ qsc = [n \in Node |-> [pc |-> "idle"]]
  /\ myTime = [n \in Node |-> 0]
  /\ tlcStatus = [n \in Node |-> [o \in Node |-> {}]]
  /\ acking = [n \in Node |-> {}]
  /\ saving = [n \in Node |-> {}]
  /\ confirmations = [n \in Node |-> {}]
  /\ messageSeen = [n \in Node |-> {}]
  /\ committedHistory = [n \in Node |-> {}]
  /\ topBlockchainHash = [n \in Node |-> <<>>]
  /\ previousBlockHash = [n \in Node |-> <<>>]

-----------------------------------------------------------------------------
(* A node's own blocks and its three rounds. *)

\* createAndPublishTxBlock: the id is taken now, the round comes later.
Publish(n) ==
  /\ indexed[n] < Len(Files[n])
  /\ \E f \in Fitness[n][indexed[n] + 1] :
       tlc' = [tlc EXCEPT ![n] = Append(@,
         [block |-> Append(previousBlockHash[n], Files[n][indexed[n] + 1]), fitness |-> f])]
  /\ indexed' = [indexed EXCEPT ![n] = @ + 1]
  /\ clientBlock' = [clientBlock EXCEPT ![n] = @ \cup {Len(tlc[n]) + 1}]
  /\ UNCHANGED <<confirmed, acks, qsc, myTime, kept, chain>>

\* qscRound up to round s.
TakeBlock(n, i) ==
  /\ qsc[n].pc = "idle" /\ i \in clientBlock[n]
  /\ clientBlock' = [clientBlock EXCEPT ![n] = @ \ {i}]
  /\ qsc' = [qsc EXCEPT ![n] = [pc |-> "start", step |-> 0, id |-> i]]
  /\ UNCHANGED <<indexed, tlc, confirmed, acks, myTime, kept, chain>>

\* gossipWithConfirmation up to its loop.
Wait(n) ==
  /\ qsc[n].pc = "start"
  /\ ~Majority(Origins(Of(confirmations[n], myTime[n])))
  /\ qsc' = [qsc EXCEPT ![n] =
       [pc |-> "wait", step |-> qsc[n].step, id |-> qsc[n].id, delivered |-> FALSE]]
  /\ UNCHANGED <<indexed, tlc, confirmed, acks, clientBlock, myTime, kept, chain>>

\* A majority has acknowledged the message.
Confirm(n) ==
  LET q == qsc[n] IN
  /\ q.pc = "wait" /\ ~q.delivered
  /\ Majority({n} \cup {k.from : k \in {x \in acks : x.to = n /\ x.id = q.id}})
  /\ qsc' = [qsc EXCEPT ![n].delivered = TRUE]
  /\ confirmed' = [confirmed EXCEPT ![n] = @ \cup {q.id}]
  /\ confirmations' = [confirmations EXCEPT ![n] =
       Put(@, [round |-> myTime[n], origin |-> n, id |-> q.id])]
  /\ UNCHANGED <<indexed, tlc, acks, clientBlock, myTime, tlcStatus, acking, saving, messageSeen,
                 chain>>

\* A majority is confirmed in the round of n, and the message of n is
\* confirmed with them unless it was before.
RoundOver(n) ==
  /\ qsc[n].pc \in {"start", "wait"}
  /\ Majority(Origins(Of(confirmations[n], myTime[n])))
  /\ myTime' = [myTime EXCEPT ![n] = @ + 1]
  /\ confirmed' = [confirmed EXCEPT ![n] = @ \cup {qsc[n].id}]

\* Variant: one round too many.
NextRoundAgain(n) ==
  /\ RoundOver(n) /\ qsc[n].step <= 2
  /\ \E m \in Highest(Messages(Of(confirmations[n], myTime[n]))) :
       tlc' = [tlc EXCEPT ![n] = Append(@, m)]
  /\ qsc' = [qsc EXCEPT ![n] =
       [pc |-> "start", step |-> qsc[n].step + 1, id |-> Len(tlc[n]) + 1]]
  /\ UNCHANGED <<indexed, acks, clientBlock, kept, chain>>

\* The end of round s or s + 1: the best confirmed message is sent on.
NextRound(n) ==
  /\ RoundOver(n) /\ qsc[n].step < 2
  /\ \E m \in Highest(Messages(Of(confirmations[n], myTime[n]))) :
       tlc' = [tlc EXCEPT ![n] = Append(@, m)]
  /\ qsc' = [qsc EXCEPT ![n] =
       [pc |-> "start", step |-> qsc[n].step + 1, id |-> Len(tlc[n]) + 1]]
  /\ UNCHANGED <<indexed, acks, clientBlock, kept, chain>>

\* Variant: the block is committed as it was proposed.
CommitAsIs(n, m) ==
  /\ committedHistory' = [committedHistory EXCEPT ![n] = @ \cup {m.block}]
  /\ topBlockchainHash' = [topBlockchainHash EXCEPT ![n] = m.block]
  /\ previousBlockHash' = [previousBlockHash EXCEPT ![n] = m.block]

\* The chosen file follows the last block committed.
Commit(n, m) ==
  LET top == Append(topBlockchainHash[n], m.block[Len(m.block)]) IN
  /\ committedHistory' = [committedHistory EXCEPT ![n] = @ \cup {top}]
  /\ topBlockchainHash' = [topBlockchainHash EXCEPT ![n] = top]
  /\ previousBlockHash' = [previousBlockHash EXCEPT ![n] = top]

\* The end of round s + 2.  Without a consensus the best message of round
\* s + 1, which is the one sent in s + 2, comes before the next block.
Decide(n) ==
  LET s == myTime[n] - 2
      best == checkIfConsensusReached(n, s)
  IN
  /\ RoundOver(n) /\ qsc[n].step = 2
  /\ Of(messageSeen[n], s) # {}
  /\ \/ \E m \in best : Commit(n, m)
     \/ /\ best # Highest(Messages(Of(confirmations[n], s)))
        /\ previousBlockHash' = [previousBlockHash EXCEPT ![n] = tlc[n][qsc[n].id].block]
        /\ UNCHANGED <<committedHistory, topBlockchainHash>>
  /\ qsc' = [qsc EXCEPT ![n] = [pc |-> "idle"]]
  /\ UNCHANGED <<indexed, tlc, acks, clientBlock, kept>>

\* No message was saved as seen in round s: the type assertion on nil panics.
Crash(n) ==
  /\ RoundOver(n) /\ qsc[n].step = 2
  /\ Of(messageSeen[n], myTime[n] - 2) = {}
  /\ qsc' = [qsc EXCEPT ![n] = [pc |-> "crashed"]]
  /\ UNCHANGED <<indexed, tlc, acks, clientBlock, kept, chain>>

Ready(n) == qsc[n].pc # "crashed" /\ acking[n] = {} /\ saving[n] = {}

-----------------------------------------------------------------------------
(* Messages of other nodes; a crashed program handles none. *)

\* A message that asks for an ack, up to the tests whether it gets one.
HandleUnconfirmed(n, o, i) ==
  /\ Ready(n) /\ i \in DOMAIN tlc[o]
  /\ Repeated \/ [from |-> n, to |-> o, id |-> i] \notin acks
  /\ isTxBlockValid(n, tlc[o][i].block)
  /\ AckAll \/ RoundOf(n, o, i) >= myTime[n]
  /\ acking' = [acking EXCEPT ![n] = {[round |-> RoundOf(n, o, i), origin |-> o, id |-> i]}]
  /\ UNCHANGED <<indexed, tlc, confirmed, acks, clientBlock, qsc, myTime, tlcStatus, saving,
                 confirmations, messageSeen, chain>>

\* saveMessageSeen and the ack.
Acknowledge(n, c) ==
  /\ qsc[n].pc # "crashed" /\ c \in acking[n]
  /\ messageSeen' = [messageSeen EXCEPT ![n] = Put(@, c)]
  /\ acks' = acks \cup {[from |-> n, to |-> c.origin, id |-> c.id]}
  /\ acking' = [acking EXCEPT ![n] = @ \ {c}]
  /\ UNCHANGED <<indexed, tlc, confirmed, clientBlock, qsc, myTime, tlcStatus, saving,
                 confirmations, chain>>

\* A confirmation, up to the test in saveConfirmation.
HandleConfirmed(n, o, i) ==
  /\ Ready(n) /\ i \in confirmed[o]
  /\ Repeated \/ i \notin tlcStatus[n][o]
  /\ tlcStatus' = [tlcStatus EXCEPT ![n][o] = @ \cup {i}]
  /\ saving' = [saving EXCEPT ![n] =
       {c \in {[round |-> RoundOf(n, o, i), origin |-> o, id |-> i]} : c.round >= myTime[n]}]
  /\ UNCHANGED <<indexed, tlc, confirmed, acks, clientBlock, qsc, myTime,
                 acking, confirmations, messageSeen, chain>>

SaveConfirmation(n, c) ==
  /\ qsc[n].pc # "crashed" /\ c \in saving[n]
  /\ confirmations' = [confirmations EXCEPT ![n] = Put(@, c)]
  /\ saving' = [saving EXCEPT ![n] = {}]
  /\ UNCHANGED <<indexed, tlc, confirmed, acks, clientBlock, qsc, myTime, tlcStatus,
                 acking, messageSeen, chain>>

-----------------------------------------------------------------------------
\* The goroutine of a consensus.
QSCStep(n) == Wait(n) \/ Confirm(n) \/ NextRound(n) \/ Decide(n) \/ Crash(n)

Next ==
  \E n \in Node :
    \/ Publish(n)
    \/ \E i \in clientBlock[n] : TakeBlock(n, i)
    \/ QSCStep(n)
    \/ \E o \in Hears[n] : \E i \in DOMAIN tlc[o] :
         HandleUnconfirmed(n, o, i) \/ HandleConfirmed(n, o, i)
    \/ \E c \in acking[n] : Acknowledge(n, c)
    \/ \E c \in saving[n] : SaveConfirmation(n, c)

Spec == Init /\ [][Next]_vars

-----------------------------------------------------------------------------
TypeOK ==
  /\ indexed \in [Node -> Nat]
  /\ tlc \in [Node -> Seq(Message)]
  /\ confirmed \in [Node -> SUBSET ID]
  /\ acks \subseteq Ack
  /\ clientBlock \in [Node -> SUBSET ID]
  /\ qsc \in [Node -> QSCRound]
  /\ myTime \in [Node -> Nat]
  /\ tlcStatus \in [Node -> [Node -> SUBSET ID]]
  /\ acking \in [Node -> SUBSET Saved]
  /\ saving \in [Node -> SUBSET Saved]
  /\ confirmations \in [Node -> SUBSET Saved]
  /\ messageSeen \in [Node -> SUBSET Saved]
  /\ committedHistory \in [Node -> SUBSET Block]
  /\ topBlockchainHash \in [Node -> Hash]
  /\ previousBlockHash \in [Node -> Hash]

\* The three rounds of a consensus, and those of the ones that follow it, are
\* rounds of a threshold logical clock: blocks that nobody acknowledges and
\* messages that are sent on leave no gap in it.
Threshold == INSTANCE ThresholdClock WITH
  clock <- myTime, sent <- [n \in Node |-> Cardinality(confirmed[n])]
ImplementsClock == Threshold!Spec

\* No node is more than one round ahead of a majority, so that at most the
\* messages of the next round are kept early.
KeepsPace == Threshold!Pace

\* The names of the files that clients have indexed.
Indexed == {e \in Name : \E o \in Node : \E k \in 1 .. indexed[o] : e = Files[o][k]}

\* The blocks committed are a ledger of indexed files: nothing is taken back,
\* every block takes three rounds of its node, and the empty message is never
\* chosen, although a block may be proposed after one that nobody committed and
\* what is chosen is put after the last block of whoever commits it.
Ledger == INSTANCE BlockLedger WITH
  proposed <- Indexed, clock <- myTime, chain <- topBlockchainHash
ImplementsLedger == Ledger!Spec

\* The walk of isTxBlockValid from the last block ends at the beginning: the
\* blocks committed are those of one chain, also when a block was proposed
\* after another than the last one.
HistoryIsChain ==
  \A n \in Node : committedHistory[n] =
    {SubSeq(topBlockchainHash[n], 1, i) : i \in 1 .. Len(topBlockchainHash[n])}

\* No name is committed twice ("valid, i.e. there's no other committed block
\* with the same name", qsc.go 122), although only the node that acknowledges a
\* block looks at its name and the one that commits it does not.  This is so
\* between two nodes if their clients wait for the end of a consensus before
\* they index the next file, or if no two blocks have the same fitness in the
\* instance that is checked; blocks published early that have the same fitness
\* can be committed again, also between two nodes.
NamesOnce ==
  \A n \in Node : \A i, j \in DOMAIN topBlockchainHash[n] :
    topBlockchainHash[n][i] = topBlockchainHash[n][j] => i = j

\* The nodes that commit a block in their first consensus, which takes the
\* rounds 0 to 2, commit the same.
FirstConsensusAgrees ==
  \A n, o \in Node :
    /\ myTime[n] \in 3 .. 5 /\ committedHistory[n] # {}
    /\ myTime[o] \in 3 .. 5 /\ committedHistory[o] # {}
    => topBlockchainHash[n] = topBlockchainHash[o]

\* "to agree on the files in the network" (README.md 7): of any two chains
\* one continues the other.
ChainsAgree ==
  \A n, o \in Node :
    Len(topBlockchainHash[n]) <= Len(topBlockchainHash[o]) =>
      topBlockchainHash[n] = SubSeq(topBlockchainHash[o], 1, Len(topBlockchainHash[n]))

\* "save all messages seen in every round" (blockchainhandler.go 198): what
\* was seen in round s is there when the consensus looks at it.
SeenWhenChecked == \A n \in Node : qsc[n].pc # "crashed"
=============================================================================
