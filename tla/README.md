# A TLA+ development of Peerster (P2P-DApp)

Peerster is a gossiper in Go: it spreads rumors over UDP, routes private messages, shares and
searches files, and agrees with other gossipers on an order of files by threshold logical clocks
(TLC) and que sera consensus (QSC). This directory holds TLA+ modules translated from
`src/gossiper/`, TLC configurations that check them on small instances, and TLAPS proofs of the main
results for every value of the constants.

## 1. Inventory

A gossiper is one process: some fifteen goroutines started by `Run` (`gossiper.go:113-150`), many
short ones started by handlers, shared maps (`sync.Map`, or maps under a mutex) and buffered
channels, one per packet type. Almost every hand-over between goroutines is
`go func() { channel <- x }()`, so **hand-overs are unordered**, even inside a process. Packets
travel over UDP: lost, repeated, reordered. Nothing but downloaded files is persisted, and nothing
is read back: a restarted gossiper is a new one, so there is no crash recovery to model.

| Component | State | Operations | What is hard | What makes it correct |
|---|---|---|---|---|
| Gossip storage (`gossiphandler.go`) | `seqID`, `messageStorage` | `createRumorMessage`, `handleGossipMessage`, `storeMessage` | id drawn by two atomics; handlers of one origin run concurrently | ids unique; nothing dropped or replaced |
| Vector clock (`status.go`) | `myStatus` | `updateStatus`, `createMyStatusPacket`, `getPeerStatusForPeer`, `checkIfINeedPeerStatus` | updated after the storage, not with it | the entry is the least unknown id |
| Mongering and anti-entropy (`rumormongering.go`) | `mongeringChannels`, `statusChannels` | `startRumorMongering`, `handlePeerStatus`, `startAntiEntropy` | status chosen under a lock and used after it; loss; coin | everyone gets every message |
| Peers (`peers.go`) | `peersData` | `AddPeer`, `GetPeers` | the list grows while it is used | only grows |
| Routing (`routinghandler.go`) | `routingTable`, `originLastID` | `updateRoutingTable`, `forwardPrivateMessage` | late rumors, several neighbours, private messages with id 0 | no circles; next hops have routes |
| TLC rounds (`tlc.go`, `blockchainhandler.go`) | `myTime`, `confirmations`, `tlcStatus`, two channels | `tlcRound`, `gossipWithConfirmation`, `handleTLCMessage`, `saveConfirmation` | acks, confirmations, notifications and retries in any order | a round takes a majority; one confirmation per round; no lost wakeup |
| QSC (`qsc.go`) | `committedHistory`, `topBlockchainHash`, `previousBlockHash`, `messageSeen` | `qscRound`, `isTxBlockValid`, `checkIfConsensusReached` | maps read while written; hash of an uncommitted block; queued blocks gossiped before their round | one chain without a name twice; chains agree |
| Files (`filehandler.go`) | `filesMetadata`, `hashDataMap`, `chunkOwnership` | `indexFile`, `updateChunkMap`, `updateChunkOwnerMap` | the same chunk from several files and peers; two keys for one file | what is announced is held |
| Download (`filesharing.go`) | `hashChannels` | `downloadDataFromPeer`, `downloadFileChunks`, `processDataRequest/Reply` | retry against late reply; hop limit shared by retries; chunks skipped | a reply finds its channel; a file is complete only when whole; who goes on asking is served |
| Search (`filesearching.go`) | `lastSearchRequests` | `searchFilesWithTimeout`, `forwardSearchRequestWithBudget`, `isRecentSearchRequest` | budget split while peers change; duplicates | no more than the budget is spent |
| Simple mode (`mainhandler.go:271`) | none | relay to all peers but the sender | relays for ever on a cycle | - |
| Client, web server, printing, helpers | none of the protocol | I/O | - | - |

How they interact. The receiving goroutine adds the sender to the peers and hands the packet to its
handler. A gossip message (rumor or TLC message) updates the routing table, then the storage, then the
vector clock, is answered by a status and, if new, mongered further. A status is answered by a message
the sender lacks, or by the own status. The routing table decides where acks, data, search replies
and private messages go. A TLC message is handed to the gossip handler and, independently, to the
queue of `handleTLCMessage`, which acknowledges blocks and accepts confirmations once the vector
clock covers theirs; the goroutine of `processClientBlocks` runs the rounds. QSC runs three rounds
per decision.

## 2. Modules

| Module | Models | Builds on |
|---|---|---|
| `Gossip` | creation, storage, vector clock, mongering, status exchange, anti-entropy, UDP | - |
| `PrefixReplication` | what gossiping promises: every node knows a growing prefix of each origin's messages | - |
| `Gossip_proofs` | theorems about `Gossip`, among them that it implements `PrefixReplication` | `Gossip` |
| `Routing` | routing table over gossiped rumors, forwarding with a hop limit | the result of `Gossip` that only stored messages are sent and none is dropped |
| `Routing_proofs` | loop-freedom, that routes lead on, the meaning of `originLastID` | `Routing` |
| `TLCRounds` | rounds of TLC over gossiped messages and routed acks (hw3ex3 mode) | the result of `Gossip` that clock entries are least unknown ids |
| `ThresholdClock` | what the rounds promise: one confirmation of each node in a round, and no round without a majority of them | - |
| `ThresholdClock_proofs` | no node of such a clock is more than one round ahead of a majority | `ThresholdClock` |
| `TLCRounds_proofs` | rounds need a majority, one confirmation per round, no lost notification; `TLCRounds` implements `ThresholdClock` | `TLCRounds` |
| `SearchBudget` | file search: budgets, their shares, duplicate suppression, the search's timer | - |
| `SearchBudget_proofs` | requests carry a budget and travel no farther than it; no more is spent and shared than was granted | `SearchBudget` |
| `Download` | indexing, downloads of metafiles and chunks, data requests and replies, search results and what is made of them | the result of `Routing` that packets reach their destination or are lost |
| `FileSharing` | what file sharing promises: data is shared or copied from who holds it, files are whole where all of it is, and who is said to hold a chunk does | - |
| `Download_proofs` | a reply finds its channel, what is announced is held, complete files are whole, matches can be fetched; `Download` implements `FileSharing`, and all data is shared by someone | `Download` |
| `Consensus` | QSC in hw3ex4 mode: three rounds per decision, validity of blocks, commits, the panic | the results of `TLCRounds` on what a round takes |
| `BlockLedger` | what QSC promises each node: a chain of names of indexed files that is never rewritten and grows at the end of a consensus only | - |
| `Consensus_proofs` | the types, and that the blocks committed are those of one chain | `Consensus` |
| `ConsensusRounds_proofs` | what rests on the rounds: `Consensus` implements `ThresholdClock` and `BlockLedger`, what is committed was indexed, the first consensus agrees if everyone is heard in time, and two nodes whose clients wait agree on unique names in all of them | `Consensus_proofs`, `ThresholdClock_proofs` |
| `MCGossip`, `MCRouting`, `MCTLCRounds`, `MCSearchBudget`, `MCDownload`, `MCConsensus` | values of the constants for TLC | |

### Gossip

A step is what a goroutine does between two points where another can interfere.

* `creating[n][c]` is the program counter of creating goroutine `c` of node `n`: `LoadSeqID`,
  `AddSeqID`, `StoreCreated` (the `LoadOrStore`), `FinishCreate` (`updateStatus` under the mutex,
  then `go startRumorMongering`). The client's goroutine and the one of route rumors are two
  creators; `createTLCMessage` has the same shape.
* `handling[n]` holds the activations of `handleGossipMessage` that have stored and not yet updated:
  `ReceiveGossip`, `FinishGossip`. Rumors are handled one at a time, TLC messages by a goroutine
  each; the set allows both.
* `pushing[n]` holds the statuses for which `handlePeerStatus` has chosen an entry
  (`ChooseForPeer`) and not yet looked the packet up (`PushToPeer`). Each sender has its own
  goroutine, which is what `Ready` says. `AnswerPeer` is the other branch.
* `mongering[n]` holds the goroutines of `startRumorMongering`. The coin, the status that arrives and
  the timeout come down to a choice between stopping and going on, which is left open.
* `net` is a set: packets are reordered; reading may leave a packet in flight (duplicate);
  `Lose` drops one. `updateStatus` is a relation between the old and the new entry, not a loop: the
  new entry is the first one above all consecutive ids held, or the old one.

### Routing

`updateRoutingTable` is atomic, as under its mutex. `ReceiveRumor` updates the table and
`StoreRumor` stores the rumor: between the two other handlers run. A node sends a rumor only after it
stored it, and may do so at any time and again, so a rumor in flight is a rumor its sender has stored
and the network needs no variable. Ids may be created in any order. `ForwardPacket` is
`forwardPrivateMessage` in a goroutine of its own, `ReceivePacket` the handlers; only
`processPrivateMessages` touches the table, with the destination and id 0.

### TLCRounds

`StartRound` is `gossipWithConfirmation` up to its loop, `ReceiveAck` and `ReceiveConfirm` are the
cases of its `select`, `HandleUnconfirmed` and `HandleConfirmed` are `handleTLCMessage` (with
`checkForCausalProperty`), and `SaveConfirmation` is the write of `saveConfirmation`, apart from its
test because the goroutine in a round may move on in between. The two hand-overs of
`processTLCMessage` and the queue, to which unaccepted confirmations return after a timeout, allow a
message to be handled at any time after it was sent, and this is how `Received` models them.
`tlcConfirm` says whether a notification waits in `tlcConfirmChan`; one or several make no
difference because each only causes a test of the same condition. The resend timer changes nothing:
a message already can arrive again. `stubbornTimeout` is taken to be positive; with 0 a node never
confirms anything.

### ThresholdClock

The abstract specification of the rounds: `clock[n]` is the round of a node and `sent[n]` how many
confirmations it has sent. `Confirm` sends that of the round, `Tick` ends a round for which more than half
of the nodes have sent theirs, and sends the node's own if it was not. Both modules of rounds implement it,
with `myTime` for the clock and the number of confirmed blocks (`TLCRounds`) or messages
(`Consensus`) for what was sent: acks, queues, the vector clocks that hold a confirmation back, the round
computed for one, and goroutines between a test and a write are steps that the abstract clock does not see.

### SearchBudget

A search stands for its origin and keywords. Its goroutine is `phase` and `budget`: `StartSearch` is
the client's request, `TimeOut`, `Found` and `SendAgain` are what the ticker may lead to.
`forwarding` is a bag of runs of `forwardSearchRequestWithBudget`: `Divide` reads the peers and
divides the budget, `SendShare` is one turn of the loop, which sends and then reads the peers
again, so that `Receive` and `AddPeer` run in between. A search is between two ticks when its own run
is over (the call at lines 96 and 133 is not a goroutine). `Receive` is `processSearchRequest` with the
`AddPeer` before it; a gossiper takes its own request when it comes back, as the code does, because a
search does not enter itself in `lastSearchRequests`. `Expire` is the duplicate timeout. The reply
to a request is a point-to-point packet of `Routing`, and whether enough files were found is left
open in `Found`; what a match is, is `IsMatch` of `Download`. `granted` and `spent` are history;
`hops` is history of a request. UDP loses and reorders requests here; a duplicated datagram would spend a budget twice, and is left out.

### Download

Data is its hash, so a metafile is the file it belongs to and `Chunks` says what it names.
`download[n][f]` is the goroutine of `downloadFileChunks`: `RequestFile` up to the first wait,
`TakeMetafile` and `GiveUpMetafile` the two ways `downloadDataFromPeer` ends, `OpenMetafile` the
metadata, `NextChunk`, `TakeChunk` and `GiveUpChunk` the loop over chunks and, inside it, over the
peers that were copied from the owners when the chunk's turn came, `Finish` the count at the end.
`finder[n][f]` is the goroutine of `handleSearchResult`. `hashChannels` has a member for each channel, which
is never deleted; a goroutine that waits to hand a reply over is a member of `arrived`, and stays
there until some later download of the same data reads it. `filesMetadata` has two keys per file,
because the code enters what a search found under another key than what is indexed or
downloaded. Requests, replies and results stay in their sets and need not be handled: this is delay,
loss, repetition and the resend timer in one. The hop limit, which the repetitions of a request
share, decides only whether it gets there (`Reachable`). A node runs one download of a file at a
time; a file has at least one chunk and one name.

### FileSharing

The abstract specification of files: what a node holds (`hashDataMap`), which files it has whole (those whose
metadata is complete) and whom it takes to hold a chunk (`chunkOwners`). `Share` is `indexFile`, `Copy` a
goroutine that takes a reply, with or without the owner that is noted for a chunk, `Hear` what
`handleSearchResult` makes of a result and `Finish` the end of a download. Requests, channels, timers, retries and
results on the way are steps that it does not see; that a reply or a result which is used much later is
still a copy of what its sender *holds* is what has to be shown.

### Consensus

The goroutine of `processClientBlocks` is `qsc[n]`; its `step` says which of the three rounds it is in.
`Publish` is `createAndPublishTxBlock`, which draws the id and stores the block for gossip although its round
comes later; `Wait` and `Confirm` are the round, `NextRound` and `Decide` its end together with what
`qscRound` does up to the next wait, `Crash` the type assertion on what was never saved.
`HandleUnconfirmed`, `HandleConfirmed` and `SaveConfirmation` are `handleTLCMessage` as in `TLCRounds`,
now with `isTxBlockValid`; `Acknowledge` is what follows the tests, `saveMessageSeen` and the ack, and
`acking` the message between the two, because the node's own rounds may end in between. Vector clocks, notifications and resending are left to
`TLCRounds`: a message can be handled at any time after it was sent, and confirmations carry no id of their
own because only the order of the messages that ask for acks matters. A block is its hash, and that is
the sequence of file names up to it, so that two blocks are equal when their hashes are.
The maps of a round are read when they are used, not when `qscRound` took them under the lock, because
the code takes a reference.

### BlockLedger

The abstract specification of a decision, for each node by itself: `proposed` are the names of indexed files
(`Indexed`), `clock` is `myTime` and `chain` the names up to `topBlockchainHash`. A round ends with
`Pass` or, if it is the third of a consensus, possibly with `Decide`, which appends one proposed name. That the
message chosen was proposed after a block which nobody committed (`qsc.go:110`), or is the empty one,
would show here. The ledger says nothing of two nodes: `ChainsAgree` does, which not every
behaviour satisfies.

## 3. Runs

| Run | Instance | Checks |
|---|---|---|
| `gossip_storage` (`MCGossip.cfg`) | 2 nodes, 2 creators at one, ids to 2, 2 concurrent handlers, 1 packet | `TypeOK`, `StatusIsLeastUnknown`, `PushedIsStored`, `OnlyGrows` |
| `gossip_line` (`MCGossipLine.cfg`) | line of 3 nodes, 1 creator, ids to 2, 2 bodies | `OriginAhead`, `UniqueID`, `ImplementsReplication` |
| `gossip_convergence` (`MCGossipLive.cfg`) | 2 nodes, one neighbour unknown at first, no mongering, 8 packets | `Convergence` |
| `gossip_two_creators` (`MCGossipDup.cfg`) | 2 nodes, 2 creators at one | `UniqueID`, **violated** |
| `routing` (`MCRouting.cfg`) | triangle, rumors of one node with ids to 2, hop limit 1, packets of both kinds | `TypeOK`, `LoopFree`, `LastIDIsLargest`, `RouteLeadsOn`, `RouteFromRumor` |
| `tlc_rounds` (`MCTLCRounds.cfg`) | 2 nodes, 2 blocks each | `TypeOK`, `OneConfirmationPerRound`, `NoLostWakeup`, `MajorityConfirmed`, `ImplementsClock` |
| `search_budget` (`MCSearchBudget.cfg`) | 3 nodes all linked and a fourth behind one that may turn up elsewhere, a search of budgets 3 and 6 | `TypeOK`, `BudgetConserved`, `TravelBounded`, `IncrementalSearchEnds`, `RequestsDieOut` |
| `search_peer_turns_up` (`MCSearchBudgetJoin.cfg`) | 3 nodes, one of which turns up | `BudgetConserved`, **violated** |
| `download` (`MCDownload.cfg`) | 2 nodes, a file of 2 chunks shared by one and asked for by the other, searched for by both | `TypeOK`, `ReplyExpected`, `AnnouncedIsHeld`, `CompleteIsWhole`, `MatchCanBeFetched`, `ImplementsSharing`, `DownloadEnds`, `PersistentClientIsServed` |
| `consensus` (`MCConsensus.cfg`) | 2 nodes, 2 files each, one of them at both, two consensuses each | `TypeOK`, `HistoryIsChain`, `NamesOnce`, `FirstConsensusAgrees`, `KeepsPace`, `ImplementsClock`, `ImplementsLedger` |
| `consensus_fork` (`MCConsensusFork.cfg`) | 3 nodes with a file each, in turn | `ChainsAgree`, **violated** |
| `consensus_seen` (`MCConsensusSeen.cfg`) | as `consensus` | `SeenWhenChecked`, **violated** |

**The bounds and why they are enough.** Every bound is a constant. `MaxID` = 2 gives a gap (id 2
before id 1), which is what `updateStatus` is about, and in `routing` a current and an older route;
the triangle is the smallest network where either neighbour may be reached through the other. Two
handlers at a node are the smallest case of the interleaving in `storeMessage`; `HandlerLimit` delays a packet, `MongerLimit` starts no further goroutine (mongering
may stop at once in the code as well) and a full network loses the packet, so every bounded behaviour
is one of the code. The line is the smallest network with an intermediate node. `NetCapacity` is 8 in
the run for convergence: it holds every packet that exists there, so that nothing is lost but by
`Lose`. Two blocks are the smallest case where confirmations of one origin overtake each other. The two bodies of
`gossip_line`, and the nodes with equally many blocks, are interchangeable, hence the symmetry sets.
In the TLC and consensus runs the system stops when
all blocks are used up, in the search runs when every search is over and in `download` when the
client does not ask again, hence `CHECK_DEADLOCK FALSE`; the other systems never stop, by
anti-entropy or by repeated delivery. In the
search runs `maxBudget` is small: a budget of 3 is at most it and 6 is above, so the search sends
twice and times out; the first send divides 2 evenly and the second 5 unevenly among two peers.
`MaxGranted` is what such a search grants in all; a search with a budget of its own would repeat it for
ever and is cut off there.

In `download` two chunks let one come and the other be given up, and the node that has the file is also
a searcher, so that results and owners go both ways. In `consensus` the second file of a node may be
published, stored and acknowledged while the first is still in its rounds; `TurnAbout` gives every file
another fitness, a's the best first and b's after it, and a name that both publish must not be committed
twice. `Repeated` = FALSE handles each message once: the code is idempotent there but for the round
under which a message is saved, and `FirstConsensusAgrees` was also checked with it TRUE and one file
each. In `consensus_fork` `ThroughC` says who hears whom in time, and the constraint
`InTurn` keeps the nodes in step and lets one at a time be at a message; both only remove behaviours, which a violation allows.

**Fairness** (`Gossip!Fairness`, for `Convergence` only). A goroutine that can run does run: weak
fairness of `AddSeqID`, `StoreCreated`, `FinishCreate`, `FinishGossip` and `PushToPeer`. The ticker
of anti-entropy keeps ticking and its uniform choice reaches every peer again and again: weak fairness of
`AntiEntropy` towards each linked peer. Links are fair-lossy: a message or a current status that is
sent again and again is received, strong fairness of `ReceiveMessage` and `ReceiveCurrentStatus`. No
fairness is asked of mongering, of creating, or of loss.

`SearchBudget!Fairness` (for the two liveness properties): runs of
`forwardSearchRequestWithBudget` go on, the ticker fires, and packets in the socket buffer are read. None is asked of
starting a search, of finding files, of loss, or of the duplicate timeout.

`Download!FairSpec`: `Scheduled` says that goroutines run and their stop timers fire, which is all that
`DownloadEnds` needs; `Persistent` says that requests and replies sent again and again arrive, that a
`select` with a reply in its channel takes it time after time rather than only ever the timer, and
that a client goes on asking each peer. Each download may still be given up.

## 4. What the runs and the code disagree on

* **`gossip_two_creators`.** `createRumorMessage` and `createTLCMessage` load `seqID` and add to it
  in two atomic operations. Two creating goroutines of a node can draw one id; every node keeps the
  message it saw first and `MessageUniqueID` (`status.go:97`) names two messages. The client's
  goroutine, route rumors and TLC rounds are such goroutines.
* **`search_peer_turns_up`.** `forwardSearchRequestWithBudget` divides the budget among the peers it
  read first, but reads them again after every send (line 215). A peer added in between gets
  `budgetForEach` too, so more goes out than the "left budget" of `mainhandler.go:73`. What still
  holds then is `TravelBounded`: each request is smaller than the one it came from.
* **`consensus_fork`.** `checkIfConsensusReached` commits the best confirmed message of round s if the
  node saw no other as good and some confirmed message of round s + 1 names the block again. The
  node's own message may be that one, and what it has not seen in time does not count. In the run a
  commits its own file, the best, and b, which has heard only of c, commits its own, in the same
  consensus. "to agree on the files in the network" (`README.md:7`) does not hold. Two nodes agree in
  every consensus if their clients wait for the end of one before they index the next file and no two
  blocks have the same fitness (`TwoAgree`; no fitness may be 0). Without the waiting only the first consensus is safe
  (`FirstConsensusAgrees`): a node that misses one never catches up, and forks at the next.
* **`consensus_seen`.** The round of a message is the number of confirmations of its origin handled so
  far (`getMessageOriginalRound`, "get round origin of the message", `blockchainhandler.go:228`). A
  client's second block is stored for gossip while the first is in its rounds; a node that handles it
  before the confirmations of these rounds saves it as seen too low, and finds nothing in the
  round where it is looked up: the type assertion at `qsc.go:170` panics, against "save all messages seen in
  every round" (`blockchainhandler.go:198`). For the same reason a confirmation that overtakes another
  is saved under its round and then replaced there, and the later round may wait for ever.

## 5. What is proved

All theorems are `Spec => []P` or `Spec => P` for every value of the constants that satisfies the
named assumption: any nodes, peers, bodies, creators and any value of the bounds. Where a theorem has a
further hypothesis it is part of its statement, and named below.

* **`Gossip_proofs`** (from `GossipAssumption`). `TypeCorrect`. `NothingLost` (`OnlyGrows`): the
  storage only gains messages, and `updateStatus` never lowers an entry. `StatusCorrect`:
  `StatusIsLeastUnknown` becomes inductive with the types and `EntryIsPastFirst` (an entry, once
  made, is at least 2), which together are `ClockInv`. `PushCorrect`: what `getPeerStatusForPeer` chooses
  lies below an entry of the own clock, hence in the storage by `ClockInv`, and stays there.
  `OriginStaysAhead`: a message is *away* when it is in flight, being mongered or handled, or stored
  away from its origin; `AwayInv` says that the origin has stored every such message and that its
  own entry does not stop at it, so an entry elsewhere, which only skips such messages, cannot pass the
  origin's. `GossipImplementsReplication` is the refinement: `known[n][o]` is the entry minus one,
  and every step is a `Publish`, a `Learn` or a stutter; that a node learns no more than the origin has
  published is `OriginAhead` in the next state. `SingleCreatorUnique` assumes one creating
  goroutine per node, the assumption that `gossip_two_creators` shows to be necessary.
* **`Routing_proofs`** (from `RoutingAssumption`). `RouteInv`: what a node has received of an
  origin it has a route for that is as recent; the next hop is the origin or has a route as recent;
  packets come from and go to nodes with a route. The heart is `NoNewLoop`: a node changes its next
  hop only for a strictly larger id, so if the change closed a set of nodes, those with a route as
  recent would have been closed before it. It gives `TypeCorrect`, `RoutesAreLoopFree`, `RoutesLeadOn`,
  `RoutesFromRumors` and, with `RouteReceived`, `LastIDCorrect`.
* **`TLCRounds_proofs`** (from `RoundsAssumption`: any finite set of nodes, any number of blocks).
  `TypeCorrect` with `StoredInv` (every message is also stored at its origin and its id was drawn),
  without which vector clocks would not be finite. `BlockInv` keeps the books of a node: the blocks
  it has confirmed, its queue, its current block and `myTime`; `OnceInv` says that no block has two
  confirmations; together they give `OneConfirmation`. `SavedInv` says that a confirmation saved under
  round r stands for at least r + 1 confirmed blocks of its origin, in whatever order it was handled: the
  round is a count of other blocks of that origin. With a majority of them `RoundsNeedMajority`
  follows. `WakeupsAreNotLost` is `NoLostWakeup`, inductive with the types.
  `RoundsAreClock` is the refinement of `ThresholdClock`. The confirmations saved under a node's round
  are, by `SavedInv`, of origins that have sent more confirmations than the round, which is the guard
  of `Tick`; that the node itself then has exactly as many as its new round is `BlockInv`, also where it
  had not got its acks.
* **`ThresholdClock_proofs`** (for a finite set of nodes). `PaceKept`: a node that has sent at most one
  more than its round (`Current`) and a majority that has sent what a round took (`Entered`) are inductive
  together, and give `Pace`.
* **`SearchBudget_proofs`** (from `SearchAssumption`: any finite set of nodes, any peers, any
  budgets). `SearchInv`: what a run hands to one peer leaves room for the hop to it (`RunsBounded`),
  for which `Quotient` says that the largest share is no more than the budget that is divided, and a
  search has a budget from its start on. It gives `TypeCorrect` (no request carries 0) and
  `TravelIsBounded`. `BudgetIsConserved` is about behaviours in which nobody turns up
  (`[][NobodyTurnsUp]_vars`), the assumption that `search_peer_turns_up` shows to be necessary. The budget
  under way is the number of units in the bags of requests and runs, as a set, so that a step is a
  comparison of finite sets: what `SendShare` puts into a request comes out of its run, `Receive` turns a
  request into a run and one unit spent, and the last share is no more than what is left because the
  peers counted by `Divide` are still the same.
* **`Download_proofs`** (from `DownloadAssumption`: any files, sequences of chunks and gossipers, any
  reachability). `TypeCorrect`. `RepliesExpected` from `ReplyInv`: a request implies the channel that was
  opened before it, and channels stay. `Opened` says that a goroutine past its metafile has the metafile and
  the metadata. With it, `AnnouncementsHold`: chunk maps grow only by chunks held at that moment, a result
  copies such a map, an owner is the sender of a result or of a reply, which had the data, and data is
  never dropped, so what was true when it was read is true when it is used.
  `CompleteFilesAreWhole`: the counter of the loop is at most the number of chunks passed, and equal to it
  only if all of them are held. `MatchesCanBeFetched` follows from `AnnouncementsHold`.
  `SharingIsImplemented` is the refinement of `FileSharing`: each action is one of its actions or a stutter,
  where a reply is a `Copy` because its sender holds the data (`AnnouncedIsHeld` with what it rests on), a result
  a `Hear` of a subset of what its sender holds, and the end of a download a `Finish` by the invariant of
  `CompleteFilesAreWhole`. `DataIsShared` is proved about the abstract specification, where two cases are left, and
  carried over: all data, through however many nodes it came, is of a file that some node shares.
* **`Consensus_proofs`** (from `ConsensusAssumption`: any finite set of nodes, any files, fitness and
  links). `Types`: `TypeOK` with `SentIds` and `KeptIds`, the ids confirmed, queued, waited for or kept are
  those of messages that were sent, without which the messages of a round have no type. `CommittedIsOneChain`:
  a commit appends to the last block committed, whatever block the message proposed
  to follow, so the committed blocks are the prefixes of the top (`PrefixesOfAppend`).
* **`ConsensusRounds_proofs`**. `RoundsAreClock`, from `RoundInv` (the messages a node has confirmed are as
  many as its round, and one more when that of the round is delivered) and `KeptInv` (what is kept under a
  round is of an origin that has confirmed more messages than that). `PaceIsKept` is then the theorem of
  `ThresholdClock_proofs` for this clock. `LedgerIsKept` is the refinement of `BlockLedger`:
  `Decide` of a node falls on the end of a third round (`TurnInv`), and what it appends has a name that
  was indexed (`ProperInv`). It assumes `FitnessPositive`: every message sent has the name of an indexed
  file and a fitness above 0, so the best of a nonempty set (`HighestOfPositive`) is one of them and never
  the empty message. `BlocksTakeRounds` is a theorem of the abstract ledger carried over.
  - *The first consensus, any number of nodes.* `HeardAgreeFirst` assumes that no two nodes draw the same
    fitness, nor 0, and is about behaviours in which nobody ends round 0 without everyone's confirmation,
    nor round 1 before everyone has ended round 0 (`[][FirstRoundHeard]_vars`): delays are shorter than
    rounds. `BestInv` is inductive: until a node ends round 0 nothing is known; when the first does,
    everyone has its client's message confirmed, and there is a best one, B. From then on, whatever
    `getMessageOriginalRound` counts to round 0 is one of those messages or one of round 1, and a message of
    round 1 is B; a confirmation that replaces another keeps B in the round; so B is the only choice, for
    whoever decides. `TwoAgreeFirst` is a corollary: with two nodes a majority is everyone, and every
    behaviour is of that kind. The hypotheses are needed: with equal fitness two nodes may choose
    differently, and three nodes that do not hear everyone end as in `consensus_fork`, whose instance has
    distinct fitness.
  - *All consensuses, two nodes.* `NamesAreUnique`, `ChainsStayNear` and `TwoAgree` are about two nodes
    whose clients index a file when the block of the last one is through its rounds
    (`[][PublishedInTurn]_vars`). `NamesAreUnique` and `ChainsStayNear` assume nothing of fitness. With
    waiting clients ids are rounds (`OrderInv`), so that a message kept under a round by
    `getMessageOriginalRound` is of that round or the next (`LateInv`, `SoonInv`); a confirmed message was
    acknowledged by the other node, and a node ends a round only when the message of the other in it is
    confirmed (`MutualInv`). `Acked` begins with the tests, so that an ack sent after the end of the consensus it was
    meant for is covered. Hence a node accepts nothing past its own consensus, and in it only names
    that are new to its chain; two nodes that both get through a consensus began it with the same block; and
    who is ahead has committed at most one block more (`PairInv`). So the chains differ at most in the last
    block of either (`NearChains`). These are inductive only together, as `TwoInv`, which also has
    `NamesOnce`. `TwoAgree` adds distinct fitness, none of it 0, and `AgreeInv`: what a node sends on in the
    second and third round of a consensus is the best of the two blocks (`WinInv`), and what
    `checkIfConsensusReached` returns was sent on (`WonInv`); so both commit the same or one of them
    nothing, and nothing is committed after a block that the other lacks. The hypothesis on clients is
    needed: with all fitness equal and second blocks published while the first consensus is undecided, TLC
    finds (for files `<<x, y>>` at a, `<<z, z>>` at b) that a commits z, b does not, both go on with blocks
    drawn early, and a commits z again.

Stays with TLC: `Convergence`, `IncrementalSearchEnds`, `RequestsDieOut`, `DownloadEnds` and
`PersistentClientIsServed`, because liveness under fairness is out of this prover's reach; and of course the four
violations. Nothing is claimed of unique names among more than two nodes, because it does not hold: with three a
simulation finds a node that commits a name, and then the same name again, proposed by a node that has not committed
it and acknowledged by another that has not (`isTxBlockValid` is asked by those who acknowledge, not by the
one who commits). Between two nodes whose clients publish early, `NamesOnce` is checked on the instance of
`consensus` only, where fitness is distinct; whether distinct fitness is enough for it in general is open.
Of agreement beyond the first consensus of more than two nodes nothing is claimed either.

## 6. Not modelled

Pure I/O and stateless: encoding, printing, the interface, the web server, the client, files on disk;
simple mode, which keeps no state; the cap of channels (`maxChannelSize`), because the goroutines
that fill them wait without blocking anyone.

Left out of the modules above, and why:

* The listeners of `status.go:97-134`, which goroutines that monger one message to one peer share. They
  decide only whether a goroutine stops or goes on, which `Gossip` leaves open.
* The mode hw3ex2 without rounds, where every block has its own goroutine and all share and replace
  `tlcAckChan`.
* Two downloads of one file at one node, which write one `ChunkMap` without a lock; more generally Go's
  data races, which may end the program.
* The hop limit that repetitions of a data request wear down: `Reachable` has all of them arrive or none.
* Fitness 0 and equal fitness in the runs of `Consensus` (the module allows both, the listed runs draw
  positive and distinct ones). With 0 a block without a file can be committed (`utils.go:184`): with one file
  of fitness 0 at each of two nodes, TLC finds a chain of the empty name, after which `ImplementsLedger` does
  not hold, and this is what `FitnessPositive` excludes. With ties two nodes may choose differently, because the order of a Go map is open, but two whose clients wait still commit no name twice (`NamesAreUnique`).
* Liveness of rounds and of consensus. It does not hold: a confirmation that is saved under a lower
  round is missing in its own, and a block proposed after an uncommitted one (`qsc.go:110`) is refused by
  everyone who has not committed that one, so that with two nodes its round never ends.

What a next step would take up, in order: agreement of all consensuses of more than two nodes under a
bound on delays and with clients that wait (`HeardAgreeFirst` is its first step); the mode without rounds; the listeners of mongering; two downloads of one
file.
