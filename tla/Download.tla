------------------------------ MODULE Download ------------------------------
(***************************************************************************)
(* File sharing between gossipers: indexing, the download of a metafile    *)
(* and of the chunks it names, and what search results tell about who      *)
(* holds which chunk (gossiper/filesharing.go, filehandler.go, the results *)
(* of filesearching.go, and processDataRequest, processDataReply of        *)
(* mainhandler.go).                                                        *)
(*                                                                         *)
(* Data is its hash: a metafile is the file it belongs to, and Chunks says *)
(* which chunks it names.  A file has one name everywhere.  A step of a    *)
(* downloading goroutine ends where it waits or has read a shared map.     *)
(* Requests, replies and results are delayed, lost and duplicated at will: *)
(* they are never removed and nothing forces them to be handled, so that a *)
(* request sent again by the ticker is the same request.  Its hop limit,   *)
(* lower at every repetition, only decides whether it arrives: Reachable.  *)
(***************************************************************************)
EXTENDS Naturals, Sequences, FiniteSets

CONSTANTS
  Node,       \* gossipers
  File,       \* files, each standing for its name, metafile and metahash
  Chunk,      \* hashes of chunks
  Chunks,     \* Chunks[f]: the sequence of hashes in the metafile of f
  Shared,     \* Shared[n]: the files in the shared folder of n
  Wanted,     \* Wanted[n]: the files the client of n asks for
  Searcher,   \* the nodes whose clients search
  Reachable,  \* Reachable[n]: the nodes that packets of n get to
  NoPeer,     \* the empty destination of a download of a file searched for
  NoMetadata  \* what filesMetadata says of a key without an entry

ASSUME DownloadAssumption ==
  /\ File \cap Chunk = {}
  /\ Chunks \in [File -> Seq(Chunk) \ {<<>>}]
  /\ Shared \in [Node -> SUBSET File]
  /\ Wanted \in [Node -> SUBSET File]
  /\ Searcher \subseteq Node
  /\ Reachable \in [Node -> SUBSET Node]
  /\ NoPeer \notin Node
  /\ NoMetadata \notin [chunkMap : SUBSET Nat, size : Nat]

VARIABLES
  hashDataMap,    \* hashes of the data that each node holds
  filesMetadata,  \* per node, key and file: the chunks announced and the size
  chunkOwners,    \* per node and chunk: the nodes known to hold it
  hashChannels,   \* per node: <<hash, peer>> for which a channel exists
  arrived,        \* per node: <<hash, peer>> whose reply a goroutine hands over
  download,       \* downloadFileChunks, one goroutine per node and file
  finder,         \* the goroutine of handleSearchResult, per node and file
  requests,       \* data requests sent
  replies,        \* data replies sent
  results         \* search results sent

vars == <<hashDataMap, filesMetadata, chunkOwners, hashChannels, arrived,
          download, finder, requests, replies, results>>

Hash == File \cup Chunk
Index(f) == 1 .. Len(Chunks[f])

\* The keys of filesMetadata: getKeyFromString(hash + name) where a file is
\* indexed or downloaded, hash + name itself where it is found by a search.
Key == {"own", "found"}

\* The size counts chunks: 0 is the Size of a file that is not complete.
Metadata == [chunkMap : SUBSET Nat, size : Nat]
Missing == [chunkMap |-> {}, size |-> 0]

\* dest is the destination the client gave, i the chunk in turn, got how many
\* were retrieved, peer the one asked and rest those to be asked after it.
DownloadState ==
  [pc : {"idle"}] \cup
  [pc : {"metafile"}, dest : Node] \cup
  [pc : {"open"}, dest : Node \cup {NoPeer}] \cup
  [pc : {"loop"}, dest : Node \cup {NoPeer}, i : Nat, got : Nat] \cup
  [pc : {"chunk"}, dest : Node \cup {NoPeer}, i : Nat, got : Nat,
   peer : Node, rest : SUBSET Node]
Finder ==
  [pc : {"idle"}] \cup
  [pc : {"metafile", "enter"}, peer : Node, chunkMap : SUBSET Nat]

Request == [from : Node, to : Node, hash : Hash]
Result == [from : Node, to : Node, file : File, chunkMap : SUBSET Nat]

Idle == [pc |-> "idle"]

\* The indices of f whose chunk is among the hashes H.
Held(f, H) == {i \in Index(f) : Chunks[f][i] \in H}

Init ==
  /\ hashDataMap = [n \in Node |-> {}]
  /\ filesMetadata = [n \in Node |-> [k \in Key |-> [f \in File |-> NoMetadata]]]
  /\ chunkOwners = [n \in Node |-> [h \in Chunk |-> {}]]
  /\ hashChannels = [n \in Node |-> {}]
  /\ arrived = [n \in Node |-> {}]
  /\ download = [n \in Node |-> [f \in File |-> Idle]]
  /\ finder = [n \in Node |-> [f \in File |-> Idle]]
  /\ requests = {}
  /\ replies = {}
  /\ results = {}

-----------------------------------------------------------------------------
(* Operations on the maps of a node. *)

\* LoadOrStore: an entry that is there stays.
LoadOrStore(e, new) == IF e = NoMetadata THEN new ELSE e

\* updateChunkMap: all chunks of f that are held are announced.
updateChunkMap(e, f, H) == [e EXCEPT !.chunkMap = @ \cup Held(f, H)]

\* updateChunkOwnerMap: p holds the chunks of f with the indices in map.
updateChunkOwnerMap(owners, p, f, map) ==
  [h \in Chunk |->
    IF \E i \in map \cap Index(f) : Chunks[f][i] = h THEN owners[h] \cup {p} ELSE owners[h]]

\* The client has f indexed.  Data and metadata known before stay as they are.
IndexFile(n, f) ==
  /\ f \in Shared[n]
  /\ LET whole == [chunkMap |-> Index(f), size |-> Len(Chunks[f])] IN
     /\ hashDataMap' = [hashDataMap EXCEPT ![n] =
          @ \cup {f} \cup {Chunks[f][i] : i \in Index(f)}]
     /\ filesMetadata' = [filesMetadata EXCEPT ![n]["own"][f] = LoadOrStore(@, whole)]
  /\ UNCHANGED <<chunkOwners, hashChannels, arrived, download, finder,
                 requests, replies, results>>

-----------------------------------------------------------------------------
(***************************************************************************)
(* downloadDataFromPeer: open the channel and send the request, then wait  *)
(* for the reply or for the stop timer.                                    *)
(***************************************************************************)

Ask(n, p, h) ==
  /\ hashChannels' = [hashChannels EXCEPT ![n] = @ \cup {<<h, p>>}]
  /\ requests' = IF p \in Reachable[n]
                 THEN requests \cup {[from |-> n, to |-> p, hash |-> h]}
                 ELSE requests

\* The reply, which may be a late one to an earlier request.
TakeReply(n, p, h) ==
  /\ <<h, p>> \in arrived[n]
  /\ arrived' = [arrived EXCEPT ![n] = @ \ {<<h, p>>}]
  /\ hashDataMap' = [hashDataMap EXCEPT ![n] = @ \cup {h}]

-----------------------------------------------------------------------------
(* downloadFileChunks *)

\* Variant: a destination is not required.
RequestAnyway(n, f, dest) ==
  /\ f \in Wanted[n] /\ download[n][f] = Idle
  /\ IF f \in hashDataMap[n]
     THEN /\ download' = [download EXCEPT ![n][f] = [pc |-> "open", dest |-> dest]]
          /\ UNCHANGED <<hashChannels, requests>>
     ELSE /\ download' = [download EXCEPT ![n][f] = [pc |-> "metafile", dest |-> dest]]
          /\ Ask(n, dest, f)
  /\ UNCHANGED <<hashDataMap, filesMetadata, chunkOwners, arrived, finder, replies, results>>

\* The client asks for f: without the metafile it needs a destination.
RequestFile(n, f, dest) ==
  /\ f \in Wanted[n] /\ download[n][f] = Idle
  /\ IF f \in hashDataMap[n]
     THEN /\ download' = [download EXCEPT ![n][f] = [pc |-> "open", dest |-> dest]]
          /\ UNCHANGED <<hashChannels, requests>>
     ELSE /\ dest # NoPeer
          /\ download' = [download EXCEPT ![n][f] = [pc |-> "metafile", dest |-> dest]]
          /\ Ask(n, dest, f)
  /\ UNCHANGED <<hashDataMap, filesMetadata, chunkOwners, arrived, finder, replies, results>>

TakeMetafile(n, f) ==
  LET d == download[n][f] IN
  /\ d.pc = "metafile"
  /\ TakeReply(n, d.dest, f)
  /\ download' = [download EXCEPT ![n][f] = [pc |-> "open", dest |-> d.dest]]
  /\ UNCHANGED <<filesMetadata, chunkOwners, hashChannels, finder, requests, replies, results>>

\* Variant: the channel is deleted when the download of its data is given up.
GiveUpAndClose(n, f) ==
  LET d == download[n][f] IN
  /\ d.pc = "metafile"
  /\ download' = [download EXCEPT ![n][f] = Idle]
  /\ hashChannels' = [hashChannels EXCEPT ![n] = @ \ {<<f, d.dest>>}]
  /\ UNCHANGED <<hashDataMap, filesMetadata, chunkOwners, arrived, finder,
                 requests, replies, results>>

\* Variant: every repetition starts the stop timer anew, so that it fires only
\* where nothing is sent.
GiveUpUnsent(n, f) ==
  LET d == download[n][f] IN
  /\ d.pc = "metafile" /\ d.dest \notin Reachable[n]
  /\ download' = [download EXCEPT ![n][f] = Idle]
  /\ UNCHANGED <<hashDataMap, filesMetadata, chunkOwners, hashChannels, arrived, finder,
                 requests, replies, results>>

\* The stop timer.
GiveUpMetafile(n, f) ==
  /\ download[n][f].pc = "metafile"
  /\ download' = [download EXCEPT ![n][f] = Idle]
  /\ UNCHANGED <<hashDataMap, filesMetadata, chunkOwners, hashChannels, arrived, finder,
                 requests, replies, results>>

\* Variant: a file whose metadata is known is not downloaded again.
OpenOnce(n, f) ==
  LET d == download[n][f]
      e == filesMetadata[n]["own"][f]
  IN
  /\ d.pc = "open"
  /\ filesMetadata' = [filesMetadata EXCEPT ![n]["own"][f] =
       updateChunkMap(LoadOrStore(e, Missing), f, hashDataMap[n])]
  /\ download' = [download EXCEPT ![n][f] =
       IF e # NoMetadata THEN Idle ELSE [pc |-> "loop", dest |-> d.dest, i |-> 1, got |-> 0]]
  /\ UNCHANGED <<hashDataMap, chunkOwners, hashChannels, arrived, finder,
                 requests, replies, results>>

\* The metadata is made or updated; a file with a size is there already.
OpenMetafile(n, f) ==
  LET d == download[n][f]
      e == updateChunkMap(LoadOrStore(filesMetadata[n]["own"][f], Missing), f, hashDataMap[n])
  IN
  /\ d.pc = "open"
  /\ filesMetadata' = [filesMetadata EXCEPT ![n]["own"][f] = e]
  /\ download' = [download EXCEPT ![n][f] =
       IF e.size # 0 THEN Idle ELSE [pc |-> "loop", dest |-> d.dest, i |-> 1, got |-> 0]]
  /\ UNCHANGED <<hashDataMap, chunkOwners, hashChannels, arrived, finder,
                 requests, replies, results>>

\* The loop goes on to the next chunk with got of them retrieved.
Proceed(n, f, got) ==
  LET d == download[n][f] IN
  download' = [download EXCEPT ![n][f] =
    [pc |-> "loop", dest |-> d.dest, i |-> d.i + 1, got |-> got]]

AskPeer(n, f, p, rest) ==
  LET d == download[n][f] IN
  /\ download' = [download EXCEPT ![n][f] =
       [pc |-> "chunk", dest |-> d.dest, i |-> d.i, got |-> d.got, peer |-> p, rest |-> rest]]
  /\ Ask(n, p, Chunks[f][d.i])

\* The loop over the peers with a chunk is at its end, or asks one of them.
NextPeer(n, f, rest) ==
  \/ /\ rest = {}
     /\ Proceed(n, f, download[n][f].got)
     /\ UNCHANGED <<hashChannels, requests>>
  \/ \E p \in rest : AskPeer(n, f, p, rest \ {p})

\* A chunk held already is counted; another is asked for, first of the
\* destination and then of its owners.
NextChunk(n, f) ==
  LET d == download[n][f] IN
  /\ d.pc = "loop" /\ d.i \in Index(f)
  /\ LET h == Chunks[f][d.i] IN
     IF h \in hashDataMap[n]
     THEN /\ Proceed(n, f, d.got + 1)
          /\ UNCHANGED <<hashChannels, requests>>
     ELSE IF d.dest # NoPeer THEN AskPeer(n, f, d.dest, chunkOwners[n][h])
     ELSE NextPeer(n, f, chunkOwners[n][h])
  /\ UNCHANGED <<hashDataMap, filesMetadata, chunkOwners, arrived, finder, replies, results>>

TakeChunk(n, f) ==
  LET d == download[n][f]
      h == Chunks[f][d.i]
  IN
  /\ d.pc = "chunk"
  /\ TakeReply(n, d.peer, h)
  /\ chunkOwners' = IF d.peer = d.dest
                    THEN [chunkOwners EXCEPT ![n][h] = @ \cup {d.peer}]
                    ELSE chunkOwners
  /\ filesMetadata' = [filesMetadata EXCEPT ![n]["own"][f].chunkMap = @ \cup {d.i}]
  /\ Proceed(n, f, d.got + 1)
  /\ UNCHANGED <<hashChannels, finder, requests, replies, results>>

\* Variant: the chunk is announced whether or not it came.
GiveUpAnnouncing(n, f) ==
  LET d == download[n][f] IN
  /\ d.pc = "chunk"
  /\ NextPeer(n, f, d.rest)
  /\ filesMetadata' = [filesMetadata EXCEPT ![n]["own"][f].chunkMap = @ \cup {d.i}]
  /\ UNCHANGED <<hashDataMap, chunkOwners, arrived, finder, replies, results>>

\* The stop timer: the next peer is tried.
GiveUpChunk(n, f) ==
  LET d == download[n][f] IN
  /\ d.pc = "chunk"
  /\ NextPeer(n, f, d.rest)
  /\ UNCHANGED <<hashDataMap, filesMetadata, chunkOwners, arrived, finder, replies, results>>

\* Variant: having gone through all chunks is enough.
FinishAnyway(n, f) ==
  LET d == download[n][f] IN
  /\ d.pc = "loop" /\ d.i \notin Index(f)
  /\ filesMetadata' = [filesMetadata EXCEPT ![n]["own"][f].size = Len(Chunks[f])]
  /\ download' = [download EXCEPT ![n][f] = Idle]
  /\ UNCHANGED <<hashDataMap, chunkOwners, hashChannels, arrived, finder,
                 requests, replies, results>>

\* All chunks were retrieved, and the file is saved; or it stays incomplete.
Finish(n, f) ==
  LET d == download[n][f] IN
  /\ d.pc = "loop" /\ d.i \notin Index(f)
  /\ filesMetadata' = IF d.got = Len(Chunks[f])
                      THEN [filesMetadata EXCEPT ![n]["own"][f].size = Len(Chunks[f])]
                      ELSE filesMetadata
  /\ download' = [download EXCEPT ![n][f] = Idle]
  /\ UNCHANGED <<hashDataMap, chunkOwners, hashChannels, arrived, finder,
                 requests, replies, results>>

-----------------------------------------------------------------------------
(* processDataRequest and processDataReply *)

\* Variant: an answer without data is taken for the data.
AnswerAnyway(m) ==
  /\ m \in requests /\ m.from \in Reachable[m.to]
  /\ replies' = replies \cup {[from |-> m.to, to |-> m.from, hash |-> m.hash]}
  /\ UNCHANGED <<hashDataMap, filesMetadata, chunkOwners, hashChannels, arrived,
                 download, finder, requests, results>>

\* A request for data that is not held is answered without data, which the
\* requester ignores.
processDataRequest(m) ==
  /\ m \in requests /\ m.hash \in hashDataMap[m.to] /\ m.from \in Reachable[m.to]
  /\ replies' = replies \cup {[from |-> m.to, to |-> m.from, hash |-> m.hash]}
  /\ UNCHANGED <<hashDataMap, filesMetadata, chunkOwners, hashChannels, arrived,
                 download, finder, requests, results>>

\* The goroutine that hands over r waits until someone reads from the channel.
processDataReply(r) ==
  /\ r \in replies /\ <<r.hash, r.from>> \in hashChannels[r.to]
  /\ arrived' = [arrived EXCEPT ![r.to] = @ \cup {<<r.hash, r.from>>}]
  /\ UNCHANGED <<hashDataMap, filesMetadata, chunkOwners, hashChannels,
                 download, finder, requests, replies, results>>

-----------------------------------------------------------------------------
(* Search results *)

\* searchMatchingLocalFiles at o for a search of n.
SendResult(o, n, k, f) ==
  LET e == filesMetadata[o][k][f] IN
  /\ n \in Searcher /\ n # o
  /\ e # NoMetadata /\ e.chunkMap # {}
  /\ results' = results \cup {[from |-> o, to |-> n, file |-> f, chunkMap |-> e.chunkMap]}
  /\ UNCHANGED <<hashDataMap, filesMetadata, chunkOwners, hashChannels, arrived,
                 download, finder, requests, replies>>

\* handleSearchResult: only the first result for a file is taken, and makes
\* the metadata; its goroutine asks for the metafile if that is needed.
handleSearchResult(r) ==
  LET n == r.to
      known == r.file \in hashDataMap[n]
  IN
  /\ r \in results /\ filesMetadata[n]["found"][r.file] = NoMetadata
  /\ filesMetadata' = [filesMetadata EXCEPT ![n]["found"][r.file] = Missing]
  /\ finder' = [finder EXCEPT ![n][r.file] =
       [pc |-> IF known THEN "enter" ELSE "metafile", peer |-> r.from, chunkMap |-> r.chunkMap]]
  /\ IF known THEN UNCHANGED <<hashChannels, requests>> ELSE Ask(n, r.from, r.file)
  /\ UNCHANGED <<hashDataMap, chunkOwners, arrived, download, replies, results>>

TakeFoundMetafile(n, f) ==
  LET g == finder[n][f] IN
  /\ g.pc = "metafile"
  /\ TakeReply(n, g.peer, f)
  /\ finder' = [finder EXCEPT ![n][f] = [g EXCEPT !.pc = "enter"]]
  /\ UNCHANGED <<filesMetadata, chunkOwners, hashChannels, download, requests, replies, results>>

\* The metafile is there: what the result says is entered.
EnterResult(n, f) ==
  LET g == finder[n][f] IN
  /\ g.pc = "enter"
  /\ chunkOwners' = [chunkOwners EXCEPT ![n] = updateChunkOwnerMap(@, g.peer, f, g.chunkMap)]
  /\ filesMetadata' = [filesMetadata EXCEPT ![n]["found"][f] =
                         updateChunkMap(@, f, hashDataMap[n])]
  /\ finder' = [finder EXCEPT ![n][f] = Idle]
  /\ UNCHANGED <<hashDataMap, hashChannels, arrived, download, requests, replies, results>>

GiveUpResult(n, f) ==
  /\ finder[n][f].pc = "metafile"
  /\ finder' = [finder EXCEPT ![n][f] = Idle]
  /\ UNCHANGED <<hashDataMap, filesMetadata, chunkOwners, hashChannels, arrived,
                 download, requests, replies, results>>

-----------------------------------------------------------------------------
\* The goroutine of a download.
DownloadStep(n, f) ==
  \/ TakeMetafile(n, f) \/ GiveUpMetafile(n, f) \/ OpenMetafile(n, f)
  \/ NextChunk(n, f) \/ TakeChunk(n, f) \/ GiveUpChunk(n, f) \/ Finish(n, f)

\* The goroutine of a search result.
FinderStep(n, f) == TakeFoundMetafile(n, f) \/ GiveUpResult(n, f) \/ EnterResult(n, f)

Next ==
  \/ \E n \in Node, f \in File :
       \/ IndexFile(n, f)
       \/ \E dest \in (Node \ {n}) \cup {NoPeer} : RequestFile(n, f, dest)
       \/ DownloadStep(n, f)
       \/ FinderStep(n, f)
       \/ \E o \in Node, k \in Key : SendResult(o, n, k, f)
  \/ \E m \in requests : processDataRequest(m)
  \/ \E r \in replies : processDataReply(r)
  \/ \E r \in results : handleSearchResult(r)

Spec == Init /\ [][Next]_vars

\* Goroutines run and their stop timers fire.
Scheduled ==
  \A n \in Node, f \in File : WF_vars(DownloadStep(n, f)) /\ WF_vars(FinderStep(n, f))

\* The network delivers what is sent again and again, a select takes a reply
\* that is there time after time, and clients go on asking every peer.
Persistent ==
  /\ \A n \in Node :
       /\ WF_vars(\E m \in requests : m.to = n /\ processDataRequest(m))
       /\ WF_vars(\E r \in replies : r.to = n /\ processDataReply(r))
  /\ \A n \in Node : \A f \in Wanted[n] :
       /\ SF_vars(TakeMetafile(n, f)) /\ SF_vars(TakeChunk(n, f))
       /\ \A p \in Node \ {n} : SF_vars(RequestFile(n, f, p))

FairSpec == Spec /\ Scheduled /\ Persistent

-----------------------------------------------------------------------------
TypeOK ==
  /\ hashDataMap \in [Node -> SUBSET Hash]
  /\ filesMetadata \in [Node -> [Key -> [File -> Metadata \cup {NoMetadata}]]]
  /\ chunkOwners \in [Node -> [Chunk -> SUBSET Node]]
  /\ hashChannels \in [Node -> SUBSET (Hash \X Node)]
  /\ arrived \in [Node -> SUBSET (Hash \X Node)]
  /\ download \in [Node -> [File -> DownloadState]]
  /\ finder \in [Node -> [File -> Finder]]
  /\ requests \subseteq Request
  /\ replies \subseteq Request
  /\ results \subseteq Result

\* processDataReply never fails its type assertion (mainhandler.go 156): a
\* reply that arrives, however late, finds the channel of the download that
\* asked for it, also after that was given up.
ReplyExpected == \A r \in replies : <<r.hash, r.from>> \in hashChannels[r.to]

Announced(n, f) ==
  UNION {filesMetadata[n][k][f].chunkMap : k \in {x \in Key : filesMetadata[n][x][f] # NoMetadata}}

\* What a node tells of itself in search results, and what the others make of
\* them long after, is true: the chunk maps and the owners of a chunk name
\* only nodes that hold the data and so can answer a request for it.
AnnouncedIsHeld ==
  /\ \A n \in Node, f \in File : Announced(n, f) \subseteq Held(f, hashDataMap[n])
  /\ \A r \in results : r.chunkMap \subseteq Held(r.file, hashDataMap[r.from])
  /\ \A n \in Node, h \in Chunk : \A p \in chunkOwners[n][h] : h \in hashDataMap[p]

Complete(n, f) ==
  filesMetadata[n]["own"][f] # NoMetadata /\ filesMetadata[n]["own"][f].size # 0

\* A file gets its size, and is written to disk, only when the node holds its
\* metafile and every chunk: chunks that were skipped because no peer answered
\* are not made up for by others, in whatever order replies come.
CompleteIsWhole ==
  \A n \in Node, f \in File :
    Complete(n, f) => f \in hashDataMap[n] /\ Held(f, hashDataMap[n]) = Index(f)

\* Of files, all that is ever held is what someone shares, copied from node to
\* node: replies that come late, twice or to another download than the one that
\* asked, and results about downloads that stopped halfway, make up no data, no
\* complete file and no owner.
Content == [f \in File |-> {f} \cup {Chunks[f][i] : i \in Index(f)}]
CompleteFiles == [n \in Node |-> {f \in File : Complete(n, f)}]
Sharing == INSTANCE FileSharing WITH
  held <- hashDataMap, whole <- CompleteFiles, owners <- chunkOwners
ImplementsSharing == Sharing!Spec

\* Variant: one chunk with an owner is enough.
IsPartialMatch(n, k, f) ==
  /\ filesMetadata[n][k][f] # NoMetadata /\ filesMetadata[n][k][f].size = 0
  /\ f \in hashDataMap[n]
  /\ \E i \in Index(f) : chunkOwners[n][Chunks[f][i]] # {}

\* checkAllChunksLocation and the test of isFileMatchThresholdReached.
IsMatch(n, k, f) ==
  /\ filesMetadata[n][k][f] # NoMetadata /\ filesMetadata[n][k][f].size = 0
  /\ f \in hashDataMap[n]
  /\ \A i \in Index(f) : chunkOwners[n][Chunks[f][i]] # {}

\* What a search counts as a full match can be downloaded without a
\* destination: every chunk has an owner that answers, although the owners were
\* learned piece by piece, from results and from downloads that stopped halfway.
MatchCanBeFetched ==
  \A n \in Node, k \in Key, f \in File : IsMatch(n, k, f) =>
    \A i \in Index(f) : \E p \in chunkOwners[n][Chunks[f][i]] : Chunks[f][i] \in hashDataMap[p]

\* A download ends, complete or not: every chunk is asked of every peer once
\* and each of them has the time of the stop timer.
DownloadEnds == \A n \in Node, f \in File : download[n][f] # Idle ~> download[n][f] = Idle

\* A client that goes on asking a node that has the file gets it, also if each
\* download by itself is given up before its replies come: data obtained stays
\* and a late reply waits for the next download.
PersistentClientIsServed ==
  \A n, p \in Node, f \in File :
    (/\ f \in Wanted[n] /\ n # p /\ p \in Reachable[n] /\ n \in Reachable[p]
     /\ Complete(p, f)) ~> f \in hashDataMap[n] /\ Held(f, hashDataMap[n]) = Index(f)
=============================================================================
