-------------------------- MODULE Download_proofs ---------------------------
(***************************************************************************)
(* Proofs about Download, for every set of nodes and files: types, every   *)
(* reply finds a channel, what is announced is held, and a file that is    *)
(* complete is whole.                                                      *)
(***************************************************************************)
EXTENDS Download, TLAPS

-----------------------------------------------------------------------------
(* The data structures. *)

\* The fields of a download by its program counter.
LEMMA DownloadFields ==
  ASSUME NEW d \in DownloadState
  PROVE  /\ d.pc \in {"idle", "metafile", "open", "loop", "chunk"}
         /\ d.pc = "idle" => d = Idle
         /\ d.pc = "metafile" => d.dest \in Node
         /\ d.pc # "idle" => d.dest \in Node \cup {NoPeer}
         /\ d.pc \in {"loop", "chunk"} => d.i \in Nat /\ d.got \in Nat
         /\ d.pc = "chunk" => d.peer \in Node /\ d.rest \in SUBSET Node
  BY DEF DownloadState, Idle

\* What the steps of a download make of it.
LEMMA DownloadForms ==
  ASSUME NEW e \in Node \cup {NoPeer}
  PROVE  /\ Idle \in DownloadState
         /\ \A q \in Node : [pc |-> "metafile", dest |-> q] \in DownloadState
         /\ [pc |-> "open", dest |-> e] \in DownloadState
         /\ [pc |-> "loop", dest |-> e, i |-> 1, got |-> 0] \in DownloadState
  BY DEF DownloadState, Idle

LEMMA LoopForm ==
  ASSUME NEW e \in Node \cup {NoPeer}, NEW i \in Nat, NEW k \in Nat
  PROVE  [pc |-> "loop", dest |-> e, i |-> i, got |-> k] \in DownloadState
  BY DEF DownloadState

LEMMA ChunkForm ==
  ASSUME NEW e \in Node \cup {NoPeer}, NEW i \in Nat, NEW k \in Nat,
         NEW q \in Node, NEW R \in SUBSET Node
  PROVE  [pc |-> "chunk", dest |-> e, i |-> i, got |-> k, peer |-> q, rest |-> R]
           \in DownloadState
  BY DEF DownloadState

\* The fields of the goroutine of a search result.
LEMMA FinderFields ==
  ASSUME NEW g \in Finder
  PROVE  /\ g.pc \in {"idle", "metafile", "enter"}
         /\ g.pc = "idle" => g = Idle
         /\ g.pc # "idle" => g.peer \in Node /\ g.chunkMap \in SUBSET Nat
         /\ g.pc = "metafile" => [g EXCEPT !.pc = "enter"] \in Finder
         /\ g.pc = "metafile" => [g EXCEPT !.pc = "enter"].peer = g.peer
         /\ g.pc = "metafile" => [g EXCEPT !.pc = "enter"].chunkMap = g.chunkMap
  BY DEF Finder, Idle

\* A metafile names chunks, and only these are held.
LEMMA ContentTypes ==
  ASSUME NEW f \in File
  PROVE  /\ Len(Chunks[f]) \in Nat \ {0}
         /\ Index(f) \subseteq Nat
         /\ \A i \in Index(f) : Chunks[f][i] \in Chunk /\ Chunks[f][i] \in Hash
         /\ f \in Hash
         /\ \A H : Held(f, H) \subseteq Index(f)
<1>1. Chunks[f] \in Seq(Chunk) /\ Chunks[f] # <<>>
  BY DownloadAssumption
<1>2. Len(Chunks[f]) \in Nat \ {0}
  BY <1>1
<1>3. \A i \in 1 .. Len(Chunks[f]) : Chunks[f][i] \in Chunk
  BY <1>1
<1>. QED
  BY <1>2, <1>3 DEF Index, Hash, Held

\* An entry of filesMetadata is made or kept.
LEMMA EntryTypes ==
  ASSUME NEW e \in Metadata \cup {NoMetadata}, NEW m \in Metadata
  PROVE  LoadOrStore(e, m) \in Metadata /\ Missing \in Metadata
BY DEF LoadOrStore, Metadata, Missing

\* An entry is extended by what is held.
LEMMA MetadataTypes ==
  ASSUME NEW f \in File, NEW H, NEW m \in Metadata
  PROVE  /\ updateChunkMap(m, f, H) \in Metadata
         /\ updateChunkMap(m, f, H).chunkMap = m.chunkMap \cup Held(f, H)
         /\ updateChunkMap(m, f, H).size = m.size
<1>1. Held(f, H) \subseteq Nat
  BY ContentTypes
<1>. QED
  BY <1>1 DEF Metadata, updateChunkMap

-----------------------------------------------------------------------------
(***************************************************************************)
(* Types, together with the entries of filesMetadata that a goroutine has  *)
(* made before it extends them, and the index of the chunk it asks for.    *)
(***************************************************************************)
Opened ==
  \A n \in Node, f \in File :
    /\ download[n][f].pc \in {"loop", "chunk"} => filesMetadata[n]["own"][f] \in Metadata
    /\ download[n][f].pc = "chunk" => download[n][f].i \in Index(f)
    /\ finder[n][f].pc # "idle" => filesMetadata[n]["found"][f] \in Metadata

LEMMA TypeInit == Init => TypeOK /\ Opened
BY DEF Init, TypeOK, Opened, Idle, DownloadState, Finder

\* Asking a peer for data keeps the types.
LEMMA AskType ==
  ASSUME TypeOK, NEW n \in Node, NEW p \in Node, NEW h \in Hash, Ask(n, p, h)
  PROVE  hashChannels' \in [Node -> SUBSET (Hash \X Node)] /\ requests' \subseteq Request
BY DEF TypeOK, Ask, Request

LEMMA TakeReplyType ==
  ASSUME TypeOK, NEW n \in Node, NEW p, NEW h \in Hash, TakeReply(n, p, h)
  PROVE  /\ arrived' \in [Node -> SUBSET (Hash \X Node)]
         /\ hashDataMap' \in [Node -> SUBSET Hash]
BY DEF TypeOK, TakeReply

LEMMA MetadataUpdateType ==
  ASSUME TypeOK, NEW n \in Node, NEW k \in Key, NEW f \in File, NEW e \in Metadata,
         filesMetadata' = [filesMetadata EXCEPT ![n][k][f] = e]
  PROVE  filesMetadata' \in [Node -> [Key -> [File -> Metadata \cup {NoMetadata}]]]
BY DEF TypeOK

LEMMA DownloadUpdateType ==
  ASSUME TypeOK, NEW n \in Node, NEW f \in File, NEW d \in DownloadState,
         download' = [download EXCEPT ![n][f] = d]
  PROVE  download' \in [Node -> [File -> DownloadState]]
BY DEF TypeOK

\* The loop over the peers asks one of them or is at its end.
LEMMA NextPeerType ==
  ASSUME TypeOK, NEW n \in Node, NEW f \in File, download[n][f].pc \in {"loop", "chunk"},
         download[n][f].i \in Index(f), NEW R \in SUBSET Node, NextPeer(n, f, R)
  PROVE  /\ download' \in [Node -> [File -> DownloadState]]
         /\ hashChannels' \in [Node -> SUBSET (Hash \X Node)]
         /\ requests' \subseteq Request
<1>. DEFINE d == download[n][f]
<1>1. d \in DownloadState
  BY DEF TypeOK
<1>2. d.dest \in Node \cup {NoPeer} /\ d.i \in Nat /\ d.got \in Nat
  BY <1>1, DownloadFields
<1>3. CASE R = {} /\ Proceed(n, f, d.got) /\ UNCHANGED <<hashChannels, requests>>
  <2>1. [pc |-> "loop", dest |-> d.dest, i |-> d.i + 1, got |-> d.got] \in DownloadState
    BY <1>2, d.i + 1 \in Nat, LoopForm
  <2>. QED BY <1>3, <2>1, DownloadUpdateType DEF Proceed, TypeOK
<1>4. ASSUME NEW p \in R, AskPeer(n, f, p, R \ {p})
      PROVE  /\ download' \in [Node -> [File -> DownloadState]]
             /\ hashChannels' \in [Node -> SUBSET (Hash \X Node)]
             /\ requests' \subseteq Request
  <2>1. [pc |-> "chunk", dest |-> d.dest, i |-> d.i, got |-> d.got, peer |-> p, rest |-> R \ {p}]
          \in DownloadState
    BY <1>2, R \ {p} \in SUBSET Node, ChunkForm
  <2>2. Chunks[f][d.i] \in Hash
    BY ContentTypes
  <2>. QED BY <1>4, <2>1, <2>2, DownloadUpdateType, AskType DEF AskPeer
<1>5. \/ R = {} /\ Proceed(n, f, d.got) /\ UNCHANGED <<hashChannels, requests>>
      \/ \E p \in R : AskPeer(n, f, p, R \ {p})
  BY Zenon DEF NextPeer
<1>. QED
  BY <1>3, <1>4, <1>5

\* Steps of the goroutine of a download.
LEMMA DownloadType ==
  ASSUME TypeOK, Opened, NEW n \in Node, NEW f \in File, DownloadStep(n, f)
  PROVE  TypeOK'
<1>. DEFINE d == download[n][f]
<1>1. d \in DownloadState
  BY DEF TypeOK
<1>2. n \in Node /\ f \in File /\ f \in Hash /\ "own" \in Key
  BY ContentTypes DEF Key
<1>3. /\ d.pc = "metafile" => d.dest \in Node
      /\ d.pc # "idle" => d.dest \in Node \cup {NoPeer}
      /\ d.pc \in {"loop", "chunk"} => d.i \in Nat /\ d.got \in Nat
      /\ d.pc = "chunk" => d.peer \in Node /\ d.rest \in SUBSET Node
  BY <1>1, DownloadFields
<1>4. filesMetadata[n]["own"][f] \in Metadata \cup {NoMetadata}
  BY <1>2 DEF TypeOK
<1>5. Idle \in DownloadState
  BY DEF DownloadState, Idle
<1>6. CASE TakeMetafile(n, f)
  <2>1. [pc |-> "open", dest |-> d.dest] \in DownloadState
    BY <1>3, <1>6, DownloadForms DEF TakeMetafile
  <2>2. download' \in [Node -> [File -> DownloadState]]
    BY <2>1, <1>6, DownloadUpdateType DEF TakeMetafile
  <2>3. /\ arrived' \in [Node -> SUBSET (Hash \X Node)]
        /\ hashDataMap' \in [Node -> SUBSET Hash]
    BY <1>2, <1>6, TakeReplyType DEF TakeMetafile
  <2>. QED BY <1>6, <2>2, <2>3 DEF TakeMetafile, TypeOK
<1>7. CASE GiveUpMetafile(n, f)
  <2>1. download' \in [Node -> [File -> DownloadState]]
    BY <1>5, <1>7, DownloadUpdateType DEF GiveUpMetafile
  <2>. QED BY <1>7, <2>1 DEF GiveUpMetafile, TypeOK
<1>8. CASE OpenMetafile(n, f)
  <2>. DEFINE e == updateChunkMap(LoadOrStore(filesMetadata[n]["own"][f], Missing), f, hashDataMap[n])
  <2>1. e \in Metadata
    BY <1>4, Missing \in Metadata, EntryTypes, MetadataTypes DEF Missing, Metadata
  <2>2. filesMetadata' = [filesMetadata EXCEPT ![n]["own"][f] = e]
    BY <1>8 DEF OpenMetafile
  <2>3. filesMetadata' \in [Node -> [Key -> [File -> Metadata \cup {NoMetadata}]]]
    <3>. HIDE DEF e
    <3>. QED BY <1>2, <2>1, <2>2, MetadataUpdateType
  <2>4. PICK w \in DownloadState : download' = [download EXCEPT ![n][f] = w]
    <3>1. d.dest \in Node \cup {NoPeer}
      BY <1>3, <1>8 DEF OpenMetafile
    <3>2. [pc |-> "loop", dest |-> d.dest, i |-> 1, got |-> 0] \in DownloadState
      BY <3>1, DownloadForms
    <3>. QED BY <3>2, <1>5, <1>8 DEF OpenMetafile
  <2>5. download' \in [Node -> [File -> DownloadState]]
    BY <2>4, DownloadUpdateType
  <2>. QED BY <1>8, <2>3, <2>5 DEF OpenMetafile, TypeOK
<1>9. CASE NextChunk(n, f)
  <2>. DEFINE h == Chunks[f][d.i]
  <2>1. d.pc = "loop" /\ d.i \in Index(f) /\ h \in Chunk /\ h \in Hash
    BY <1>9, ContentTypes DEF NextChunk
  <2>2. chunkOwners[n][h] \in SUBSET Node
    BY <2>1 DEF TypeOK
  <2>3. /\ download' \in [Node -> [File -> DownloadState]]
        /\ hashChannels' \in [Node -> SUBSET (Hash \X Node)]
        /\ requests' \subseteq Request
    <3>1. CASE h \in hashDataMap[n]
      <4>1. Proceed(n, f, d.got + 1) /\ UNCHANGED <<hashChannels, requests>>
        BY <1>9, <3>1 DEF NextChunk
      <4>2. [pc |-> "loop", dest |-> d.dest, i |-> d.i + 1, got |-> d.got + 1] \in DownloadState
        BY <1>3, <2>1, d.i + 1 \in Nat, d.got + 1 \in Nat, LoopForm
      <4>3. download' \in [Node -> [File -> DownloadState]]
        BY <4>1, <4>2, DownloadUpdateType DEF Proceed
      <4>. QED BY <4>1, <4>3 DEF TypeOK
    <3>2. CASE h \notin hashDataMap[n] /\ d.dest # NoPeer
      <4>1. AskPeer(n, f, d.dest, chunkOwners[n][h])
        BY <1>9, <3>2 DEF NextChunk
      <4>2. d.dest \in Node
        BY <1>3, <2>1, <3>2
      <4>3. [pc |-> "chunk", dest |-> d.dest, i |-> d.i, got |-> d.got, peer |-> d.dest,
             rest |-> chunkOwners[n][h]] \in DownloadState
        BY <1>3, <2>1, <2>2, <4>2, ChunkForm
      <4>. QED BY <2>1, <4>1, <4>2, <4>3, AskType, DownloadUpdateType DEF AskPeer
    <3>3. CASE h \notin hashDataMap[n] /\ d.dest = NoPeer
      <4>1. NextPeer(n, f, chunkOwners[n][h])
        BY <1>9, <3>3 DEF NextChunk
      <4>. QED BY <2>1, <2>2, <4>1, NextPeerType
    <3>. QED BY <3>1, <3>2, <3>3
  <2>. QED BY <1>9, <2>3 DEF NextChunk, TypeOK
<1>10. CASE TakeChunk(n, f)
  <2>. DEFINE h == Chunks[f][d.i]
  <2>1. d.pc = "chunk" /\ TakeReply(n, d.peer, h) /\ Proceed(n, f, d.got + 1)
    BY <1>10 DEF TakeChunk
  <2>2. <<h, d.peer>> \in Hash \X Node
    BY <2>1 DEF TakeReply, TypeOK
  <2>3. /\ arrived' \in [Node -> SUBSET (Hash \X Node)]
        /\ hashDataMap' \in [Node -> SUBSET Hash]
    BY <2>1, <2>2, TakeReplyType
  <2>4. [pc |-> "loop", dest |-> d.dest, i |-> d.i + 1, got |-> d.got + 1] \in DownloadState
    BY <1>3, <2>1, d.i + 1 \in Nat, d.got + 1 \in Nat, LoopForm
  <2>5. download' \in [Node -> [File -> DownloadState]]
    BY <2>1, <2>4, DownloadUpdateType DEF Proceed
  <2>6. chunkOwners' \in [Node -> [Chunk -> SUBSET Node]]
    <3>1. h \in Chunk
      BY <2>1, ContentTypes DEF Opened
    <3>. QED BY <1>3, <1>10, <2>1, <3>1 DEF TakeChunk, TypeOK
  <2>7. filesMetadata' \in [Node -> [Key -> [File -> Metadata \cup {NoMetadata}]]]
    <3>1. filesMetadata' = [filesMetadata EXCEPT ![n]["own"][f].chunkMap = @ \cup {d.i}]
      BY <1>10 DEF TakeChunk
    <3>2. [filesMetadata[n]["own"][f] EXCEPT !.chunkMap = @ \cup {d.i}] \in Metadata
      BY <1>3, <2>1 DEF Metadata, Opened
    <3>. QED BY <1>2, <3>1, <3>2, MetadataUpdateType
  <2>. QED BY <1>10, <2>3, <2>5, <2>6, <2>7 DEF TakeChunk, TypeOK
<1>11. CASE GiveUpChunk(n, f)
  <2>1. d.pc = "chunk" /\ NextPeer(n, f, d.rest)
    BY <1>11 DEF GiveUpChunk
  <2>2. d.i \in Index(f)
    BY <2>1 DEF Opened
  <2>3. /\ download' \in [Node -> [File -> DownloadState]]
        /\ hashChannels' \in [Node -> SUBSET (Hash \X Node)]
        /\ requests' \subseteq Request
    BY <1>3, <2>1, <2>2, NextPeerType
  <2>. QED BY <1>11, <2>3 DEF GiveUpChunk, TypeOK
<1>12. CASE Finish(n, f)
  <2>1. download' \in [Node -> [File -> DownloadState]]
    BY <1>5, <1>12, DownloadUpdateType DEF Finish
  <2>2. filesMetadata[n]["own"][f] \in Metadata
    BY <1>12 DEF Finish, Opened
  <2>3. [filesMetadata[n]["own"][f] EXCEPT !.size = Len(Chunks[f])] \in Metadata
    BY <2>2, ContentTypes DEF Metadata
  <2>4. \/ UNCHANGED filesMetadata
        \/ filesMetadata' = [filesMetadata EXCEPT ![n]["own"][f].size = Len(Chunks[f])]
    BY <1>12 DEF Finish
  <2>5. filesMetadata' \in [Node -> [Key -> [File -> Metadata \cup {NoMetadata}]]]
    <3>1. CASE UNCHANGED filesMetadata
      BY <3>1 DEF TypeOK
    <3>2. CASE filesMetadata' = [filesMetadata EXCEPT ![n]["own"][f].size = Len(Chunks[f])]
      BY <1>2, <2>3, <3>2, MetadataUpdateType
    <3>. QED BY <2>4, <3>1, <3>2
  <2>. QED BY <1>12, <2>1, <2>5 DEF Finish, TypeOK
<1>. QED
  BY <1>6, <1>7, <1>8, <1>9, <1>10, <1>11, <1>12 DEF DownloadStep

\* Indexing, and the request of a client.
LEMMA ClientType ==
  ASSUME TypeOK, NEW n \in Node, NEW f \in File, NEW dest \in Node \cup {NoPeer},
         IndexFile(n, f) \/ RequestFile(n, f, dest)
  PROVE  TypeOK'
<1>1. f \in Hash /\ "own" \in Key /\ \A i \in Index(f) : Chunks[f][i] \in Hash
  BY ContentTypes DEF Key
<1>2. CASE IndexFile(n, f)
  <2>. DEFINE whole == [chunkMap |-> Index(f), size |-> Len(Chunks[f])]
              e == LoadOrStore(filesMetadata[n]["own"][f], whole)
  <2>1. whole \in Metadata
    BY ContentTypes DEF Metadata
  <2>2. filesMetadata[n]["own"][f] \in Metadata \cup {NoMetadata}
    BY <1>1 DEF TypeOK
  <2>3. e \in Metadata
    <3>. HIDE DEF whole
    <3>. QED BY <2>1, <2>2, EntryTypes
  <2>4. filesMetadata' = [filesMetadata EXCEPT ![n]["own"][f] = e]
    BY <1>2 DEF IndexFile
  <2>5. filesMetadata' \in [Node -> [Key -> [File -> Metadata \cup {NoMetadata}]]]
    <3>. HIDE DEF e
    <3>. QED BY <1>1, <2>3, <2>4, MetadataUpdateType
  <2>6. hashDataMap' \in [Node -> SUBSET Hash]
    BY <1>1, <1>2 DEF IndexFile, TypeOK
  <2>. QED BY <1>2, <2>5, <2>6 DEF IndexFile, TypeOK
<1>3. CASE RequestFile(n, f, dest)
  <2>1. CASE f \in hashDataMap[n]
    <3>1. [pc |-> "open", dest |-> dest] \in DownloadState
      BY DownloadForms
    <3>2. download' \in [Node -> [File -> DownloadState]]
      BY <1>3, <2>1, <3>1, DownloadUpdateType DEF RequestFile
    <3>. QED BY <1>3, <2>1, <3>2 DEF RequestFile, TypeOK
  <2>2. CASE f \notin hashDataMap[n]
    <3>1. dest \in Node /\ Ask(n, dest, f)
      BY <1>3, <2>2 DEF RequestFile
    <3>2. [pc |-> "metafile", dest |-> dest] \in DownloadState
      BY <3>1 DEF DownloadState
    <3>3. download' \in [Node -> [File -> DownloadState]]
      BY <1>3, <2>2, <3>2, DownloadUpdateType DEF RequestFile
    <3>4. hashChannels' \in [Node -> SUBSET (Hash \X Node)] /\ requests' \subseteq Request
      BY <1>1, <3>1, AskType
    <3>. QED BY <1>3, <3>3, <3>4 DEF RequestFile, TypeOK
  <2>. QED BY <2>1, <2>2
<1>. QED
  BY <1>2, <1>3

\* Requests, replies and results of other nodes.
LEMMA MessageType ==
  ASSUME TypeOK, NEW m,
         processDataRequest(m) \/ processDataReply(m) \/ handleSearchResult(m)
  PROVE  TypeOK'
<1>1. CASE processDataRequest(m)
  <2>1. m \in Request
    BY <1>1 DEF processDataRequest, TypeOK
  <2>2. [from |-> m.to, to |-> m.from, hash |-> m.hash] \in Request
    BY <2>1 DEF Request
  <2>. QED BY <1>1, <2>2 DEF processDataRequest, TypeOK
<1>2. CASE processDataReply(m)
  <2>1. m.to \in Node /\ <<m.hash, m.from>> \in Hash \X Node
    BY <1>2 DEF processDataReply, TypeOK, Request
  <2>. QED BY <1>2, <2>1 DEF processDataReply, TypeOK
<1>3. CASE handleSearchResult(m)
  <2>. DEFINE n == m.to
              g == [pc |-> IF m.file \in hashDataMap[n] THEN "enter" ELSE "metafile",
                    peer |-> m.from, chunkMap |-> m.chunkMap]
  <2>1. /\ n \in Node /\ m.from \in Node /\ m.file \in File /\ m.chunkMap \in SUBSET Nat
        /\ m.file \in Hash /\ "found" \in Key
    BY <1>3 DEF handleSearchResult, TypeOK, Result, Hash, Key
  <2>2. g \in Finder
    BY <2>1 DEF Finder
  <2>3. finder' = [finder EXCEPT ![n][m.file] = g]
    BY <1>3 DEF handleSearchResult
  <2>4. finder' \in [Node -> [File -> Finder]]
    <3>. HIDE DEF g
    <3>. QED BY <2>1, <2>2, <2>3 DEF TypeOK
  <2>5. filesMetadata' \in [Node -> [Key -> [File -> Metadata \cup {NoMetadata}]]]
    <3>1. Missing \in Metadata
      BY DEF Missing, Metadata
    <3>. QED BY <1>3, <2>1, <3>1, MetadataUpdateType DEF handleSearchResult
  <2>6. hashChannels' \in [Node -> SUBSET (Hash \X Node)] /\ requests' \subseteq Request
    <3>1. CASE m.file \in hashDataMap[n]
      BY <1>3, <3>1 DEF handleSearchResult, TypeOK
    <3>2. CASE m.file \notin hashDataMap[n]
      <4>1. Ask(n, m.from, m.file)
        BY <1>3, <3>2 DEF handleSearchResult
      <4>. QED BY <2>1, <4>1, AskType
    <3>. QED BY <3>1, <3>2
  <2>. QED BY <1>3, <2>4, <2>5, <2>6 DEF handleSearchResult, TypeOK
<1>. QED
  BY <1>1, <1>2, <1>3

\* Sending a result, and the goroutine of a result.
LEMMA ResultType ==
  ASSUME TypeOK, Opened, NEW n \in Node, NEW f \in File,
         FinderStep(n, f) \/ \E o \in Node, k \in Key : SendResult(o, n, k, f)
  PROVE  TypeOK'
<1>. DEFINE g == finder[n][f]
<1>1. g \in Finder /\ f \in Hash /\ Idle \in Finder /\ "found" \in Key
  BY ContentTypes DEF TypeOK, Finder, Idle, Key
<1>2. ASSUME NEW o \in Node, NEW k \in Key, SendResult(o, n, k, f)
      PROVE  TypeOK'
  <2>1. filesMetadata[o][k][f] \in Metadata
    BY <1>2 DEF SendResult, TypeOK
  <2>2. [from |-> o, to |-> n, file |-> f, chunkMap |-> filesMetadata[o][k][f].chunkMap] \in Result
    BY <2>1 DEF Result, Metadata
  <2>. QED BY <1>2, <2>2 DEF SendResult, TypeOK
<1>3. CASE TakeFoundMetafile(n, f)
  <2>1. [g EXCEPT !.pc = "enter"] \in Finder
    BY <1>1, <1>3, FinderFields DEF TakeFoundMetafile
  <2>2. /\ arrived' \in [Node -> SUBSET (Hash \X Node)]
        /\ hashDataMap' \in [Node -> SUBSET Hash]
    BY <1>1, <1>3, TakeReplyType DEF TakeFoundMetafile
  <2>. QED BY <1>3, <2>1, <2>2 DEF TakeFoundMetafile, TypeOK
<1>4. CASE GiveUpResult(n, f)
  BY <1>1, <1>4 DEF GiveUpResult, TypeOK
<1>5. CASE EnterResult(n, f)
  <2>. DEFINE e == updateChunkMap(filesMetadata[n]["found"][f], f, hashDataMap[n])
  <2>1. g.peer \in Node /\ filesMetadata[n]["found"][f] \in Metadata
    BY <1>1, <1>5, FinderFields DEF EnterResult, Opened
  <2>2. e \in Metadata
    BY <2>1, MetadataTypes
  <2>3. filesMetadata' = [filesMetadata EXCEPT ![n]["found"][f] = e]
    BY <1>5 DEF EnterResult
  <2>4. filesMetadata' \in [Node -> [Key -> [File -> Metadata \cup {NoMetadata}]]]
    <3>. HIDE DEF e
    <3>. QED BY <1>1, <2>2, <2>3, MetadataUpdateType
  <2>5. chunkOwners' \in [Node -> [Chunk -> SUBSET Node]]
    BY <1>5, <2>1 DEF EnterResult, updateChunkOwnerMap, TypeOK
  <2>. QED BY <1>1, <1>5, <2>4, <2>5 DEF EnterResult, TypeOK
<1>. QED
  BY <1>2, <1>3, <1>4, <1>5 DEF FinderStep

LEMMA TypeStep == TypeOK /\ Opened /\ [Next]_vars => TypeOK'
<1>. SUFFICES ASSUME TypeOK, Opened, [Next]_vars PROVE TypeOK'
  OBVIOUS
<1>1. CASE UNCHANGED vars
  BY <1>1 DEF vars, TypeOK
<1>2. ASSUME NEW n \in Node, NEW f \in File, IndexFile(n, f)
      PROVE  TypeOK'
  BY <1>2, ClientType
<1>3. ASSUME NEW n \in Node, NEW f \in File,
             NEW dest \in (Node \ {n}) \cup {NoPeer}, RequestFile(n, f, dest)
      PROVE  TypeOK'
  BY <1>3, dest \in Node \cup {NoPeer}, ClientType
<1>4. ASSUME NEW n \in Node, NEW f \in File, DownloadStep(n, f)
      PROVE  TypeOK'
  BY <1>4, DownloadType
<1>5. ASSUME NEW n \in Node, NEW f \in File,
             FinderStep(n, f) \/ \E o \in Node, k \in Key : SendResult(o, n, k, f)
      PROVE  TypeOK'
  BY <1>5, ResultType
<1>6. ASSUME NEW m, processDataRequest(m) \/ processDataReply(m) \/ handleSearchResult(m)
      PROVE  TypeOK'
  BY <1>6, MessageType
<1>. QED
  BY <1>1, <1>2, <1>3, <1>4, <1>5, <1>6 DEF Next

\* Data, channels and entries of filesMetadata are never taken back.
Grows ==
  /\ \A n \in Node : hashDataMap[n] \subseteq hashDataMap'[n]
  /\ \A n \in Node : hashChannels[n] \subseteq hashChannels'[n]
  /\ \A n \in Node, k \in Key, f \in File :
       filesMetadata[n][k][f] \in Metadata => filesMetadata'[n][k][f] \in Metadata

LEMMA MetadataGrows ==
  ASSUME TypeOK, NEW n \in Node, NEW j \in Key, NEW f \in File, NEW e \in Metadata,
         filesMetadata' = [filesMetadata EXCEPT ![n][j][f] = e]
  PROVE  \A q \in Node, k \in Key, g \in File :
           filesMetadata[q][k][g] \in Metadata => filesMetadata'[q][k][g] \in Metadata
BY DEF TypeOK

LEMMA TakeReplyGrows ==
  ASSUME TypeOK, NEW n \in Node, NEW p, NEW h, TakeReply(n, p, h)
  PROVE  \A q \in Node : hashDataMap[q] \subseteq hashDataMap'[q]
BY DEF TakeReply, TypeOK

LEMMA AskGrows ==
  ASSUME TypeOK, NEW n \in Node, NEW p, NEW h, Ask(n, p, h)
  PROVE  \A q \in Node : hashChannels[q] \subseteq hashChannels'[q]
BY DEF Ask, TypeOK

\* The loop over the peers opens at most a channel.
LEMMA NextPeerGrows ==
  ASSUME TypeOK, NEW n \in Node, NEW f, NEW R, NextPeer(n, f, R)
  PROVE  \A q \in Node : hashChannels[q] \subseteq hashChannels'[q]
BY AskGrows DEF NextPeer, AskPeer

LEMMA DownloadGrows ==
  ASSUME TypeOK, Opened, NEW n \in Node, NEW f \in File, DownloadStep(n, f)
  PROVE  Grows
<1>. DEFINE d == download[n][f]
<1>. "own" \in Key
  BY DEF Key
<1>1. CASE TakeMetafile(n, f) \/ GiveUpMetafile(n, f)
  BY <1>1, TakeReplyGrows DEF TakeMetafile, GiveUpMetafile, Grows
<1>2. CASE OpenMetafile(n, f)
  <2>. DEFINE e == updateChunkMap(LoadOrStore(filesMetadata[n]["own"][f], Missing), f, hashDataMap[n])
  <2>0. Missing \in Metadata /\ filesMetadata[n]["own"][f] \in Metadata \cup {NoMetadata}
    BY DEF Missing, Metadata, TypeOK
  <2>1. e \in Metadata
    BY <2>0, EntryTypes, MetadataTypes
  <2>2. filesMetadata' = [filesMetadata EXCEPT ![n]["own"][f] = e]
    BY <1>2 DEF OpenMetafile
  <2>3. \A q \in Node, k \in Key, g \in File :
          filesMetadata[q][k][g] \in Metadata => filesMetadata'[q][k][g] \in Metadata
    <3>. HIDE DEF e
    <3>. QED BY <2>1, <2>2, MetadataGrows
  <2>. QED BY <1>2, <2>3 DEF OpenMetafile, Grows
<1>3. CASE NextChunk(n, f)
  <2>1. \A q \in Node : hashChannels[q] \subseteq hashChannels'[q]
    BY <1>3, NextPeerGrows, AskGrows DEF NextChunk, AskPeer
  <2>. QED BY <1>3, <2>1 DEF NextChunk, Grows
<1>4. CASE TakeChunk(n, f)
  <2>1. \A q \in Node : hashDataMap[q] \subseteq hashDataMap'[q]
    BY <1>4, TakeReplyGrows DEF TakeChunk
  <2>2. [filesMetadata[n]["own"][f] EXCEPT !.chunkMap = @ \cup {d.i}] \in Metadata
    <3>1. d \in DownloadState /\ d.pc = "chunk"
      BY <1>4 DEF TakeChunk, TypeOK
    <3>2. d.i \in Nat /\ filesMetadata[n]["own"][f] \in Metadata
      BY <3>1, DownloadFields DEF Opened
    <3>. QED BY <3>2 DEF Metadata
  <2>3. filesMetadata' = [filesMetadata EXCEPT ![n]["own"][f].chunkMap = @ \cup {d.i}]
    BY <1>4 DEF TakeChunk
  <2>4. \A q \in Node, k \in Key, g \in File :
          filesMetadata[q][k][g] \in Metadata => filesMetadata'[q][k][g] \in Metadata
    BY <2>2, <2>3, MetadataGrows
  <2>. QED BY <1>4, <2>1, <2>4 DEF TakeChunk, Grows
<1>5. CASE GiveUpChunk(n, f)
  BY <1>5, NextPeerGrows DEF GiveUpChunk, Grows
<1>6. CASE Finish(n, f)
  <2>1. [filesMetadata[n]["own"][f] EXCEPT !.size = Len(Chunks[f])] \in Metadata
    BY <1>6, ContentTypes DEF Finish, Metadata, Opened
  <2>2. \/ UNCHANGED filesMetadata
        \/ filesMetadata' = [filesMetadata EXCEPT ![n]["own"][f].size = Len(Chunks[f])]
    BY <1>6 DEF Finish
  <2>3. \A q \in Node, k \in Key, g \in File :
          filesMetadata[q][k][g] \in Metadata => filesMetadata'[q][k][g] \in Metadata
    BY <2>1, <2>2, MetadataGrows
  <2>. QED BY <1>6, <2>3 DEF Finish, Grows
<1>. QED
  BY <1>1, <1>2, <1>3, <1>4, <1>5, <1>6 DEF DownloadStep

LEMMA GrowsStep == TypeOK /\ Opened /\ [Next]_vars => Grows
<1>. SUFFICES ASSUME TypeOK, Opened, [Next]_vars PROVE Grows
  OBVIOUS
<1>0. TypeOK' /\ "own" \in Key /\ "found" \in Key /\ Missing \in Metadata
  BY TypeStep DEF Key, Missing, Metadata
<1>1. CASE UNCHANGED vars
  BY <1>1 DEF vars, Grows
<1>2. ASSUME NEW n \in Node, NEW f \in File, IndexFile(n, f)
      PROVE  Grows
  <2>. DEFINE whole == [chunkMap |-> Index(f), size |-> Len(Chunks[f])]
              e == LoadOrStore(filesMetadata[n]["own"][f], whole)
  <2>1. whole \in Metadata
    BY ContentTypes DEF Metadata
  <2>2. filesMetadata[n]["own"][f] \in Metadata \cup {NoMetadata}
    BY <1>0 DEF TypeOK
  <2>3. e \in Metadata
    <3>. HIDE DEF whole
    <3>. QED BY <2>1, <2>2, EntryTypes
  <2>4. filesMetadata' = [filesMetadata EXCEPT ![n]["own"][f] = e]
    BY <1>2 DEF IndexFile
  <2>5. \A q \in Node, k \in Key, g \in File :
          filesMetadata[q][k][g] \in Metadata => filesMetadata'[q][k][g] \in Metadata
    <3>. HIDE DEF e
    <3>. QED BY <1>0, <2>3, <2>4, MetadataGrows
  <2>6. \A q \in Node : hashDataMap[q] \subseteq hashDataMap'[q]
    BY <1>2 DEF IndexFile, TypeOK
  <2>. QED BY <1>2, <2>5, <2>6 DEF IndexFile, Grows
<1>3. ASSUME NEW n \in Node, NEW f \in File,
             NEW dest \in (Node \ {n}) \cup {NoPeer}, RequestFile(n, f, dest)
      PROVE  Grows
  BY <1>3, AskGrows DEF RequestFile, Grows
<1>4. ASSUME NEW n \in Node, NEW f \in File, DownloadStep(n, f)
      PROVE  Grows
  BY <1>0, <1>4, DownloadGrows
<1>5. ASSUME NEW n \in Node, NEW f \in File, FinderStep(n, f)
      PROVE  Grows
  <2>1. CASE TakeFoundMetafile(n, f) \/ GiveUpResult(n, f)
    BY <2>1, TakeReplyGrows DEF TakeFoundMetafile, GiveUpResult, Grows
  <2>2. CASE EnterResult(n, f)
    <3>. DEFINE e == updateChunkMap(filesMetadata[n]["found"][f], f, hashDataMap[n])
    <3>1. e \in Metadata
      BY <2>2, MetadataTypes DEF EnterResult, Opened
    <3>2. filesMetadata' = [filesMetadata EXCEPT ![n]["found"][f] = e]
      BY <2>2 DEF EnterResult
    <3>3. \A q \in Node, k \in Key, g \in File :
            filesMetadata[q][k][g] \in Metadata => filesMetadata'[q][k][g] \in Metadata
      <4>. HIDE DEF e
      <4>. QED BY <1>0, <3>1, <3>2, MetadataGrows
    <3>. QED BY <2>2, <3>3 DEF EnterResult, Grows
  <2>. QED BY <1>5, <2>1, <2>2 DEF FinderStep
<1>6. ASSUME NEW n, NEW f, NEW o, NEW k, SendResult(o, n, k, f)
      PROVE  Grows
  BY <1>6 DEF SendResult, Grows
<1>7. ASSUME NEW m, processDataRequest(m) \/ processDataReply(m)
      PROVE  Grows
  BY <1>7 DEF processDataRequest, processDataReply, Grows
<1>8. ASSUME NEW m, handleSearchResult(m)
      PROVE  Grows
  <2>0. m.to \in Node /\ m.file \in File
    BY <1>8 DEF handleSearchResult, TypeOK, Result
  <2>1. filesMetadata' = [filesMetadata EXCEPT ![m.to]["found"][m.file] = Missing]
    BY <1>8 DEF handleSearchResult
  <2>2. \A q \in Node, k \in Key, g \in File :
          filesMetadata[q][k][g] \in Metadata => filesMetadata'[q][k][g] \in Metadata
    BY <1>0, <2>0, <2>1, MetadataGrows
  <2>3. \A q \in Node : hashChannels[q] \subseteq hashChannels'[q]
    BY <1>8, <2>0, AskGrows DEF handleSearchResult
  <2>. QED BY <1>8, <2>2, <2>3 DEF handleSearchResult, Grows
<1>. QED
  BY <1>1, <1>2, <1>3, <1>4, <1>5, <1>6, <1>7, <1>8 DEF Next

-----------------------------------------------------------------------------
(***************************************************************************)
(* How a step changes one download: not at all, or it is before its loop,  *)
(* enters it with the metafile, goes on to the next chunk, or asks for the *)
(* chunk of the current index.                                             *)
(***************************************************************************)
Before(e) == e.pc \in {"idle", "metafile", "open"}
InLoop(e) == e.pc \in {"loop", "chunk"}

DownloadMove(n, f) ==
  LET d == download[n][f]
      e == download'[n][f]
  IN
  \/ e = d
  \/ /\ Before(e)
     /\ e.pc = "open" => f \in hashDataMap'[n]
  \/ /\ d.pc = "open" /\ e.pc = "loop" /\ e.i = 1 /\ e.got = 0
     /\ filesMetadata'[n]["own"][f] \in Metadata
  \/ /\ InLoop(d) /\ d.i \in Index(f)
     /\ e.pc = "loop" /\ e.i = d.i + 1
     /\ \/ e.got = d.got
        \/ e.got = d.got + 1 /\ Chunks[f][d.i] \in hashDataMap'[n]
  \/ InLoop(d) /\ d.i \in Index(f) /\ e.pc = "chunk" /\ e.i = d.i /\ e.got = d.got

LEMMA NextPeerMove ==
  ASSUME TypeOK, NEW n \in Node, NEW f \in File, InLoop(download[n][f]),
         download[n][f].i \in Index(f), NEW R, NextPeer(n, f, R)
  PROVE  DownloadMove(n, f)
BY DEF NextPeer, Proceed, AskPeer, DownloadMove, TypeOK

LEMMA DownloadMoves ==
  ASSUME TypeOK, TypeOK', Opened, NEW n \in Node, NEW f \in File, DownloadStep(n, f)
  PROVE  DownloadMove(n, f)
<1>. DEFINE d == download[n][f]
<1>. "own" \in Key
  BY DEF Key
<1>1. CASE TakeMetafile(n, f)
  BY <1>1 DEF TakeMetafile, TakeReply, DownloadMove, Before, TypeOK
<1>2. CASE GiveUpMetafile(n, f)
  BY <1>2 DEF GiveUpMetafile, DownloadMove, Before, Idle, TypeOK
<1>3. CASE OpenMetafile(n, f)
  <2>. DEFINE e == updateChunkMap(LoadOrStore(filesMetadata[n]["own"][f], Missing), f, hashDataMap[n])
  <2>0. Missing \in Metadata /\ filesMetadata[n]["own"][f] \in Metadata \cup {NoMetadata}
    BY DEF Missing, Metadata, TypeOK
  <2>1. e \in Metadata
    BY <2>0, EntryTypes, MetadataTypes
  <2>2. d.pc = "open" /\ filesMetadata' = [filesMetadata EXCEPT ![n]["own"][f] = e]
    BY <1>3 DEF OpenMetafile
  <2>3. filesMetadata'[n]["own"][f] \in Metadata
    <3>. HIDE DEF e
    <3>. QED BY <2>1, <2>2 DEF TypeOK
  <2>4. \/ download'[n][f] = Idle
        \/ download'[n][f] = [pc |-> "loop", dest |-> d.dest, i |-> 1, got |-> 0]
    BY <1>3 DEF OpenMetafile, TypeOK
  <2>. QED BY <2>2, <2>3, <2>4 DEF DownloadMove, Before, Idle
<1>4. CASE NextChunk(n, f)
  <2>1. d.pc = "loop" /\ d.i \in Index(f) /\ InLoop(d) /\ UNCHANGED hashDataMap
    BY <1>4 DEF NextChunk, InLoop
  <2>2. CASE Chunks[f][d.i] \in hashDataMap[n]
    <3>1. Proceed(n, f, d.got + 1)
      BY <1>4, <2>2 DEF NextChunk
    <3>. QED BY <2>1, <2>2, <3>1 DEF Proceed, DownloadMove, TypeOK
  <2>3. ASSUME NEW p, NEW R, AskPeer(n, f, p, R)
        PROVE  DownloadMove(n, f)
    BY <2>1, <2>3 DEF AskPeer, DownloadMove, TypeOK
  <2>4. ASSUME NEW R, NextPeer(n, f, R)
        PROVE  DownloadMove(n, f)
    BY <2>1, <2>4, NextPeerMove
  <2>. QED BY <1>4, <2>2, <2>3, <2>4 DEF NextChunk
<1>5. CASE TakeChunk(n, f)
  <2>1. d.pc = "chunk" /\ d.i \in Index(f) /\ InLoop(d)
    BY <1>5 DEF TakeChunk, Opened, InLoop
  <2>2. TakeReply(n, d.peer, Chunks[f][d.i]) /\ Proceed(n, f, d.got + 1)
    BY <1>5 DEF TakeChunk
  <2>. QED BY <2>1, <2>2 DEF TakeReply, Proceed, DownloadMove, TypeOK
<1>6. CASE GiveUpChunk(n, f)
  <2>1. d.i \in Index(f) /\ InLoop(d) /\ NextPeer(n, f, d.rest)
    BY <1>6 DEF GiveUpChunk, Opened, InLoop
  <2>. QED BY <2>1, NextPeerMove
<1>7. CASE Finish(n, f)
  BY <1>7 DEF Finish, DownloadMove, Before, Idle, TypeOK
<1>. QED
  BY <1>1, <1>2, <1>3, <1>4, <1>5, <1>6, <1>7 DEF DownloadStep

\* A download takes its own steps only, but for the request that starts it.
LEMMA DownloadFrame ==
  ASSUME TypeOK, Opened, [Next]_vars, NEW n \in Node, NEW f \in File
  PROVE  DownloadMove(n, f)
<1>. TypeOK'
  BY TypeStep
<1>1. CASE UNCHANGED download
  BY <1>1 DEF DownloadMove
<1>2. ASSUME NEW m \in Node, NEW g \in File, NEW dest, RequestFile(m, g, dest)
      PROVE  DownloadMove(n, f)
  <2>1. PICK w : /\ download' = [download EXCEPT ![m][g] = w]
                 /\ Before(w) /\ (w.pc = "open" => g \in hashDataMap'[m])
    <3>1. CASE g \in hashDataMap[m]
      <4>1. /\ download' = [download EXCEPT ![m][g] = [pc |-> "open", dest |-> dest]]
            /\ hashDataMap' = hashDataMap
        BY <1>2, <3>1 DEF RequestFile
      <4>. QED BY <3>1, <4>1 DEF Before
    <3>2. CASE g \notin hashDataMap[m]
      <4>. DEFINE v == [pc |-> "metafile", dest |-> dest]
      <4>1. download' = [download EXCEPT ![m][g] = v]
        BY <1>2, <3>2 DEF RequestFile
      <4>2. Before(v) /\ v.pc # "open"
        BY DEF Before
      <4>. HIDE DEF v
      <4>. QED BY <4>1, <4>2
    <3>. QED BY <3>1, <3>2
  <2>. QED BY <2>1 DEF DownloadMove, TypeOK
<1>3. ASSUME NEW m \in Node, NEW g \in File, DownloadStep(m, g)
      PROVE  DownloadMove(n, f)
  <2>1. CASE m = n /\ g = f
    BY <1>3, <2>1, DownloadMoves
  <2>2. CASE ~(m = n /\ g = f)
    <3>1. PICK w : download' = [download EXCEPT ![m][g] = w]
      BY <1>3 DEF DownloadStep, TakeMetafile, GiveUpMetafile, OpenMetafile, NextChunk,
                  TakeChunk, GiveUpChunk, Finish, NextPeer, AskPeer, Proceed
    <3>. QED BY <2>2, <3>1 DEF DownloadMove, TypeOK
  <2>. QED BY <2>1, <2>2
<1>4. ASSUME NEW m \in Node, NEW g \in File,
             \/ IndexFile(m, g) \/ FinderStep(m, g)
             \/ \E o \in Node, k \in Key : SendResult(o, m, k, g)
      PROVE  UNCHANGED download
  BY <1>4 DEF IndexFile, FinderStep, TakeFoundMetafile, GiveUpResult, EnterResult, SendResult
<1>5. ASSUME NEW m, processDataRequest(m) \/ processDataReply(m) \/ handleSearchResult(m)
      PROVE  UNCHANGED download
  BY <1>5 DEF processDataRequest, processDataReply, handleSearchResult
<1>. QED
  BY <1>1, <1>2, <1>3, <1>4, <1>5 DEF Next, vars

\* The goroutine of a result starts with the entry it fills in.
LEMMA FinderFrame ==
  ASSUME TypeOK, Opened, [Next]_vars, NEW n \in Node, NEW f \in File
  PROVE  \/ finder'[n][f] = finder[n][f]
         \/ finder'[n][f] = Idle
         \/ FinderStep(n, f)
         \/ \E r \in results : r.to = n /\ r.file = f /\ handleSearchResult(r)
<1>1. CASE UNCHANGED finder
  BY <1>1
<1>2. ASSUME NEW m \in Node, NEW g \in File, FinderStep(m, g)
      PROVE  finder'[n][f] = finder[n][f] \/ FinderStep(n, f)
  <2>1. CASE m = n /\ g = f
    BY <1>2, <2>1
  <2>2. CASE ~(m = n /\ g = f)
    BY <1>2, <2>2 DEF FinderStep, TakeFoundMetafile, GiveUpResult, EnterResult, TypeOK
  <2>. QED BY <2>1, <2>2
<1>3. ASSUME NEW r \in results, handleSearchResult(r)
      PROVE  finder'[n][f] = finder[n][f] \/ (r.to = n /\ r.file = f)
  BY <1>3 DEF handleSearchResult, TypeOK, Result
<1>4. ASSUME NEW m \in Node, NEW g \in File,
             \/ IndexFile(m, g)
             \/ \E dest \in (Node \ {m}) \cup {NoPeer} : RequestFile(m, g, dest)
             \/ \E o \in Node, k \in Key : SendResult(o, m, k, g)
      PROVE  UNCHANGED finder
  BY <1>4 DEF IndexFile, RequestFile, SendResult
<1>5. ASSUME NEW m \in Node, NEW g \in File, DownloadStep(m, g)
      PROVE  UNCHANGED finder
  BY <1>5 DEF DownloadStep, TakeMetafile, GiveUpMetafile, OpenMetafile, NextChunk,
              TakeChunk, GiveUpChunk, Finish
<1>6. ASSUME NEW m, processDataRequest(m) \/ processDataReply(m)
      PROVE  UNCHANGED finder
  BY <1>6 DEF processDataRequest, processDataReply
<1>. QED
  BY <1>1, <1>2, <1>3, <1>4, <1>5, <1>6 DEF Next, vars

LEMMA OpenedStep == TypeOK /\ Opened /\ [Next]_vars => Opened'
<1>. SUFFICES ASSUME TypeOK, Opened, [Next]_vars, NEW n \in Node, NEW f \in File
              PROVE  /\ download'[n][f].pc \in {"loop", "chunk"}
                          => filesMetadata'[n]["own"][f] \in Metadata
                     /\ download'[n][f].pc = "chunk" => download'[n][f].i \in Index(f)
                     /\ finder'[n][f].pc # "idle" => filesMetadata'[n]["found"][f] \in Metadata
  BY DEF Opened
<1>1. Grows /\ "own" \in Key /\ "found" \in Key
  BY GrowsStep DEF Key
<1>2. /\ download'[n][f].pc \in {"loop", "chunk"} => filesMetadata'[n]["own"][f] \in Metadata
      /\ download'[n][f].pc = "chunk" => download'[n][f].i \in Index(f)
  <2>1. DownloadMove(n, f)
    BY DownloadFrame
  <2>2. filesMetadata[n]["own"][f] \in Metadata => filesMetadata'[n]["own"][f] \in Metadata
    BY <1>1 DEF Grows
  <2>. QED BY <2>1, <2>2 DEF DownloadMove, Before, InLoop, Opened
<1>3. finder'[n][f].pc # "idle" => filesMetadata'[n]["found"][f] \in Metadata
  <2>1. CASE finder'[n][f] = finder[n][f]
    BY <1>1, <2>1 DEF Grows, Opened
  <2>2. CASE finder'[n][f] = Idle
    BY <2>2 DEF Idle
  <2>3. CASE FinderStep(n, f)
    <3>1. finder[n][f].pc # "idle"
      BY <2>3 DEF FinderStep, TakeFoundMetafile, GiveUpResult, EnterResult
    <3>. QED BY <1>1, <3>1 DEF Grows, Opened
  <2>4. CASE \E r \in results : r.to = n /\ r.file = f /\ handleSearchResult(r)
    BY <1>1, <2>4 DEF handleSearchResult, TypeOK, Missing, Metadata
  <2>. QED BY <2>1, <2>2, <2>3, <2>4, FinderFrame
<1>. QED
  BY <1>2, <1>3

\* Every variable keeps its type: a chunk map is a set of indices, and the
\* fields that a goroutine reads are there when it reads them.
THEOREM TypeCorrect == Spec => []TypeOK
<1>1. Init => TypeOK /\ Opened
  BY TypeInit
<1>2. TypeOK /\ Opened /\ [Next]_vars => (TypeOK /\ Opened)'
  BY TypeStep, OpenedStep
<1>. QED
  BY <1>1, <1>2, PTL DEF Spec

THEOREM OpenedCorrect == Spec => []Opened
<1>1. Init => TypeOK /\ Opened
  BY TypeInit
<1>2. TypeOK /\ Opened /\ [Next]_vars => (TypeOK /\ Opened)'
  BY TypeStep, OpenedStep
<1>. QED
  BY <1>1, <1>2, PTL DEF Spec

-----------------------------------------------------------------------------
(***************************************************************************)
(* Requests and replies.  A request stands for a channel at its sender, a  *)
(* reply and a hash that arrived for data held by the node that sent it.   *)
(***************************************************************************)
RequestsHaveChannel == \A m \in requests : <<m.hash, m.to>> \in hashChannels[m.from]
RepliesAreHeld == \A r \in replies : r.hash \in hashDataMap[r.from]
ArrivedIsHeld ==
  \A n \in Node, h \in Hash, p \in Node : <<h, p>> \in arrived[n] => h \in hashDataMap[p]

ReplyInv == RequestsHaveChannel /\ ReplyExpected /\ RepliesAreHeld /\ ArrivedIsHeld

\* What a step adds to the requests, the replies and the arrived hashes.
MessageMove ==
  /\ \A m \in requests' : m \in requests \/ <<m.hash, m.to>> \in hashChannels'[m.from]
  /\ \A r \in replies' :
       \/ r \in replies
       \/ /\ [from |-> r.to, to |-> r.from, hash |-> r.hash] \in requests
          /\ r.hash \in hashDataMap[r.from]
  /\ \A n \in Node, h \in Hash, p \in Node :
       <<h, p>> \in arrived'[n] =>
         \/ <<h, p>> \in arrived[n]
         \/ [from |-> p, to |-> n, hash |-> h] \in replies

LEMMA AskMove ==
  ASSUME TypeOK, NEW n \in Node, NEW p \in Node, NEW h \in Hash, Ask(n, p, h)
  PROVE  \A m \in requests' : m \in requests \/ <<m.hash, m.to>> \in hashChannels'[m.from]
BY DEF Ask, TypeOK

LEMMA NextPeerAsks ==
  ASSUME TypeOK, NEW n \in Node, NEW f \in File, download[n][f].i \in Index(f),
         NEW R \in SUBSET Node, NextPeer(n, f, R)
  PROVE  \A m \in requests' : m \in requests \/ <<m.hash, m.to>> \in hashChannels'[m.from]
BY ContentTypes, AskMove DEF NextPeer, AskPeer

LEMMA DownloadMessages ==
  ASSUME TypeOK, Opened, NEW n \in Node, NEW f \in File, DownloadStep(n, f)
  PROVE  MessageMove
<1>. DEFINE d == download[n][f]
<1>1. d \in DownloadState
  BY DEF TypeOK
<1>2. UNCHANGED replies
  BY DEF DownloadStep, TakeMetafile, GiveUpMetafile, OpenMetafile, NextChunk,
         TakeChunk, GiveUpChunk, Finish
<1>3. \A q \in Node : arrived'[q] \subseteq arrived[q]
  <2>1. CASE UNCHANGED arrived
    BY <2>1
  <2>2. ASSUME NEW p, NEW h, TakeReply(n, p, h)
        PROVE  \A q \in Node : arrived'[q] \subseteq arrived[q]
    BY <2>2 DEF TakeReply, TypeOK
  <2>. QED BY <2>1, <2>2 DEF DownloadStep, TakeMetafile, GiveUpMetafile, OpenMetafile,
                             NextChunk, TakeChunk, GiveUpChunk, Finish
<1>4. \A m \in requests' : m \in requests \/ <<m.hash, m.to>> \in hashChannels'[m.from]
  <2>1. CASE UNCHANGED requests
    BY <2>1
  <2>2. CASE NextChunk(n, f)
    <3>. DEFINE h == Chunks[f][d.i]
    <3>1. d.pc = "loop" /\ d.i \in Index(f) /\ h \in Chunk /\ h \in Hash
      BY <2>2, ContentTypes DEF NextChunk
    <3>2. chunkOwners[n][h] \in SUBSET Node /\ d.dest \in Node \cup {NoPeer}
      BY <1>1, <3>1, DownloadFields DEF TypeOK
    <3>3. CASE h \in hashDataMap[n]
      BY <2>2, <3>3 DEF NextChunk
    <3>4. CASE d.dest \in Node /\ AskPeer(n, f, d.dest, chunkOwners[n][h])
      BY <3>1, <3>4, AskMove DEF AskPeer
    <3>5. CASE NextPeer(n, f, chunkOwners[n][h])
      BY <3>1, <3>2, <3>5, NextPeerAsks
    <3>. QED BY <2>2, <3>2, <3>3, <3>4, <3>5 DEF NextChunk
  <2>3. CASE GiveUpChunk(n, f)
    <3>1. d.i \in Index(f) /\ d.rest \in SUBSET Node /\ NextPeer(n, f, d.rest)
      BY <1>1, <2>3, DownloadFields DEF GiveUpChunk, Opened
    <3>. QED BY <3>1, NextPeerAsks
  <2>. QED BY <2>1, <2>2, <2>3 DEF DownloadStep, TakeMetafile, GiveUpMetafile,
                                   OpenMetafile, TakeChunk, Finish
<1>. QED
  BY <1>2, <1>3, <1>4 DEF MessageMove

LEMMA MessageStep == TypeOK /\ Opened /\ [Next]_vars => MessageMove
<1>. SUFFICES ASSUME TypeOK, Opened, [Next]_vars PROVE MessageMove
  OBVIOUS
<1>1. CASE UNCHANGED <<requests, replies, arrived>>
  BY <1>1 DEF MessageMove
<1>2. ASSUME NEW n \in Node, NEW f \in File,
             \/ IndexFile(n, f)
             \/ \E o \in Node, k \in Key : SendResult(o, n, k, f)
      PROVE  UNCHANGED <<requests, replies, arrived>>
  BY <1>2 DEF IndexFile, SendResult
<1>3. ASSUME NEW n \in Node, NEW f \in File,
             NEW dest \in (Node \ {n}) \cup {NoPeer}, RequestFile(n, f, dest)
      PROVE  MessageMove
  <2>1. CASE f \in hashDataMap[n]
    BY <1>3, <2>1 DEF RequestFile, MessageMove
  <2>2. CASE f \notin hashDataMap[n]
    <3>1. dest \in Node /\ Ask(n, dest, f) /\ UNCHANGED <<replies, arrived>>
      BY <1>3, <2>2 DEF RequestFile
    <3>. QED BY <3>1, ContentTypes, AskMove DEF MessageMove
  <2>. QED BY <2>1, <2>2
<1>4. ASSUME NEW n \in Node, NEW f \in File, DownloadStep(n, f)
      PROVE  MessageMove
  BY <1>4, DownloadMessages
<1>5. ASSUME NEW n \in Node, NEW f \in File, FinderStep(n, f)
      PROVE  MessageMove
  <2>1. UNCHANGED <<requests, replies>>
    BY <1>5 DEF FinderStep, TakeFoundMetafile, GiveUpResult, EnterResult
  <2>2. \A q \in Node : arrived'[q] \subseteq arrived[q]
    BY <1>5 DEF FinderStep, TakeFoundMetafile, GiveUpResult, EnterResult, TakeReply, TypeOK
  <2>. QED BY <2>1, <2>2 DEF MessageMove
<1>6. ASSUME NEW m, processDataRequest(m)
      PROVE  MessageMove
  <2>1. m \in Request /\ m = [from |-> m.from, to |-> m.to, hash |-> m.hash]
    BY <1>6 DEF processDataRequest, TypeOK, Request
  <2>. QED BY <1>6, <2>1 DEF processDataRequest, MessageMove
<1>7. ASSUME NEW r, processDataReply(r)
      PROVE  MessageMove
  <2>1. r \in Request /\ r = [from |-> r.from, to |-> r.to, hash |-> r.hash]
    BY <1>7 DEF processDataReply, TypeOK, Request
  <2>2. r.to \in Node /\ r \in replies
    BY <1>7, <2>1 DEF processDataReply, Request
  <2>3. \A n \in Node, h \in Hash, p \in Node :
          <<h, p>> \in arrived'[n] =>
            <<h, p>> \in arrived[n] \/ (n = r.to /\ h = r.hash /\ p = r.from)
    BY <1>7, <2>2 DEF processDataReply, TypeOK
  <2>. QED BY <1>7, <2>1, <2>2, <2>3 DEF processDataReply, MessageMove
<1>8. ASSUME NEW r, handleSearchResult(r)
      PROVE  MessageMove
  <2>1. r.to \in Node /\ r.from \in Node /\ r.file \in Hash
    BY <1>8 DEF handleSearchResult, TypeOK, Result, Hash
  <2>2. UNCHANGED <<replies, arrived>>
    BY <1>8 DEF handleSearchResult
  <2>3. UNCHANGED requests \/ Ask(r.to, r.from, r.file)
    BY <1>8 DEF handleSearchResult
  <2>. QED BY <2>1, <2>2, <2>3, AskMove DEF MessageMove
<1>. QED
  BY <1>1, <1>2, <1>3, <1>4, <1>5, <1>6, <1>7, <1>8 DEF Next, vars

LEMMA ReplyInvStep == TypeOK /\ TypeOK' /\ Opened /\ ReplyInv /\ [Next]_vars => ReplyInv'
<1>. SUFFICES ASSUME TypeOK, TypeOK', Opened, ReplyInv, [Next]_vars PROVE ReplyInv'
  OBVIOUS
<1>1. MessageMove
  BY MessageStep
<1>2. /\ \A n \in Node : hashDataMap[n] \subseteq hashDataMap'[n]
      /\ \A n \in Node : hashChannels[n] \subseteq hashChannels'[n]
  BY GrowsStep DEF Grows
<1>3. requests \subseteq Request /\ requests' \subseteq Request
  BY DEF TypeOK
<1>4. replies \subseteq Request /\ replies' \subseteq Request
  BY DEF TypeOK
<1>5. RequestsHaveChannel'
  <2>. SUFFICES ASSUME NEW m \in requests' PROVE <<m.hash, m.to>> \in hashChannels'[m.from]
    BY DEF RequestsHaveChannel
  <2>1. m.from \in Node
    BY <1>3 DEF Request
  <2>. QED BY <1>1, <1>2, <2>1 DEF MessageMove, ReplyInv, RequestsHaveChannel
<1>6. ReplyExpected' /\ RepliesAreHeld'
  <2>. SUFFICES ASSUME NEW r \in replies'
                PROVE  /\ <<r.hash, r.from>> \in hashChannels'[r.to]
                       /\ r.hash \in hashDataMap'[r.from]
    BY DEF ReplyExpected, RepliesAreHeld
  <2>1. r.to \in Node /\ r.from \in Node
    BY <1>4 DEF Request
  <2>2. CASE r \in replies
    BY <1>2, <2>1, <2>2 DEF ReplyInv, ReplyExpected, RepliesAreHeld
  <2>3. CASE /\ [from |-> r.to, to |-> r.from, hash |-> r.hash] \in requests
             /\ r.hash \in hashDataMap[r.from]
    BY <1>2, <2>1, <2>3 DEF ReplyInv, RequestsHaveChannel
  <2>. QED BY <1>1, <2>2, <2>3 DEF MessageMove
<1>7. ArrivedIsHeld'
  <2>. SUFFICES ASSUME NEW n \in Node, NEW h \in Hash, NEW p \in Node, <<h, p>> \in arrived'[n]
                PROVE  h \in hashDataMap'[p]
    BY DEF ArrivedIsHeld
  <2>1. h \in hashDataMap[p]
    BY <1>1 DEF MessageMove, ReplyInv, ArrivedIsHeld, RepliesAreHeld
  <2>. QED BY <1>2, <2>1
<1>. QED
  BY <1>5, <1>6, <1>7 DEF ReplyInv

\* The inductive invariant on messages holds of the specification.
THEOREM ReplyInvCorrect == Spec => []ReplyInv
<1>1. Init => ReplyInv
  BY DEF Init, ReplyInv, RequestsHaveChannel, ReplyExpected, RepliesAreHeld, ArrivedIsHeld
<1>. QED
  BY <1>1, ReplyInvStep, TypeCorrect, OpenedCorrect, PTL DEF Spec

\* The type assertion of processDataReply never fails: the channel of a reply
\* is there when the reply is, since no step deletes a channel.
THEOREM RepliesExpected == Spec => []ReplyExpected
<1>1. ReplyInv => ReplyExpected
  BY DEF ReplyInv
<1>. QED
  BY <1>1, ReplyInvCorrect, PTL

-----------------------------------------------------------------------------
(***************************************************************************)
(* How a step changes one entry of filesMetadata: it announces more only   *)
(* of what is held then, and a file gets its size when it is indexed or    *)
(* when its download counted every chunk.                                  *)
(***************************************************************************)
Known(e) == IF e = NoMetadata THEN {} ELSE e.chunkMap

EntryMove(n, k, f) ==
  LET e == filesMetadata'[n][k][f] IN
  \/ e = filesMetadata[n][k][f]
  \/ /\ e \in Metadata
     /\ e.chunkMap \subseteq Known(filesMetadata[n][k][f]) \cup Held(f, hashDataMap'[n])
     /\ k = "own" /\ e.size # 0 =>
          \/ Complete(n, f)
          \/ IndexFile(n, f)
          \/ Finish(n, f) /\ download[n][f].got = Len(Chunks[f])

LEMMA NoMetadataIsNone == NoMetadata \notin Metadata
BY DownloadAssumption DEF Metadata

LEMMA HeldMonotone ==
  ASSUME NEW f, NEW G, NEW H, G \subseteq H
  PROVE  Held(f, G) \subseteq Held(f, H)
BY DEF Held

\* Only one entry changes at a time.
LEMMA EntryUpdate ==
  ASSUME TypeOK, NEW m \in Node, NEW j \in Key, NEW g \in File, NEW v,
         filesMetadata' = [filesMetadata EXCEPT ![m][j][g] = v],
         NEW n \in Node, NEW k \in Key, NEW f \in File
  PROVE  \/ n = m /\ k = j /\ f = g /\ filesMetadata'[n][k][f] = v
         \/ filesMetadata'[n][k][f] = filesMetadata[n][k][f]
BY DEF TypeOK

LEMMA EntryDownload ==
  ASSUME TypeOK, Opened, NEW m \in Node, NEW g \in File, DownloadStep(m, g),
         NEW n \in Node, NEW k \in Key, NEW f \in File
  PROVE  EntryMove(n, k, f)
<1>. DEFINE d == download[m][g]
            old == filesMetadata[m]["own"][g]
<1>. "own" \in Key
  BY DEF Key
<1>1. CASE UNCHANGED filesMetadata
  BY <1>1 DEF EntryMove
<1>2. CASE OpenMetafile(m, g)
  <2>. DEFINE s == LoadOrStore(old, Missing)
              e == updateChunkMap(s, g, hashDataMap[m])
  <2>1. Missing \in Metadata /\ old \in Metadata \cup {NoMetadata}
    BY DEF Missing, Metadata, TypeOK
  <2>2. s \in Metadata /\ s.chunkMap = Known(old) /\ (s.size # 0 => old # NoMetadata /\ old.size # 0)
    BY <2>1, NoMetadataIsNone, EntryTypes DEF LoadOrStore, Known, Missing
  <2>3. e \in Metadata /\ e.chunkMap = s.chunkMap \cup Held(g, hashDataMap[m]) /\ e.size = s.size
    <3>. HIDE DEF s
    <3>. QED BY <2>2, MetadataTypes
  <2>4. filesMetadata' = [filesMetadata EXCEPT ![m]["own"][g] = e] /\ UNCHANGED hashDataMap
    BY <1>2 DEF OpenMetafile
  <2>5. e.size # 0 => Complete(m, g)
    <3>. HIDE DEF e, s
    <3>. QED BY <2>2, <2>3 DEF Complete
  <2>6. e.chunkMap \subseteq Known(old) \cup Held(g, hashDataMap'[m])
    <3>. HIDE DEF e, s
    <3>. QED BY <2>2, <2>3, <2>4
  <2>7. \/ n = m /\ k = "own" /\ f = g /\ filesMetadata'[n][k][f] = e
        \/ filesMetadata'[n][k][f] = filesMetadata[n][k][f]
    <3>. HIDE DEF e
    <3>. QED BY <2>4, EntryUpdate
  <2>. HIDE DEF e, s
  <2>. QED BY <2>3, <2>5, <2>6, <2>7 DEF EntryMove
<1>3. CASE TakeChunk(m, g)
  <2>. DEFINE e == [old EXCEPT !.chunkMap = @ \cup {d.i}]
  <2>1. d.pc = "chunk" /\ d.i \in Index(g) /\ d.i \in Nat /\ old \in Metadata /\ old # NoMetadata
    BY <1>3, ContentTypes, NoMetadataIsNone DEF TakeChunk, Opened
  <2>2. e \in Metadata /\ e.chunkMap = old.chunkMap \cup {d.i} /\ e.size = old.size
    BY <2>1 DEF Metadata
  <2>3. filesMetadata' = [filesMetadata EXCEPT ![m]["own"][g] = e]
    BY <1>3 DEF TakeChunk
  <2>4. Chunks[g][d.i] \in hashDataMap'[m]
    BY <1>3 DEF TakeChunk, TakeReply, TypeOK
  <2>5. e.chunkMap \subseteq Known(old) \cup Held(g, hashDataMap'[m])
    <3>. HIDE DEF e
    <3>. QED BY <2>1, <2>2, <2>4 DEF Known, Held
  <2>6. e.size # 0 => Complete(m, g)
    BY <2>1, <2>2 DEF Complete
  <2>7. \/ n = m /\ k = "own" /\ f = g /\ filesMetadata'[n][k][f] = e
        \/ filesMetadata'[n][k][f] = filesMetadata[n][k][f]
    <3>. HIDE DEF e
    <3>. QED BY <2>3, EntryUpdate
  <2>. HIDE DEF e
  <2>. QED BY <2>2, <2>5, <2>6, <2>7 DEF EntryMove
<1>4. CASE Finish(m, g) /\ d.got = Len(Chunks[g])
  <2>. DEFINE e == [old EXCEPT !.size = Len(Chunks[g])]
  <2>1. old \in Metadata /\ old # NoMetadata
    BY <1>4, NoMetadataIsNone DEF Finish, Opened
  <2>2. e \in Metadata /\ e.chunkMap = Known(old)
    BY <2>1, ContentTypes DEF Metadata, Known
  <2>3. filesMetadata' = [filesMetadata EXCEPT ![m]["own"][g] = e]
    BY <1>4 DEF Finish
  <2>4. \/ n = m /\ k = "own" /\ f = g /\ filesMetadata'[n][k][f] = e
        \/ filesMetadata'[n][k][f] = filesMetadata[n][k][f]
    <3>. HIDE DEF e
    <3>. QED BY <2>3, EntryUpdate
  <2>. HIDE DEF e
  <2>. QED BY <1>4, <2>2, <2>4 DEF EntryMove
<1>. QED
  BY <1>1, <1>2, <1>3, <1>4 DEF DownloadStep, TakeMetafile, GiveUpMetafile, NextChunk,
                                GiveUpChunk, Finish

LEMMA EntryFrame ==
  ASSUME TypeOK, Opened, [Next]_vars, NEW n \in Node, NEW k \in Key, NEW f \in File
  PROVE  EntryMove(n, k, f)
<1>. "own" \in Key /\ "found" \in Key
  BY DEF Key
<1>1. CASE UNCHANGED filesMetadata
  BY <1>1 DEF EntryMove
<1>2. ASSUME NEW m \in Node, NEW g \in File, IndexFile(m, g)
      PROVE  EntryMove(n, k, f)
  <2>. DEFINE whole == [chunkMap |-> Index(g), size |-> Len(Chunks[g])]
              old == filesMetadata[m]["own"][g]
              e == LoadOrStore(old, whole)
  <2>1. whole \in Metadata /\ old \in Metadata \cup {NoMetadata}
    BY ContentTypes DEF Metadata, TypeOK
  <2>2. Held(g, hashDataMap'[m]) = Index(g)
    BY <1>2 DEF IndexFile, Held, TypeOK
  <2>3. e \in Metadata /\ e.chunkMap \subseteq Known(old) \cup Held(g, hashDataMap'[m])
    BY <2>1, <2>2 DEF LoadOrStore, Known
  <2>4. filesMetadata' = [filesMetadata EXCEPT ![m]["own"][g] = e]
    BY <1>2 DEF IndexFile
  <2>5. \/ n = m /\ k = "own" /\ f = g /\ filesMetadata'[n][k][f] = e
        \/ filesMetadata'[n][k][f] = filesMetadata[n][k][f]
    <3>. HIDE DEF e
    <3>. QED BY <2>4, EntryUpdate
  <2>. HIDE DEF e
  <2>. QED BY <1>2, <2>3, <2>5 DEF EntryMove
<1>3. ASSUME NEW m \in Node, NEW g \in File, DownloadStep(m, g)
      PROVE  EntryMove(n, k, f)
  BY <1>3, EntryDownload
<1>4. ASSUME NEW m \in Node, NEW g \in File, EnterResult(m, g)
      PROVE  EntryMove(n, k, f)
  <2>. DEFINE old == filesMetadata[m]["found"][g]
              e == updateChunkMap(old, g, hashDataMap[m])
  <2>1. old \in Metadata /\ old # NoMetadata
    BY <1>4, NoMetadataIsNone DEF EnterResult, Opened
  <2>2. e \in Metadata /\ e.chunkMap = Known(old) \cup Held(g, hashDataMap[m])
    BY <2>1, MetadataTypes DEF Known
  <2>3. filesMetadata' = [filesMetadata EXCEPT ![m]["found"][g] = e] /\ UNCHANGED hashDataMap
    BY <1>4 DEF EnterResult
  <2>4. \/ n = m /\ k = "found" /\ f = g /\ filesMetadata'[n][k][f] = e
        \/ filesMetadata'[n][k][f] = filesMetadata[n][k][f]
    <3>. HIDE DEF e
    <3>. QED BY <2>3, EntryUpdate
  <2>. HIDE DEF e
  <2>. QED BY <2>2, <2>3, <2>4 DEF EntryMove
<1>5. ASSUME NEW r, handleSearchResult(r)
      PROVE  EntryMove(n, k, f)
  <2>1. r.to \in Node /\ r.file \in File
    BY <1>5 DEF handleSearchResult, TypeOK, Result
  <2>2. filesMetadata' = [filesMetadata EXCEPT ![r.to]["found"][r.file] = Missing]
    BY <1>5 DEF handleSearchResult
  <2>3. \/ k = "found" /\ filesMetadata'[n][k][f] = Missing
        \/ filesMetadata'[n][k][f] = filesMetadata[n][k][f]
    BY <2>1, <2>2, EntryUpdate
  <2>. QED BY <2>3 DEF EntryMove, Missing, Metadata
<1>6. ASSUME NEW m \in Node, NEW g \in File,
             \/ \E dest \in (Node \ {m}) \cup {NoPeer} : RequestFile(m, g, dest)
             \/ TakeFoundMetafile(m, g) \/ GiveUpResult(m, g)
             \/ \E o \in Node, j \in Key : SendResult(o, m, j, g)
      PROVE  UNCHANGED filesMetadata
  BY <1>6 DEF RequestFile, TakeFoundMetafile, GiveUpResult, SendResult
<1>7. ASSUME NEW m, processDataRequest(m) \/ processDataReply(m)
      PROVE  UNCHANGED filesMetadata
  BY <1>7 DEF processDataRequest, processDataReply
<1>. QED
  BY <1>1, <1>2, <1>3, <1>4, <1>5, <1>6, <1>7 DEF Next, vars, FinderStep

-----------------------------------------------------------------------------
(***************************************************************************)
(* Announcements: also what the goroutine of a result is about to enter is *)
(* held by the node that sent it.                                          *)
(***************************************************************************)
EntriesAreHeld ==
  \A n \in Node, k \in Key, f \in File : Known(filesMetadata[n][k][f]) \subseteq Held(f, hashDataMap[n])
ResultsAreHeld == \A r \in results : r.chunkMap \subseteq Held(r.file, hashDataMap[r.from])
OwnersHold == \A n \in Node, h \in Chunk : \A p \in chunkOwners[n][h] : h \in hashDataMap[p]
FindersHold ==
  \A n \in Node, f \in File :
    finder[n][f].pc # "idle" => finder[n][f].chunkMap \subseteq Held(f, hashDataMap[finder[n][f].peer])

AnnounceInv == EntriesAreHeld /\ ResultsAreHeld /\ OwnersHold /\ FindersHold

LEMMA AnnounceInit == Init => AnnounceInv
BY DEF Init, AnnounceInv, EntriesAreHeld, ResultsAreHeld, OwnersHold, FindersHold, Known, Idle

LEMMA AnnounceImplies == AnnounceInv => AnnouncedIsHeld
BY DEF AnnounceInv, EntriesAreHeld, ResultsAreHeld, OwnersHold, AnnouncedIsHeld, Announced, Known

LEMMA EntriesStep ==
  ASSUME TypeOK, Opened, AnnounceInv, [Next]_vars
  PROVE  EntriesAreHeld'
<1>. SUFFICES ASSUME NEW n \in Node, NEW k \in Key, NEW f \in File
              PROVE  Known(filesMetadata'[n][k][f]) \subseteq Held(f, hashDataMap'[n])
  BY DEF EntriesAreHeld, Known
<1>1. Held(f, hashDataMap[n]) \subseteq Held(f, hashDataMap'[n])
  BY GrowsStep, HeldMonotone DEF Grows
<1>2. Known(filesMetadata[n][k][f]) \subseteq Held(f, hashDataMap[n])
  BY DEF AnnounceInv, EntriesAreHeld
<1>3. EntryMove(n, k, f)
  BY EntryFrame
<1>4. CASE filesMetadata'[n][k][f] = filesMetadata[n][k][f]
  BY <1>1, <1>2, <1>4
<1>5. CASE filesMetadata'[n][k][f] # filesMetadata[n][k][f]
  <2>1. filesMetadata'[n][k][f] \in Metadata
    BY <1>3, <1>5 DEF EntryMove
  <2>2. Known(filesMetadata'[n][k][f]) = filesMetadata'[n][k][f].chunkMap
    BY <2>1, NoMetadataIsNone DEF Known
  <2>3. filesMetadata'[n][k][f].chunkMap
          \subseteq Known(filesMetadata[n][k][f]) \cup Held(f, hashDataMap'[n])
    BY <1>3, <1>5 DEF EntryMove
  <2>. QED BY <1>1, <1>2, <2>2, <2>3
<1>. QED
  BY <1>4, <1>5

LEMMA ResultsStep ==
  ASSUME TypeOK, Opened, AnnounceInv, [Next]_vars
  PROVE  ResultsAreHeld'
<1>. SUFFICES ASSUME NEW r \in results', r \in results =>
                       r.chunkMap \subseteq Held(r.file, hashDataMap'[r.from])
              PROVE  r.chunkMap \subseteq Held(r.file, hashDataMap'[r.from])
  <2>1. ASSUME NEW r \in results PROVE r.chunkMap \subseteq Held(r.file, hashDataMap'[r.from])
    <3>1. r.from \in Node /\ r.chunkMap \subseteq Held(r.file, hashDataMap[r.from])
      BY DEF TypeOK, Result, AnnounceInv, ResultsAreHeld
    <3>. QED BY <3>1, GrowsStep, HeldMonotone DEF Grows
  <2>. QED BY <2>1 DEF ResultsAreHeld
<1>1. CASE UNCHANGED results
  BY <1>1
<1>2. ASSUME NEW n \in Node, NEW f \in File, NEW o \in Node, NEW k \in Key, SendResult(o, n, k, f)
      PROVE  r.chunkMap \subseteq Held(r.file, hashDataMap'[r.from])
  <2>1. Known(filesMetadata[o][k][f]) \subseteq Held(f, hashDataMap[o])
    BY DEF AnnounceInv, EntriesAreHeld
  <2>2. CASE r = [from |-> o, to |-> n, file |-> f, chunkMap |-> filesMetadata[o][k][f].chunkMap]
    BY <1>2, <2>1, <2>2 DEF SendResult, Known
  <2>. QED BY <1>2, <2>2 DEF SendResult
<1>3. ASSUME NEW n \in Node, NEW f \in File,
             \/ IndexFile(n, f) \/ FinderStep(n, f)
             \/ \E dest \in (Node \ {n}) \cup {NoPeer} : RequestFile(n, f, dest)
      PROVE  UNCHANGED results
  BY <1>3 DEF IndexFile, RequestFile, FinderStep, TakeFoundMetafile, GiveUpResult, EnterResult
<1>4. ASSUME NEW n \in Node, NEW f \in File, DownloadStep(n, f)
      PROVE  UNCHANGED results
  BY <1>4 DEF DownloadStep, TakeMetafile, GiveUpMetafile, OpenMetafile, NextChunk,
              TakeChunk, GiveUpChunk, Finish
<1>5. ASSUME NEW m, processDataRequest(m) \/ processDataReply(m) \/ handleSearchResult(m)
      PROVE  UNCHANGED results
  BY <1>5 DEF processDataRequest, processDataReply, handleSearchResult
<1>. QED
  BY <1>1, <1>2, <1>3, <1>4, <1>5 DEF Next, vars

LEMMA OwnersStep ==
  ASSUME TypeOK, Opened, ReplyInv, AnnounceInv, [Next]_vars
  PROVE  OwnersHold'
<1>. SUFFICES ASSUME NEW n \in Node, NEW h \in Chunk, NEW p \in chunkOwners'[n][h]
              PROVE  h \in hashDataMap[p] /\ p \in Node
  BY GrowsStep DEF Grows, OwnersHold
<1>1. CASE p \in chunkOwners[n][h]
  BY <1>1 DEF AnnounceInv, OwnersHold, TypeOK
<1>2. CASE UNCHANGED chunkOwners
  BY <1>1, <1>2
<1>3. ASSUME NEW m \in Node, NEW f \in File, TakeChunk(m, f)
      PROVE  h \in hashDataMap[p] /\ p \in Node
  <2>. DEFINE d == download[m][f]
  <2>1. d \in DownloadState /\ d.pc = "chunk" /\ d.i \in Index(f)
    BY <1>3 DEF TakeChunk, Opened, TypeOK
  <2>2. d.peer \in Node /\ Chunks[f][d.i] \in Hash
    BY <2>1, DownloadFields, ContentTypes
  <2>3. Chunks[f][d.i] \in hashDataMap[d.peer]
    BY <1>3, <2>2 DEF TakeChunk, TakeReply, ReplyInv, ArrivedIsHeld
  <2>4. p \in chunkOwners[n][h] \/ (p = d.peer /\ h = Chunks[f][d.i])
    BY <1>3 DEF TakeChunk, TypeOK
  <2>. QED BY <1>1, <2>2, <2>3, <2>4
<1>4. ASSUME NEW m \in Node, NEW f \in File, EnterResult(m, f)
      PROVE  h \in hashDataMap[p] /\ p \in Node
  <2>. DEFINE g == finder[m][f]
  <2>1. g \in Finder /\ g.pc = "enter"
    BY <1>4 DEF EnterResult, TypeOK
  <2>2. g.peer \in Node /\ g.chunkMap \subseteq Held(f, hashDataMap[g.peer])
    BY <2>1, FinderFields DEF AnnounceInv, FindersHold
  <2>3. \/ p \in chunkOwners[n][h]
        \/ p = g.peer /\ \E i \in g.chunkMap \cap Index(f) : Chunks[f][i] = h
    BY <1>4 DEF EnterResult, updateChunkOwnerMap, TypeOK
  <2>. QED BY <1>1, <2>2, <2>3 DEF Held
<1>5. ASSUME NEW m \in Node, NEW f \in File,
             \/ IndexFile(m, f) \/ TakeFoundMetafile(m, f) \/ GiveUpResult(m, f)
             \/ \E dest \in (Node \ {m}) \cup {NoPeer} : RequestFile(m, f, dest)
             \/ \E o \in Node, k \in Key : SendResult(o, m, k, f)
      PROVE  UNCHANGED chunkOwners
  BY <1>5 DEF IndexFile, RequestFile, TakeFoundMetafile, GiveUpResult, SendResult
<1>6. ASSUME NEW m \in Node, NEW f \in File, DownloadStep(m, f), ~TakeChunk(m, f)
      PROVE  UNCHANGED chunkOwners
  BY <1>6 DEF DownloadStep, TakeMetafile, GiveUpMetafile, OpenMetafile, NextChunk,
              GiveUpChunk, Finish
<1>7. ASSUME NEW m, processDataRequest(m) \/ processDataReply(m) \/ handleSearchResult(m)
      PROVE  UNCHANGED chunkOwners
  BY <1>7 DEF processDataRequest, processDataReply, handleSearchResult
<1>. QED
  BY <1>2, <1>3, <1>4, <1>5, <1>6, <1>7 DEF Next, vars, FinderStep

LEMMA FindersStep ==
  ASSUME TypeOK, TypeOK', Opened, AnnounceInv, [Next]_vars
  PROVE  FindersHold'
<1>. SUFFICES ASSUME NEW n \in Node, NEW f \in File, finder'[n][f].pc # "idle"
              PROVE  finder'[n][f].chunkMap \subseteq Held(f, hashDataMap'[finder'[n][f].peer])
  BY DEF FindersHold
<1>. DEFINE g == finder[n][f]
            e == finder'[n][f]
<1>1. e \in Finder /\ g \in Finder
  BY DEF TypeOK
<1>2. e.peer \in Node
  BY <1>1, FinderFields
<1>3. SUFFICES e.chunkMap \subseteq Held(f, hashDataMap[e.peer])
  BY <1>2, GrowsStep, HeldMonotone DEF Grows
<1>4. CASE e = g
  BY <1>4 DEF AnnounceInv, FindersHold
<1>5. CASE FinderStep(n, f)
  <2>1. g.pc = "metafile" /\ e = [g EXCEPT !.pc = "enter"]
    BY <1>5 DEF FinderStep, TakeFoundMetafile, GiveUpResult, EnterResult, TypeOK, Idle
  <2>2. e.peer = g.peer /\ e.chunkMap = g.chunkMap
    BY <1>1, <2>1, FinderFields
  <2>. QED BY <2>1, <2>2 DEF AnnounceInv, FindersHold
<1>6. ASSUME NEW r \in results, r.to = n, r.file = f, handleSearchResult(r)
      PROVE  e.chunkMap \subseteq Held(f, hashDataMap[e.peer])
  <2>1. e.peer = r.from /\ e.chunkMap = r.chunkMap
    BY <1>6 DEF handleSearchResult, TypeOK
  <2>. QED BY <1>6, <2>1 DEF AnnounceInv, ResultsAreHeld
<1>7. e # Idle
  BY DEF Idle
<1>. QED
  BY <1>4, <1>5, <1>6, <1>7, FinderFrame

\* The inductive invariant on announcements holds of the specification.
LEMMA AnnounceInvCorrect == Spec => []AnnounceInv
<1>1. TypeOK /\ TypeOK' /\ Opened /\ ReplyInv /\ AnnounceInv /\ [Next]_vars => AnnounceInv'
  BY EntriesStep, ResultsStep, OwnersStep, FindersStep DEF AnnounceInv
<1>. QED
  BY <1>1, AnnounceInit, TypeCorrect, OpenedCorrect, ReplyInvCorrect, PTL DEF Spec

\* What is announced in search results and entered as an owner is held, for
\* every number of nodes, files and searches, and whatever order the replies
\* and results come in.
THEOREM AnnouncementsHold == Spec => []AnnouncedIsHeld
  BY AnnounceInvCorrect, AnnounceImplies, PTL

-----------------------------------------------------------------------------
(***************************************************************************)
(* Completion: a download past its metafile holds it, and if it counted a  *)
(* chunk at every index it passed then it holds all of these.              *)
(***************************************************************************)
Counted(n, f) ==
  LET d == download[n][f] IN
  /\ d.pc \in {"open", "loop", "chunk"} => f \in hashDataMap[n]
  /\ InLoop(d) =>
       /\ d.i \in 1 .. (Len(Chunks[f]) + 1) /\ d.got \in Nat /\ d.got < d.i
       /\ d.got + 1 = d.i => \A j \in Index(f) : j < d.i => Chunks[f][j] \in hashDataMap[n]

CompleteInv == CompleteIsWhole /\ \A n \in Node, f \in File : Counted(n, f)

LEMMA CountedStep ==
  ASSUME TypeOK, TypeOK', Opened, CompleteInv, [Next]_vars, NEW n \in Node, NEW f \in File
  PROVE  Counted(n, f)'
<1>. DEFINE d == download[n][f]
            e == download'[n][f]
<1>1. hashDataMap[n] \subseteq hashDataMap'[n]
  BY GrowsStep DEF Grows
<1>2. DownloadMove(n, f)
  BY DownloadFrame
<1>3. Len(Chunks[f]) \in Nat \ {0} /\ Index(f) = 1 .. Len(Chunks[f])
  BY ContentTypes DEF Index
<1>4. Counted(n, f)
  BY DEF CompleteInv
<1>5. CASE e = d
  BY <1>1, <1>4, <1>5 DEF Counted
<1>6. CASE Before(e) /\ (e.pc = "open" => f \in hashDataMap'[n])
  BY <1>6 DEF Counted, Before, InLoop
<1>7. CASE d.pc = "open" /\ e.pc = "loop" /\ e.i = 1 /\ e.got = 0
  BY <1>1, <1>3, <1>4, <1>7 DEF Counted, InLoop
<1>8. CASE InLoop(d) /\ e.pc = "chunk" /\ e.i = d.i /\ e.got = d.got
  BY <1>1, <1>4, <1>8 DEF Counted, InLoop
<1>9. CASE InLoop(d) /\ d.i \in Index(f) /\ e.pc = "loop" /\ e.i = d.i + 1 /\ e.got = d.got
  <2>1. f \in hashDataMap[n] /\ d.i \in Nat /\ d.got \in Nat /\ d.got < d.i
    BY <1>3, <1>4, <1>9 DEF Counted, InLoop
  <2>2. e.i \in 1 .. (Len(Chunks[f]) + 1) /\ e.got \in Nat /\ e.got < e.i /\ e.got + 1 # e.i
    BY <1>3, <1>9, <2>1
  <2>. QED BY <1>1, <2>1, <2>2 DEF Counted
<1>10. CASE /\ InLoop(d) /\ d.i \in Index(f) /\ e.pc = "loop" /\ e.i = d.i + 1
            /\ e.got = d.got + 1 /\ Chunks[f][d.i] \in hashDataMap'[n]
  <2>1. /\ f \in hashDataMap[n] /\ d.got \in Nat /\ d.got < d.i
        /\ d.got + 1 = d.i => \A j \in Index(f) : j < d.i => Chunks[f][j] \in hashDataMap[n]
    BY <1>4, <1>10 DEF Counted, InLoop
  <2>2. ASSUME e.got + 1 = e.i, NEW j \in Index(f), j < e.i
        PROVE  Chunks[f][j] \in hashDataMap'[n]
    <3>1. CASE j = d.i
      BY <1>10, <3>1
    <3>2. CASE j # d.i
      <4>1. j \in Nat /\ d.i \in Nat /\ d.got \in Nat
        BY <1>3, <1>10, <2>1
      <4>2. j < d.i + 1 /\ d.got + 1 + 1 = d.i + 1
        BY <1>10, <2>2
      <4>. HIDE DEF d, e
      <4>3. j < d.i /\ d.got + 1 = d.i
        BY <3>2, <4>1, <4>2
      <4>. QED BY <1>1, <2>1, <4>3
    <3>. QED BY <3>1, <3>2
  <2>3. e.i \in 1 .. (Len(Chunks[f]) + 1) /\ e.got \in Nat /\ e.got < e.i
    BY <1>3, <1>10, <2>1
  <2>. QED BY <1>1, <2>1, <2>2, <2>3 DEF Counted
<1>. QED
  BY <1>2, <1>5, <1>6, <1>7, <1>8, <1>9, <1>10 DEF DownloadMove

\* A download that counted as many chunks as there are holds them all.
LEMMA CountedAll ==
  ASSUME CompleteInv, NEW n \in Node, NEW f \in File,
         Finish(n, f), download[n][f].got = Len(Chunks[f])
  PROVE  f \in hashDataMap[n] /\ \A j \in Index(f) : Chunks[f][j] \in hashDataMap[n]
<1>. DEFINE d == download[n][f]
<1>1. Len(Chunks[f]) \in Nat /\ Index(f) = 1 .. Len(Chunks[f])
  BY ContentTypes DEF Index
<1>2. d.pc = "loop" /\ d.i \notin Index(f) /\ Counted(n, f)
  BY DEF Finish, CompleteInv
<1>3. d.i = d.got + 1 /\ d.i = Len(Chunks[f]) + 1
  BY <1>1, <1>2 DEF Counted, InLoop
<1>. QED
  BY <1>1, <1>2, <1>3 DEF Counted, InLoop

LEMMA WholeStep ==
  ASSUME TypeOK, TypeOK', Opened, CompleteInv, [Next]_vars
  PROVE  CompleteIsWhole'
<1>. SUFFICES ASSUME NEW n \in Node, NEW f \in File, Complete(n, f)'
              PROVE  f \in hashDataMap'[n] /\ Held(f, hashDataMap'[n]) = Index(f)
  BY DEF CompleteIsWhole
<1>0. "own" \in Key /\ hashDataMap[n] \subseteq hashDataMap'[n]
  BY GrowsStep DEF Grows, Key
<1>1. CASE Complete(n, f)
  <2>1. f \in hashDataMap[n] /\ Held(f, hashDataMap[n]) = Index(f)
    BY <1>1 DEF CompleteInv, CompleteIsWhole
  <2>. QED BY <1>0, <2>1 DEF Held
<1>2. CASE IndexFile(n, f)
  BY <1>2 DEF IndexFile, Held, TypeOK
<1>3. CASE Finish(n, f) /\ download[n][f].got = Len(Chunks[f])
  BY <1>0, <1>3, CountedAll DEF Held
<1>4. Complete(n, f) \/ IndexFile(n, f) \/ (Finish(n, f) /\ download[n][f].got = Len(Chunks[f]))
  BY <1>0, EntryFrame DEF EntryMove, Complete
<1>. QED
  BY <1>1, <1>2, <1>3, <1>4

\* The inductive invariant on completion holds of the specification.
LEMMA CompleteInvCorrect == Spec => []CompleteInv
<1>1. Init => CompleteInv
  BY DEF Init, CompleteInv, CompleteIsWhole, Complete, Counted, InLoop, Idle, Key
<1>2. TypeOK /\ TypeOK' /\ Opened /\ CompleteInv /\ [Next]_vars => CompleteInv'
  BY CountedStep, WholeStep DEF CompleteInv
<1>. QED
  BY <1>1, <1>2, TypeCorrect, OpenedCorrect, PTL DEF Spec

\* A file that has a size is held whole, whichever chunks came from which peer,
\* late or through another download.
THEOREM CompleteFilesAreWhole == Spec => []CompleteIsWhole
<1>1. CompleteInv => CompleteIsWhole
  BY DEF CompleteInv
<1>. QED
  BY <1>1, CompleteInvCorrect, PTL

-----------------------------------------------------------------------------
(* Searches. *)

\* What a search counts as a match can be downloaded: every chunk has an owner
\* (checkAllChunksLocation), and owners hold what is said of them.
THEOREM MatchesCanBeFetched == Spec => []MatchCanBeFetched
<1>1. AnnouncedIsHeld => MatchCanBeFetched
  <2> SUFFICES ASSUME AnnouncedIsHeld,
                      NEW n \in Node, NEW k \in Key, NEW f \in File, IsMatch(n, k, f),
                      NEW i \in Index(f)
               PROVE  \E p \in chunkOwners[n][Chunks[f][i]] : Chunks[f][i] \in hashDataMap[p]
    BY DEF MatchCanBeFetched
  <2>1. Chunks[f][i] \in Chunk
    BY ContentTypes
  <2>2. PICK p \in chunkOwners[n][Chunks[f][i]] : TRUE
    BY DEF IsMatch
  <2>3. Chunks[f][i] \in hashDataMap[p]
    BY <2>1, <2>2 DEF AnnouncedIsHeld
  <2>. QED
    BY <2>2, <2>3
<1>. QED
  BY <1>1, AnnouncementsHold, PTL
-----------------------------------------------------------------------------
(***************************************************************************)
(* File sharing: every step of a gossiper shares a file, copies a hash     *)
(* from a node that holds it, notes what another holds, finishes a file    *)
(* all of which is held, or is none of the abstract steps.                 *)
(***************************************************************************)

\* An own entry that changes makes its file complete or leaves it as it was.
LEMMA OwnEntry ==
  ASSUME TypeOK, NEW n \in Node, NEW f \in File, NEW e \in Metadata,
         filesMetadata' = [filesMetadata EXCEPT ![n]["own"][f] = e]
  PROVE  /\ e.size # 0 => CompleteFiles' = [CompleteFiles EXCEPT ![n] = @ \cup {f}]
         /\ (e.size # 0 => Complete(n, f)) /\ (Complete(n, f) => e.size # 0)
              => UNCHANGED CompleteFiles
<1>0. "own" \in Key
  BY DEF Key
<1>1. \A m \in Node, g \in File :
        filesMetadata'[m]["own"][g] = IF m = n /\ g = f THEN e ELSE filesMetadata[m]["own"][g]
  BY <1>0 DEF TypeOK
<1>2. \A m \in Node, g \in File :
        Complete(m, g)' <=> IF m = n /\ g = f THEN e.size # 0 ELSE Complete(m, g)
  BY <1>1, NoMetadataIsNone DEF Complete
<1>. QED
  BY <1>2 DEF CompleteFiles

\* An entry for a file found by a search completes nothing.
LEMMA FoundEntry ==
  ASSUME TypeOK, NEW n \in Node, NEW f \in File, NEW e,
         filesMetadata' = [filesMetadata EXCEPT ![n]["found"][f] = e]
  PROVE  UNCHANGED CompleteFiles
<1>0. "own" \in Key /\ "found" \in Key /\ "own" # "found"
  BY DEF Key
<1>1. \A m \in Node, g \in File : filesMetadata'[m]["own"][g] = filesMetadata[m]["own"][g]
  BY <1>0 DEF TypeOK
<1>. QED
  BY <1>1 DEF CompleteFiles, Complete

LEMMA SameEntries == UNCHANGED filesMetadata => UNCHANGED CompleteFiles
BY DEF CompleteFiles, Complete

\* Indexing shares the file with its content.
LEMMA IndexShares ==
  ASSUME TypeOK, NEW n \in Node, NEW f \in File, IndexFile(n, f)
  PROVE  Sharing!Share(n, f)
<1>. DEFINE all == [chunkMap |-> Index(f), size |-> Len(Chunks[f])]
            old == filesMetadata[n]["own"][f]
            e == LoadOrStore(old, all)
<1>1. all \in Metadata /\ all.size # 0 /\ old \in Metadata \cup {NoMetadata}
  BY ContentTypes DEF Metadata, TypeOK, Key
<1>2. e \in Metadata /\ (e = all \/ (old # NoMetadata /\ e = old))
  BY <1>1 DEF LoadOrStore
<1>3. filesMetadata' = [filesMetadata EXCEPT ![n]["own"][f] = e] /\ UNCHANGED chunkOwners
  BY DEF IndexFile
<1>4. UNCHANGED CompleteFiles \/ CompleteFiles' = [CompleteFiles EXCEPT ![n] = @ \cup {f}]
  <2>1. CASE e.size # 0
    <3>. HIDE DEF e
    <3>. QED BY <1>2, <1>3, <2>1, OwnEntry
  <2>2. CASE e.size = 0
    <3>1. ~Complete(n, f)
      <4>. HIDE DEF all
      <4>. QED BY <1>1, <1>2, <2>2 DEF Complete, LoadOrStore
    <3>. HIDE DEF e
    <3>. QED BY <1>2, <1>3, <2>2, <3>1, OwnEntry
  <2>. QED BY <2>1, <2>2
<1>5. hashDataMap' = [hashDataMap EXCEPT ![n] = @ \cup Content[f]]
  <2>1. Content[f] = {f} \cup {Chunks[f][i] : i \in Index(f)}
    BY DEF Content
  <2>2. hashDataMap' = [hashDataMap EXCEPT ![n] =
          @ \cup {f} \cup {Chunks[f][i] : i \in Index(f)}]
    BY DEF IndexFile
  <2>. QED BY <2>1, <2>2, Zenon
<1>6. f \in Shared[n]
  BY DEF IndexFile
<1>. HIDE DEF e, all, old
<1>. QED BY <1>3, <1>4, <1>5, <1>6 DEF Sharing!Share, Sharing!Get

\* A reply that is taken is copied from the node that was asked.
LEMMA TakenIsCopied ==
  ASSUME ReplyInv, NEW n \in Node, NEW p \in Node, NEW h \in Hash, TakeReply(n, p, h),
         UNCHANGED CompleteFiles,
         UNCHANGED chunkOwners \/ Sharing!Note(n, p, {h})
  PROVE  h \in hashDataMap[p] /\ Sharing!Copy(n, p, h)
<1>1. h \in hashDataMap[p]
  BY DEF TakeReply, ReplyInv, ArrivedIsHeld
<1>2. hashDataMap' = [hashDataMap EXCEPT ![n] = @ \cup {h}]
  BY DEF TakeReply
<1>. QED
  BY <1>1, <1>2 DEF Sharing!Copy, Sharing!Get

LEMMA OwnerIsNoted ==
  ASSUME TypeOK, NEW n \in Node, NEW p \in Node, NEW h \in Chunk,
         chunkOwners' = [chunkOwners EXCEPT ![n][h] = @ \cup {p}]
  PROVE  Sharing!Note(n, p, {h})
<1>1. chunkOwners \in [Node -> [Chunk -> SUBSET Node]]
  BY DEF TypeOK
<1>2. chunkOwners[n] \in [Chunk -> SUBSET Node]
  BY <1>1
<1>3. [chunkOwners[n] EXCEPT ![h] = @ \cup {p}] =
        [c \in Chunk |-> IF c \in {h} THEN chunkOwners[n][c] \cup {p} ELSE chunkOwners[n][c]]
  BY <1>2
<1>4. chunkOwners' = [chunkOwners EXCEPT ![n] = [chunkOwners[n] EXCEPT ![h] = @ \cup {p}]]
  OBVIOUS
<1>. QED
  BY <1>3, <1>4 DEF Sharing!Note

\* What a download and the goroutine of a result take of arrived is what
\* another node holds.
LEMMA ChunkIsCopied ==
  ASSUME TypeOK, Opened, ReplyInv, NEW n \in Node, NEW f \in File, TakeChunk(n, f)
  PROVE  \E p \in Node : \E h \in hashDataMap[p] : Sharing!Copy(n, p, h)
<1>. DEFINE d == download[n][f]
            h == Chunks[f][d.i]
            old == filesMetadata[n]["own"][f]
            e == [old EXCEPT !.chunkMap = @ \cup {d.i}]
<1>1. d \in DownloadState /\ d.pc = "chunk" /\ d.i \in Index(f) /\ old \in Metadata
  BY DEF TakeChunk, Opened, TypeOK
<1>2. d.peer \in Node /\ h \in Chunk /\ h \in Hash /\ d.i \in Nat /\ old # NoMetadata
  BY <1>1, DownloadFields, ContentTypes, NoMetadataIsNone
<1>3. TakeReply(n, d.peer, h)
  BY DEF TakeChunk
<1>4. UNCHANGED CompleteFiles
  <2>1. filesMetadata' = [filesMetadata EXCEPT ![n]["own"][f] = e]
    BY DEF TakeChunk
  <2>2. e \in Metadata /\ e.size = old.size
    BY <1>1, <1>2 DEF Metadata
  <2>3. Complete(n, f) <=> e.size # 0
    BY <1>2, <2>2 DEF Complete
  <2>. HIDE DEF e, old
  <2>. QED BY <2>1, <2>2, <2>3, OwnEntry
<1>5. UNCHANGED chunkOwners \/ Sharing!Note(n, d.peer, {h})
  <2>1. CASE UNCHANGED chunkOwners
    BY <2>1
  <2>2. CASE chunkOwners' = [chunkOwners EXCEPT ![n][h] = @ \cup {d.peer}]
    <3>. HIDE DEF d, h
    <3>. QED BY <1>2, <2>2, OwnerIsNoted
  <2>. QED BY <2>1, <2>2 DEF TakeChunk
<1>. HIDE DEF d, h
<1>6. h \in hashDataMap[d.peer] /\ Sharing!Copy(n, d.peer, h)
  BY <1>2, <1>3, <1>4, <1>5, TakenIsCopied
<1>. QED
  BY <1>2, <1>6

LEMMA MetafileIsCopied ==
  ASSUME TypeOK, ReplyInv, NEW n \in Node, NEW f \in File,
         TakeMetafile(n, f) \/ TakeFoundMetafile(n, f)
  PROVE  \E p \in Node : \E h \in hashDataMap[p] : Sharing!Copy(n, p, h)
<1>1. PICK p \in Node : TakeReply(n, p, f)
  <2>1. download[n][f] \in DownloadState /\ finder[n][f] \in Finder
    BY DEF TypeOK
  <2>2. CASE TakeMetafile(n, f)
    BY <2>1, <2>2, DownloadFields DEF TakeMetafile
  <2>3. CASE TakeFoundMetafile(n, f)
    BY <2>1, <2>3, FinderFields DEF TakeFoundMetafile
  <2>. QED BY <2>2, <2>3
<1>2. UNCHANGED chunkOwners /\ UNCHANGED CompleteFiles
  BY SameEntries DEF TakeMetafile, TakeFoundMetafile
<1>3. f \in hashDataMap[p] /\ Sharing!Copy(n, p, f)
  BY <1>1, <1>2, TakenIsCopied, ContentTypes
<1>. QED
  BY <1>3

\* What is entered of a result is what its sender holds.
LEMMA ResultIsHeard ==
  ASSUME TypeOK, AnnounceInv, NEW n \in Node, NEW f \in File, EnterResult(n, f)
  PROVE  \E p \in Node : \E H \in SUBSET hashDataMap[p] : Sharing!Hear(n, p, H)
<1>. DEFINE g == finder[n][f]
            I == g.chunkMap \cap Index(f)
            H == {Chunks[f][i] : i \in I}
<1>1. g.peer \in Node /\ g.chunkMap \subseteq Held(f, hashDataMap[g.peer])
  <2>1. g \in Finder /\ g.pc = "enter"
    BY DEF EnterResult, TypeOK
  <2>. QED BY <2>1, FinderFields DEF AnnounceInv, FindersHold
<1>2. H \subseteq hashDataMap[g.peer]
  BY <1>1 DEF Held
<1>3. UNCHANGED CompleteFiles
  BY FoundEntry DEF EnterResult
<1>4. chunkOwners' = [chunkOwners EXCEPT ![n] =
        [h \in Chunk |-> IF h \in H THEN @[h] \cup {g.peer} ELSE @[h]]]
  <2>1. chunkOwners' = [chunkOwners EXCEPT ![n] =
          updateChunkOwnerMap(@, g.peer, f, g.chunkMap)]
    BY DEF EnterResult
  <2>2. updateChunkOwnerMap(chunkOwners[n], g.peer, f, g.chunkMap) =
          [h \in Chunk |-> IF h \in H THEN chunkOwners[n][h] \cup {g.peer} ELSE chunkOwners[n][h]]
    BY DEF updateChunkOwnerMap
  <2>. HIDE DEF g, H
  <2>. QED BY <2>1, <2>2
<1>5. UNCHANGED hashDataMap
  BY DEF EnterResult
<1>. HIDE DEF g, H
<1>6. Sharing!Hear(n, g.peer, H)
  BY <1>2, <1>3, <1>4, <1>5 DEF Sharing!Hear, Sharing!Note
<1>. QED
  BY <1>1, <1>2, <1>6

\* A download that finishes has all the content; one that does not leaves
\* the file as it was.
LEMMA FinishIsWhole ==
  ASSUME TypeOK, Opened, CompleteInv, NEW n \in Node, NEW f \in File, Finish(n, f)
  PROVE  Sharing!Finish(n, f) \/ UNCHANGED Sharing!vars
<1>. DEFINE d == download[n][f]
            old == filesMetadata[n]["own"][f]
            e == [old EXCEPT !.size = Len(Chunks[f])]
<1>1. UNCHANGED <<hashDataMap, chunkOwners>>
  BY DEF Finish
<1>2. CASE d.got # Len(Chunks[f])
  BY <1>1, <1>2, SameEntries DEF Finish, Sharing!vars
<1>3. CASE d.got = Len(Chunks[f])
  <2>1. f \in hashDataMap[n] /\ \A j \in Index(f) : Chunks[f][j] \in hashDataMap[n]
    BY <1>3, CountedAll
  <2>2. Content[f] \subseteq hashDataMap[n]
    BY <2>1 DEF Content
  <2>3. old \in Metadata /\ filesMetadata' = [filesMetadata EXCEPT ![n]["own"][f] = e]
    BY <1>3 DEF Finish, Opened
  <2>4. e \in Metadata /\ e.size # 0
    BY <2>3, ContentTypes DEF Metadata
  <2>5. CompleteFiles' = [CompleteFiles EXCEPT ![n] = @ \cup {f}]
    <3>. HIDE DEF e
    <3>. QED BY <2>3, <2>4, OwnEntry
  <2>. QED BY <1>1, <2>2, <2>5 DEF Sharing!Finish
<1>. QED
  BY <1>2, <1>3

LEMMA SharingInit == Init => Sharing!Init
<1>. SUFFICES ASSUME Init PROVE Sharing!Init
  OBVIOUS
<1>1. \A n \in Node, f \in File : ~Complete(n, f)
  BY DEF Init, Complete, Key
<1>2. CompleteFiles = [n \in Node |-> {}]
  BY <1>1 DEF CompleteFiles
<1>. QED
  BY <1>2 DEF Init, Sharing!Init

\* The other steps of a download change an entry without the size, or none.
LEMMA DownloadShares ==
  ASSUME TypeOK, Opened, ReplyInv, CompleteInv, NEW n \in Node, NEW f \in File,
         DownloadStep(n, f)
  PROVE  Sharing!Next \/ UNCHANGED Sharing!vars
<1>1. CASE TakeChunk(n, f)
  BY <1>1, ChunkIsCopied DEF Sharing!Next
<1>2. CASE TakeMetafile(n, f)
  BY <1>2, MetafileIsCopied DEF Sharing!Next
<1>3. CASE Finish(n, f)
  BY <1>3, FinishIsWhole DEF Sharing!Next
<1>4. CASE OpenMetafile(n, f)
  <2>. DEFINE old == filesMetadata[n]["own"][f]
              s == LoadOrStore(old, Missing)
              e == updateChunkMap(s, f, hashDataMap[n])
  <2>1. Missing \in Metadata /\ Missing.size = 0 /\ old \in Metadata \cup {NoMetadata}
    BY DEF Missing, Metadata, TypeOK, Key
  <2>2. s \in Metadata /\ (Complete(n, f) <=> s.size # 0)
    BY <2>1, EntryTypes DEF LoadOrStore, Complete
  <2>3. e \in Metadata /\ e.size = s.size
    <3>. HIDE DEF s
    <3>. QED BY <2>2, MetadataTypes
  <2>4. filesMetadata' = [filesMetadata EXCEPT ![n]["own"][f] = e]
        /\ UNCHANGED <<hashDataMap, chunkOwners>>
    BY <1>4 DEF OpenMetafile
  <2>. HIDE DEF s, e
  <2>5. UNCHANGED CompleteFiles
    BY <2>2, <2>3, <2>4, OwnEntry
  <2>. QED BY <2>4, <2>5 DEF Sharing!vars
<1>5. CASE GiveUpMetafile(n, f) \/ NextChunk(n, f) \/ GiveUpChunk(n, f)
  BY <1>5, SameEntries DEF GiveUpMetafile, NextChunk, GiveUpChunk, Sharing!vars
<1>. QED
  BY <1>1, <1>2, <1>3, <1>4, <1>5 DEF DownloadStep

LEMMA SharingNext ==
  ASSUME TypeOK, Opened, ReplyInv, AnnounceInv, CompleteInv, [Next]_vars
  PROVE  [Sharing!Next]_Sharing!vars
<1>0. CASE UNCHANGED vars
  BY <1>0, SameEntries DEF vars, Sharing!vars
<1>1. ASSUME NEW n \in Node, NEW f \in File, IndexFile(n, f)
      PROVE  Sharing!Next
  BY <1>1, IndexShares DEF Sharing!Next
<1>2. ASSUME NEW n \in Node, NEW f \in File, DownloadStep(n, f)
      PROVE  Sharing!Next \/ UNCHANGED Sharing!vars
  BY <1>2, DownloadShares
<1>3. ASSUME NEW n \in Node, NEW f \in File, FinderStep(n, f)
      PROVE  Sharing!Next \/ UNCHANGED Sharing!vars
  <2>1. CASE TakeFoundMetafile(n, f)
    BY <2>1, MetafileIsCopied DEF Sharing!Next
  <2>2. CASE EnterResult(n, f)
    BY <2>2, ResultIsHeard DEF Sharing!Next
  <2>3. CASE GiveUpResult(n, f)
    BY <2>3, SameEntries DEF GiveUpResult, Sharing!vars
  <2>. QED BY <1>3, <2>1, <2>2, <2>3 DEF FinderStep
<1>4. ASSUME NEW n \in Node, NEW f \in File,
             \/ \E dest \in (Node \ {n}) \cup {NoPeer} : RequestFile(n, f, dest)
             \/ \E o \in Node, k \in Key : SendResult(o, n, k, f)
      PROVE  UNCHANGED Sharing!vars
  BY <1>4, SameEntries DEF RequestFile, SendResult, Sharing!vars
<1>5. ASSUME NEW m, processDataRequest(m) \/ processDataReply(m)
      PROVE  UNCHANGED Sharing!vars
  BY <1>5, SameEntries DEF processDataRequest, processDataReply, Sharing!vars
<1>6. ASSUME NEW r, handleSearchResult(r)
      PROVE  UNCHANGED Sharing!vars
  <2>1. r.to \in Node /\ r.file \in File
    BY <1>6 DEF handleSearchResult, TypeOK, Result
  <2>2. UNCHANGED CompleteFiles
    BY <1>6, <2>1, FoundEntry DEF handleSearchResult
  <2>. QED BY <1>6, <2>2 DEF handleSearchResult, Sharing!vars
<1>. QED
  BY <1>0, <1>1, <1>2, <1>3, <1>4, <1>5, <1>6 DEF Next

\* For any number of gossipers, files and downloads of them at a time, the
\* exchange of requests, replies and results (filesharing.go, filehandler.go,
\* mainhandler.go) is nothing but sharing and copying: no interleaving, late
\* reply or stale result brings about data, a complete file or an owner that
\* the abstract specification does not allow.
THEOREM SharingIsImplemented == Spec => ImplementsSharing
  BY SharingInit, SharingNext, TypeCorrect, OpenedCorrect, ReplyInvCorrect,
     AnnounceInvCorrect, CompleteInvCorrect, PTL DEF Spec, ImplementsSharing, Sharing!Spec

LEMMA ProvenanceStep ==
  ASSUME TypeOK, Sharing!Provenance, [Sharing!Next]_Sharing!vars
  PROVE  Sharing!Provenance'
<1>. DEFINE Good(h) == \E o \in Node : \E f \in Shared[o] : h \in Content[f]
<1>1. \A n \in Node : \A h \in hashDataMap[n] : Good(h)
  BY DEF Sharing!Provenance
<1>2. ASSUME NEW n \in Node, NEW H, Sharing!Get(n, H), \A h \in H : Good(h)
      PROVE  Sharing!Provenance'
  <2>1. \A m \in Node : hashDataMap'[m] \subseteq hashDataMap[m] \cup H
    BY <1>2 DEF Sharing!Get, TypeOK
  <2>. QED BY <1>1, <1>2, <2>1 DEF Sharing!Provenance
<1>3. ASSUME NEW n \in Node, NEW f \in File, Sharing!Share(n, f)
      PROVE  Sharing!Provenance'
  <2>1. Sharing!Get(n, Content[f]) /\ \A h \in Content[f] : Good(h)
    BY <1>3 DEF Sharing!Share
  <2>. QED BY <1>2, <2>1
<1>4. ASSUME NEW n \in Node, NEW p \in Node, NEW h \in hashDataMap[p], Sharing!Copy(n, p, h)
      PROVE  Sharing!Provenance'
  <2>1. Sharing!Get(n, {h}) /\ \A c \in {h} : Good(c)
    BY <1>1, <1>4 DEF Sharing!Copy
  <2>. QED BY <1>2, <2>1
<1>5. CASE UNCHANGED hashDataMap
  BY <1>5 DEF Sharing!Provenance
<1>. QED
  BY <1>3, <1>4, <1>5 DEF Sharing!Next, Sharing!Hear, Sharing!Finish, Sharing!vars

\* Every chunk and metafile that a node ever holds (hashDataMap) is of a file in
\* the shared folder of some node, however many nodes it went through: what a
\* peer hands on was handed to it in the same way, or indexed.
THEOREM DataIsShared == Spec => []Sharing!Provenance
<1>1. Init => Sharing!Provenance
  BY DEF Init, Sharing!Provenance
<1>. QED
  BY <1>1, ProvenanceStep, SharingNext, TypeCorrect, OpenedCorrect, ReplyInvCorrect,
     AnnounceInvCorrect, CompleteInvCorrect, PTL DEF Spec
=============================================================================
