------------------------- MODULE FileTransferProofs -------------------------
(***************************************************************************)
(* The file transfer, for any sizes and any number of transfers, aborts    *)
(* and faults: the types, what the user can stop, the accounting of the    *)
(* receiver, and the order of what is written.                             *)
(***************************************************************************)
EXTENDS FileTransfer, TLAPS, WellFoundedInduction

Message == Chunk \cup Control \cup Offer

(* The type invariant in parts, by the actions that touch them, and what   *)
(* the types rest on: a loop that is to send or to count has a chunk, a    *)
(* file is never read past its end, and what is being accepted was offered *)
(* and is open.                                                            *)

SendOK ==
    /\ sendHandle \in [Peers -> Handle \cup {None}]
    /\ sendTotalBytes \in [Peers -> Nat] /\ sendBytesSent \in [Peers -> Nat]

LoopOK ==
    /\ loop \in [Peers -> [pc : {"idle", "read", "push", "count", "end"},
                           chunk : Chunk \cup {None}]]
    /\ \A p \in Peers : loop[p].pc \in {"push", "count"} => loop[p].chunk \in Chunk

ReadOK ==
    \A p \in Peers : sendHandle[p] # None => sendHandle[p].pos <= sendHandle[p].file.size

RecvOK ==
    /\ recvHandle \in [Peers -> BOOLEAN]
    /\ recvTotalBytes \in [Peers -> Nat] /\ recvBytesReceived \in [Peers -> Nat]
    /\ incomingFileName \in [Peers -> Files \cup {None}]
    /\ rtcWritten \in [Peers -> Nat]
    /\ accepting \in [Peers -> BOOLEAN]
    /\ \A p \in Peers : accepting[p] => recvHandle[p] /\ incomingFileName[p] # None

PageOK ==
    /\ isSending \in [Peers -> BOOLEAN] /\ offerShown \in [Peers -> BOOLEAN]
    /\ overlayShown \in [Peers -> BOOLEAN]
    /\ incomingName \in [Peers -> Files \cup {None}]
    /\ savePanels \in [Peers -> Nat]

QueueOK == mainQ \in [Peers -> Seq(Block)] /\ fileQ \in [Peers -> Nat]

WireOK ==
    /\ channelOpen \in BOOLEAN
    /\ chan \in [Peers -> Seq(Message)]
    /\ disk \in [Peers -> Seq(Chunk)]

PastOK ==
    /\ transferCancelled \in [Peers -> BOOLEAN]
    /\ saved \subseteq Files /\ accepted \subseteq Files
    /\ current \in [Peers -> Files \cup {None}] /\ wiped \in [Peers -> Nat]

BoundsOK == offers \in Nat /\ aborts \in Nat /\ faults \in Nat

TInv ==
    /\ SendOK /\ LoopOK /\ ReadOK /\ RecvOK /\ PageOK
    /\ QueueOK /\ WireOK /\ PastOK /\ BoundsOK

\* These are the types of FileTransfer.
LEMMA TypesHold == TInv => TypeOK
  BY DEF TInv, SendOK, LoopOK, RecvOK, PageOK, QueueOK, WireOK, PastOK, BoundsOK, TypeOK, Message
-----------------------------------------------------------------------------
(* Helpers.                                                                *)

\* There are two apps.
LEMMA OtherPeer ==
    ASSUME NEW p \in Peers
    PROVE  /\ Other(p) \in Peers /\ Other(p) # p /\ Other(Other(p)) = p
           /\ \A q \in Peers : q = p \/ q = Other(p)
<1>1. PICK a \in Peers, b \in Peers : a # b /\ Peers = {a, b}
  BY PeersAssumption
<1>2. ASSUME NEW x \in Peers PROVE Other(x) \in Peers /\ Other(x) # x
  BY <1>1 DEF Other
<1>. QED
  BY <1>1, <1>2

\* The channel keeps its type when something is sent, the queue when posted to.
LEMMA SendToType ==
    ASSUME NEW ch \in [Peers -> Seq(Message)], NEW p \in Peers, NEW ms \in Seq(Message)
    PROVE  SendTo(ch, p, ms) \in [Peers -> Seq(Message)]
  BY OtherPeer DEF SendTo

\* Blocks that are posted go to the end of one queue.
LEMMA PostType ==
    ASSUME QueueOK, NEW p \in Peers, NEW bs \in Seq(Block), Post(p, bs)
    PROVE  mainQ' \in [Peers -> Seq(Block)]
  BY DEF QueueOK, Post

\* The message and the block that are taken, and what is left.
LEMMA TakenType ==
    ASSUME WireOK, NEW p \in Peers, chan[p] # <<>>
    PROVE  Taken(p) \in [Peers -> Seq(Message)] /\ Head(chan[p]) \in Message
<1>1. chan \in [Peers -> Seq(Message)]
  BY DEF WireOK
<1>2. Head(chan[p]) \in Message /\ Tail(chan[p]) \in Seq(Message)
  BY <1>1
<1>. QED
  BY <1>1, <1>2 DEF Taken

\* A block that runs leaves its queue.
LEMMA QueueTail ==
    ASSUME QueueOK, NEW p \in Peers, mainQ[p] # <<>>
    PROVE  Tail(mainQ[p]) \in Seq(Block)
  BY DEF QueueOK

\* The control messages and the blocks that are sent and posted.
LEMMA Constants ==
    /\ \A t \in {"ft_accept", "ft_reject", "ft_cancel", "ft_done"} : <<[t |-> t]>> \in Seq(Message)
    /\ \A f \in Files : <<[t |-> "ft_offer", file |-> f]>> \in Seq(Message)
    /\ \A o \in {"done", "cancelled", "error"} : Cleanup(o) \in Block
    /\ \A b \in {"offered", "progress", "iceDown"} : [b |-> b] \in Block
<1>1. \A t \in {"ft_accept", "ft_reject", "ft_cancel", "ft_done"} : [t |-> t] \in Message
  BY DEF Message, Control
<1>2. \A f \in Files : [t |-> "ft_offer", file |-> f] \in Message
  BY DEF Message, Offer
<1>3. \A o \in {"done", "cancelled", "error"} : Cleanup(o) \in Block
  BY DEF Cleanup, Block
<1>4. \A b \in {"offered", "progress", "iceDown"} : [b |-> b] \in Block
  BY DEF Block
<1>. QED
  BY <1>1, <1>2, <1>3, <1>4

\* What is read of a file is there to be read.
LEMMA ChunkFits ==
    ASSUME NEW h \in Handle, h.pos <= h.file.size
    PROVE  /\ ChunkLen(h) \in Nat /\ h.pos + ChunkLen(h) <= h.file.size
           /\ Advanced(h) \in Handle /\ Advanced(h).file = h.file
           /\ Advanced(h).pos = h.pos + ChunkLen(h)
<1>1. h.pos \in Nat /\ h.file \in Files /\ h.file.size \in Nat /\ ChunkSize \in Nat
  BY SizesAssumption DEF Handle, Files
<1>2. ChunkLen(h) \in Nat /\ h.pos + ChunkLen(h) <= h.file.size
  BY <1>1 DEF ChunkLen
<1>. QED
  BY <1>1, <1>2 DEF Advanced, Handle

\* A zeroed count is a count.
LEMMA ZeroedType ==
    ASSUME NEW count \in Nat, NEW racing, NEW n \in Zeroed(count, racing)
    PROVE  n \in Nat /\ count - n \in Nat /\ n \in {0, count}
  BY DEF Zeroed

\* None is neither a file, nor a handle, nor a chunk.
LEMMA NoneApart == None \notin Files /\ None \notin Handle /\ None \notin Chunk
  BY NoneAssumption DEF Files, Handle, Chunk
-----------------------------------------------------------------------------
(* Types.                                                                  *)

\* The types hold at the start.
LEMMA TypesInit == Init => TInv
<1>. SUFFICES ASSUME Init PROVE TInv
  OBVIOUS
<1>1. <<>> \in Seq(Block) /\ <<>> \in Seq(Chunk) /\ <<>> \in Seq(Message)
  OBVIOUS
<1>. QED
  BY <1>1 DEF Init, TInv, SendOK, LoopOK, ReadOK, RecvOK, PageOK, QueueOK, WireOK, PastOK,
              BoundsOK

\* The user's actions.
LEMMA TypesUser ==
    ASSUME TInv, NEW p \in Peers, User(p)
    PROVE  TInv'
<1>t. /\ SendOK /\ LoopOK /\ ReadOK /\ RecvOK /\ PageOK
      /\ QueueOK /\ WireOK /\ PastOK /\ BoundsOK
      /\ chan \in [Peers -> Seq(Message)]
  BY DEF TInv, WireOK
<1>1. ASSUME NEW n \in Sizes, SendFile(p, n) PROVE TInv'
  <2>. DEFINE file == [id |-> offers + 1, size |-> n]
  <2>1. n \in Nat /\ offers + 1 \in Nat /\ file \in Files
    BY <1>t, SizesAssumption DEF BoundsOK, Files
  <2>2. [file |-> file, pos |-> 0] \in Handle
    BY <2>1 DEF Handle
  <2>3. SendOK'
    <3>1. PICK k \in Zeroed(sendBytesSent[p], loop[p].pc = "count") :
            sendBytesSent' = [sendBytesSent EXCEPT ![p] = k]
      BY <1>1 DEF SendFile
    <3>2. k \in Nat
      BY <1>t, ZeroedType DEF SendOK
    <3>. QED
      BY <1>1, <1>t, <2>1, <2>2, <3>1, <3>2 DEF SendFile, SendOK
  <2>4. ReadOK'
    BY <1>1, <1>t, <2>1 DEF SendFile, ReadOK, SendOK
  <2>5. LoopOK' /\ RecvOK' /\ QueueOK' /\ BoundsOK'
    BY <1>1, <1>t, <2>1 DEF SendFile, LoopOK, RecvOK, QueueOK, BoundsOK, recvState, fileState
  <2>6. PageOK'
    BY <1>1, <1>t DEF SendFile, PageOK, SetSendingInProgress
  <2>7. WireOK'
    BY <1>1, <1>t, <2>1, SendToType, Constants DEF SendFile, WireOK
  <2>8. PastOK'
    BY <1>1, <1>t, <2>1 DEF SendFile, PastOK
  <2>. QED
    BY <2>3, <2>4, <2>5, <2>6, <2>7, <2>8 DEF TInv
<1>2. CASE CancelFileTransfer(p)
  <2>1. SendOK' /\ LoopOK' /\ ReadOK' /\ RecvOK' /\ PageOK'
    BY <1>2, <1>t DEF CancelFileTransfer, SendOK, LoopOK, ReadOK, RecvOK, PageOK,
                      sendState, fileState, recvState, ui
  <2>2. WireOK'
    BY <1>2, <1>t, SendToType, Constants DEF CancelFileTransfer, WireOK
  <2>3. QueueOK'
    <3>1. <<Cleanup("cancelled")>> \in Seq(Block)
      BY Constants
    <3>. QED
      BY <1>2, <1>t, <3>1, PostType DEF CancelFileTransfer, QueueOK, fileState
  <2>4. PastOK' /\ BoundsOK'
    BY <1>2, <1>t DEF CancelFileTransfer, Abort, PastOK, BoundsOK, history
  <2>. QED
    BY <2>1, <2>2, <2>3, <2>4 DEF TInv
<1>3. CASE OnAccept(p)
  <2>1. PageOK'
    BY <1>3, <1>t DEF OnAccept, PageOK
  <2>2. /\ SendOK' /\ LoopOK' /\ ReadOK' /\ RecvOK'
        /\ QueueOK' /\ WireOK' /\ PastOK' /\ BoundsOK'
    BY <1>3, <1>t DEF OnAccept, SendOK, LoopOK, ReadOK, RecvOK, QueueOK, WireOK, PastOK, BoundsOK,
                      sendState, recvState, fileState, history, bounds
  <2>. QED
    BY <2>1, <2>2 DEF TInv
<1>4. CASE OpenDestination(p)
  <2>1. RecvOK'
    BY <1>4, <1>t DEF OpenDestination, Acceptable, RecvOK
  <2>2. WireOK' /\ PastOK'
    BY <1>4, <1>t DEF OpenDestination, WireOK, PastOK
  <2>3. SendOK' /\ LoopOK' /\ ReadOK' /\ PageOK' /\ QueueOK' /\ BoundsOK'
    BY <1>4, <1>t DEF OpenDestination, SendOK, LoopOK, ReadOK, PageOK, QueueOK, BoundsOK,
                      sendState, fileState, ui, bounds
  <2>. QED
    BY <2>1, <2>2, <2>3 DEF TInv
<1>5. CASE AcceptIgnored(p)
  <2>1. PageOK'
    BY <1>5, <1>t DEF AcceptIgnored, PanelConfirmed, BeginReceiving, PageOK
  <2>2. /\ SendOK' /\ LoopOK' /\ ReadOK' /\ RecvOK'
        /\ QueueOK' /\ WireOK' /\ PastOK' /\ BoundsOK'
    BY <1>5, <1>t DEF AcceptIgnored, SendOK, LoopOK, ReadOK, RecvOK, QueueOK, WireOK, PastOK,
                      BoundsOK, sendState, recvState, fileState, history, bounds
  <2>. QED
    BY <2>1, <2>2 DEF TInv
<1>6. CASE OnReject(p) \/ PanelDismissed(p)
  <2>1. RejectIncomingFile(p)
    BY <1>6 DEF OnReject, PanelDismissed
  <2>2. PageOK'
    <3>1. savePanels \in [Peers -> Nat]
      BY <1>t DEF PageOK
    <3>2. savePanels' \in [Peers -> Nat]
      BY <1>6, <3>1 DEF OnReject, PanelDismissed
    <3>. QED
      BY <1>t, <2>1, <3>2 DEF RejectIncomingFile, PageOK
  <2>3. WireOK'
    BY <2>1, <1>t, SendToType, Constants DEF RejectIncomingFile, WireOK
  <2>4. QueueOK'
    <3>1. <<Cleanup("error")>> \in Seq(Block)
      BY Constants
    <3>. QED
      BY <1>t, <2>1, <3>1, PostType DEF RejectIncomingFile, QueueOK, fileState
  <2>5. SendOK' /\ LoopOK' /\ ReadOK' /\ RecvOK' /\ PastOK' /\ BoundsOK'
    BY <1>t, <2>1 DEF RejectIncomingFile, Abort, SendOK, LoopOK, ReadOK, RecvOK, PastOK, BoundsOK,
                      sendState, recvState, fileState, history
  <2>. QED
    BY <2>2, <2>3, <2>4, <2>5 DEF TInv
<1>. QED
  BY <1>1, <1>2, <1>3, <1>4, <1>5, <1>6 DEF User

\* The main thread's own steps: the rest of an accept, and the blocks of its queue.
LEMMA TypesMain ==
    ASSUME TInv, NEW p \in Peers, Main(p)
    PROVE  TInv'
<1>t. /\ SendOK /\ LoopOK /\ ReadOK /\ RecvOK /\ PageOK
      /\ QueueOK /\ WireOK /\ PastOK /\ BoundsOK
      /\ chan \in [Peers -> Seq(Message)]
  BY DEF TInv, WireOK
<1>0. CASE AcceptIncomingFile(p)
  <2>0. PICK n \in Zeroed(recvBytesReceived[p], rtcWritten[p] > 0) :
          /\ recvBytesReceived' = [recvBytesReceived EXCEPT ![p] = n]
          /\ wiped' = [wiped EXCEPT ![p] = recvBytesReceived[p] - n]
    BY <1>0 DEF AcceptIncomingFile
  <2>n. n \in Nat /\ recvBytesReceived[p] - n \in Nat
    BY <1>t, ZeroedType DEF RecvOK
  <2>1. PageOK'
    BY <1>0, <1>t DEF AcceptIncomingFile, PanelConfirmed, BeginReceiving, PageOK
  <2>2. RecvOK' /\ incomingFileName[p] \in Files
    BY <1>0, <1>t, <2>0, <2>n DEF AcceptIncomingFile, RecvOK
  <2>3. WireOK'
    <3>1. chan' \in [Peers -> Seq(Message)]
      BY <1>0, <1>t, SendToType, Constants DEF AcceptIncomingFile
    <3>. QED
      BY <1>0, <1>t, <3>1 DEF AcceptIncomingFile, WireOK
  <2>4. PastOK'
    BY <1>0, <1>t, <2>0, <2>n, <2>2 DEF AcceptIncomingFile, PastOK
  <2>5. SendOK' /\ LoopOK' /\ ReadOK' /\ QueueOK' /\ BoundsOK'
    BY <1>0, <1>t DEF AcceptIncomingFile, SendOK, LoopOK, ReadOK, QueueOK, BoundsOK,
                      sendState, fileState, bounds
  <2>. QED
    BY <2>1, <2>2, <2>3, <2>4, <2>5 DEF TInv
<1>q. mainQ[p] # <<>> => Tail(mainQ[p]) \in Seq(Block)
  BY <1>t, QueueTail
<1>1. CASE CleanupTransfer(p)
  <2>1. SendOK' /\ ReadOK'
    <3>1. PICK k \in Zeroed(sendBytesSent[p], loop[p].pc = "count") :
            sendBytesSent' = [sendBytesSent EXCEPT ![p] = k]
      BY <1>1 DEF CleanupTransfer
    <3>2. k \in Nat
      BY <1>t, ZeroedType DEF SendOK
    <3>. QED
      BY <1>1, <1>t, <3>1, <3>2 DEF CleanupTransfer, SendOK, ReadOK
  <2>2. RecvOK'
    <3>1. PICK k \in Zeroed(recvBytesReceived[p], rtcWritten[p] > 0) :
            recvBytesReceived' = [recvBytesReceived EXCEPT ![p] = k]
      BY <1>1 DEF CleanupTransfer
    <3>2. k \in Nat
      BY <1>t, ZeroedType DEF RecvOK
    <3>. QED
      BY <1>1, <1>t, <3>1, <3>2 DEF CleanupTransfer, NextBlock, MainFree, RecvOK
  <2>3. PageOK'
    BY <1>1, <1>t DEF CleanupTransfer, TransferDidFinish, SetSendingInProgress, ResetToIdle, PageOK
  <2>4. QueueOK'
    BY <1>1, <1>t, <1>q DEF CleanupTransfer, NextBlock, QueueOK, fileState
  <2>5. LoopOK' /\ WireOK' /\ PastOK' /\ BoundsOK'
    BY <1>1, <1>t DEF CleanupTransfer, LoopOK, WireOK, PastOK, BoundsOK, fileState, history, bounds
  <2>. QED
    BY <2>1, <2>2, <2>3, <2>4, <2>5 DEF TInv
<1>2. CASE FileReceiveOffered(p) \/ FileReceiveProgress(p)
  <2>1. PageOK'
    BY <1>2, <1>t DEF FileReceiveOffered, FileReceiveProgress, PresentIncomingOffer, PageOK,
                      RecvOK
  <2>2. QueueOK'
    BY <1>2, <1>t, <1>q DEF FileReceiveOffered, FileReceiveProgress, NextBlock, QueueOK, fileState
  <2>3. SendOK' /\ LoopOK' /\ ReadOK' /\ RecvOK' /\ WireOK' /\ PastOK' /\ BoundsOK'
    BY <1>2, <1>t DEF FileReceiveOffered, FileReceiveProgress, SendOK, LoopOK, ReadOK, RecvOK,
                      WireOK, PastOK, BoundsOK, sendState, recvState, fileState, history, bounds
  <2>. QED
    BY <2>1, <2>2, <2>3 DEF TInv
<1>3. CASE IceDisconnected(p)
  <2>1. QueueOK'
    <3>1. (IF Busy(p) THEN <<Cleanup("error")>> ELSE <<>>) \in Seq(Block)
      BY Constants
    <3>2. (Tail(mainQ[p]) \o IF Busy(p) THEN <<Cleanup("error")>> ELSE <<>>) \in Seq(Block)
      BY <1>3, <1>q, <3>1 DEF IceDisconnected, NextBlock
    <3>. QED
      BY <1>3, <1>t, <3>2 DEF IceDisconnected, QueueOK, fileState
  <2>2. SendOK' /\ LoopOK' /\ ReadOK' /\ RecvOK' /\ PageOK' /\ WireOK' /\ PastOK' /\ BoundsOK'
    BY <1>3, <1>t DEF IceDisconnected, SendOK, LoopOK, ReadOK, RecvOK, PageOK, WireOK, PastOK,
                      BoundsOK, sendState, recvState, ui, fileState, history, bounds
  <2>. QED
    BY <2>1, <2>2 DEF TInv
<1>. QED
  BY <1>0, <1>1, <1>2, <1>3 DEF Main, MainBlock

\* The delegate of the data channel.
LEMMA TypesRtc ==
    ASSUME TInv, NEW p \in Peers, Rtc(p) \/ WriteFails(p)
    PROVE  TInv'
<1>t. /\ SendOK /\ LoopOK /\ ReadOK /\ RecvOK /\ PageOK
      /\ QueueOK /\ WireOK /\ PastOK /\ BoundsOK
      /\ chan \in [Peers -> Seq(Message)]
  BY DEF TInv, WireOK
<1>h. ASSUME NEW t, Incoming(p, t)
      PROVE  /\ Taken(p) \in [Peers -> Seq(Message)] /\ Head(chan[p]) \in Message
             /\ Head(chan[p]).t = t
  BY <1>t, <1>h, TakenType DEF Incoming
<1>c. Incoming(p, "chunk") => Head(chan[p]) \in Chunk
  <2>1. \A m \in Message : m.t = "chunk" => m \in Chunk
    BY DEF Message, Chunk, Control, Offer
  <2>. QED
    BY <1>h, <2>1
<1>1. CASE OnOffer(p)
  <2>1. Head(chan[p]).file \in Files /\ Head(chan[p]).file.size \in Nat
    <3>1. \A m \in Message : m.t = "ft_offer" => m.file \in Files
      BY DEF Message, Chunk, Control, Offer
    <3>2. \A f \in Files : f.size \in Nat
      BY SizesAssumption DEF Files
    <3>. QED
      BY <1>1, <1>h, <3>1, <3>2 DEF OnOffer
  <2>2. RecvOK'
    BY <1>1, <1>t, <2>1, NoneApart DEF OnOffer, Busy, RecvOK
  <2>3. WireOK'
    BY <1>1, <1>t, <1>h DEF OnOffer, WireOK
  <2>4. QueueOK'
    <3>1. <<[b |-> "offered"]>> \in Seq(Block)
      BY Constants
    <3>. QED
      BY <1>1, <1>t, <3>1, PostType DEF OnOffer, QueueOK, fileState
  <2>5. SendOK' /\ LoopOK' /\ ReadOK' /\ PageOK' /\ PastOK' /\ BoundsOK'
    BY <1>1, <1>t DEF OnOffer, SendOK, LoopOK, ReadOK, PageOK, PastOK, BoundsOK,
                      sendState, fileState, ui, history, bounds
  <2>. QED
    BY <2>2, <2>3, <2>4, <2>5 DEF TInv
<1>2. CASE OnOfferBusy(p) \/ DropChunk(p)
  <2>1. chan' \in [Peers -> Seq(Message)]
    <3>1. Taken(p) \in [Peers -> Seq(Message)] /\ chan' \in {Taken(p), SendTo(Taken(p), p, <<[t |-> "ft_reject"]>>)}
      BY <1>2, <1>h DEF OnOfferBusy, DropChunk
    <3>2. SendTo(Taken(p), p, <<[t |-> "ft_reject"]>>) \in [Peers -> Seq(Message)]
      BY <3>1, SendToType, Constants
    <3>. QED
      BY <3>1, <3>2
  <2>2. /\ SendOK' /\ LoopOK' /\ ReadOK' /\ RecvOK' /\ PageOK'
        /\ QueueOK' /\ WireOK' /\ PastOK' /\ BoundsOK'
    BY <1>2, <1>t, <2>1 DEF OnOfferBusy, DropChunk, SendOK, LoopOK, ReadOK, RecvOK, PageOK, QueueOK,
                      WireOK, PastOK, BoundsOK, sendState, recvState, ui, fileState, history, bounds
  <2>. QED
    BY <2>2 DEF TInv
<1>3. CASE OnAcceptMsg(p)
  <2>1. WireOK'
    BY <1>3, <1>t, <1>h DEF OnAcceptMsg, WireOK
  <2>2. QueueOK'
    BY <1>3, <1>t DEF OnAcceptMsg, QueueOK
  <2>3. SendOK' /\ LoopOK' /\ ReadOK' /\ RecvOK' /\ PageOK' /\ PastOK' /\ BoundsOK'
    BY <1>3, <1>t DEF OnAcceptMsg, SendOK, LoopOK, ReadOK, RecvOK, PageOK, PastOK, BoundsOK,
                      sendState, recvState, ui, history, bounds
  <2>. QED
    BY <2>1, <2>2, <2>3 DEF TInv
<1>4. CASE OnEnd(p) \/ WriteFails(p)
  <2>1. WireOK'
    BY <1>4, <1>t, <1>h DEF OnEnd, WriteFails, WireOK
  <2>2. QueueOK'
    <3>1. <<Cleanup("error")>> \in Seq(Block) /\ <<Cleanup("done")>> \in Seq(Block)
      BY Constants
    <3>2. mainQ' \in [Peers -> Seq(Block)]
      BY <1>4, <1>t, <3>1, PostType DEF OnEnd, WriteFails
    <3>. QED
      BY <1>4, <1>t, <3>2 DEF OnEnd, WriteFails, QueueOK, fileState
  <2>3. SendOK' /\ LoopOK' /\ ReadOK' /\ RecvOK' /\ PageOK' /\ PastOK'
    BY <1>4, <1>t DEF OnEnd, WriteFails, SendOK, LoopOK, ReadOK, RecvOK, PageOK, PastOK,
                      sendState, recvState, ui, fileState, history
  <2>4. BoundsOK'
    BY <1>4, <1>t DEF OnEnd, WriteFails, Fault, BoundsOK, bounds
  <2>. QED
    BY <2>1, <2>2, <2>3, <2>4 DEF TInv
<1>5. CASE WriteChunk(p)
  <2>1. PICK c \in Chunk : c = Head(chan[p])
    BY <1>5, <1>c DEF WriteChunk
  <2>2. c.len \in Nat /\ c.file \in Files
    BY <2>1 DEF Chunk
  <2>3. RecvOK'
    BY <1>5, <1>t, <2>1, <2>2 DEF WriteChunk, RecvOK, recvState
  <2>4. WireOK'
    BY <1>5, <1>t, <1>h, <2>1 DEF WriteChunk, WireOK
  <2>5. PastOK'
    <3>1. saved' \subseteq saved \cup {c.file}
      BY <1>5, <2>1 DEF WriteChunk
    <3>. QED
      BY <1>5, <1>t, <2>2, <3>1 DEF WriteChunk, PastOK
  <2>6. SendOK' /\ LoopOK' /\ ReadOK' /\ PageOK' /\ QueueOK' /\ BoundsOK'
    BY <1>5, <1>t DEF WriteChunk, SendOK, LoopOK, ReadOK, PageOK, QueueOK, BoundsOK,
                      sendState, fileState, ui, bounds
  <2>. QED
    BY <2>3, <2>4, <2>5, <2>6 DEF TInv
<1>6. CASE CountChunk(p)
  <2>. DEFINE finished == LastByte(p, recvBytesReceived[p] + rtcWritten[p])
  <2>1. RecvOK'
    BY <1>6, <1>t DEF CountChunk, RecvOK
  <2>2. WireOK'
    <3>1. SendTo(chan, p, <<[t |-> "ft_done"]>>) \in [Peers -> Seq(Message)]
      BY <1>t, SendToType, Constants
    <3>2. chan' \in {chan, SendTo(chan, p, <<[t |-> "ft_done"]>>)}
      BY <1>6 DEF CountChunk
    <3>. QED
      BY <1>6, <1>t, <3>1, <3>2 DEF CountChunk, WireOK
  <2>3. QueueOK'
    <3>1. Reports(finished) \in Seq(Block)
      BY Constants DEF Reports
    <3>2. Post(p, Reports(finished)) /\ fileQ' = fileQ
      BY <1>6 DEF CountChunk, fileState
    <3>. HIDE DEF finished
    <3>. QED
      BY <1>t, <3>1, <3>2, PostType DEF QueueOK
  <2>4. SendOK' /\ LoopOK' /\ ReadOK' /\ PageOK' /\ PastOK' /\ BoundsOK'
    BY <1>6, <1>t DEF CountChunk, SendOK, LoopOK, ReadOK, PageOK, PastOK, BoundsOK,
                      sendState, fileState, ui, history, bounds
  <2>. QED
    BY <2>1, <2>2, <2>3, <2>4 DEF TInv
<1>. QED
  BY <1>1, <1>2, <1>3, <1>4, <1>5, <1>6 DEF Rtc

\* The sending loop.
LEMMA TypesLoop ==
    ASSUME TInv, NEW p \in Peers, Loop(p) \/ LoopReadFails(p)
    PROVE  TInv'
<1>t. /\ SendOK /\ LoopOK /\ ReadOK /\ RecvOK /\ PageOK
      /\ QueueOK /\ WireOK /\ PastOK /\ BoundsOK
      /\ chan \in [Peers -> Seq(Message)]
  BY DEF TInv, WireOK
<1>d. SendTo(chan, p, <<[t |-> "ft_done"]>>) \in [Peers -> Seq(Message)]
  BY <1>t, SendToType, Constants
<1>e. <<Cleanup("error")>> \in Seq(Block) /\ <<Cleanup("done")>> \in Seq(Block)
  BY Constants
<1>l. Leave(p) => LoopOK'
  BY <1>t DEF Leave, LoopOK
<1>g. ASSUME NEW pc \in {"read", "end"}, Goto(p, pc) PROVE LoopOK'
  BY <1>t, <1>g DEF Goto, LoopOK
<1>w. ASSUME NEW n PROVE WhileTest(p, n) \in {"read", "end"}
  BY DEF WhileTest
<1>1. CASE LoopStart(p)
  <2>1. LoopOK'
    BY <1>1, <1>l, <1>g, <1>w DEF LoopStart
  <2>2. QueueOK'
    BY <1>1, <1>t DEF LoopStart, QueueOK
  <2>3. SendOK' /\ ReadOK' /\ RecvOK' /\ PageOK' /\ WireOK' /\ PastOK' /\ BoundsOK'
    BY <1>1, <1>t DEF LoopStart, SendOK, ReadOK, RecvOK, PageOK, WireOK, PastOK, BoundsOK,
                      sendState, recvState, ui, history, bounds
  <2>. QED
    BY <2>1, <2>2, <2>3 DEF TInv
<1>2. CASE LoopClosed(p) \/ LoopPushFails(p)
  <2>1. LoopOK'
    BY <1>2, <1>l DEF LoopClosed, LoopPushFails
  <2>2. QueueOK'
    <3>1. mainQ' \in [Peers -> Seq(Block)]
      BY <1>2, <1>t, <1>e, PostType DEF LoopClosed, LoopPushFails
    <3>. QED
      BY <1>2, <1>t, <3>1 DEF LoopClosed, LoopPushFails, QueueOK
  <2>3. SendOK' /\ ReadOK' /\ RecvOK' /\ PageOK' /\ WireOK' /\ PastOK'
    BY <1>2, <1>t DEF LoopClosed, LoopPushFails, SendOK, ReadOK, RecvOK, PageOK, WireOK, PastOK,
                      sendState, recvState, ui, history
  <2>4. BoundsOK'
    BY <1>2, <1>t DEF LoopClosed, LoopPushFails, Fault, BoundsOK, bounds
  <2>. QED
    BY <2>1, <2>2, <2>3, <2>4 DEF TInv
<1>3. CASE LoopRead(p)
  <2>1. RecvOK' /\ PageOK' /\ QueueOK' /\ WireOK' /\ PastOK' /\ BoundsOK'
    BY <1>3, <1>t DEF LoopRead, RecvOK, PageOK, QueueOK, WireOK, PastOK, BoundsOK,
                      recvState, ui, history, bounds
  <2>2. CASE sendHandle[p] = None \/ ChunkLen(sendHandle[p]) = 0
    <3>1. Goto(p, "end") /\ UNCHANGED <<sendHandle, sendTotalBytes, sendBytesSent>>
      BY <1>3, <2>2 DEF LoopRead, AfterEmptyRead
    <3>2. LoopOK'
      BY <1>g, <3>1
    <3>3. SendOK' /\ ReadOK'
      BY <1>t, <3>1 DEF SendOK, ReadOK
    <3>. QED
      BY <2>1, <3>2, <3>3 DEF TInv
  <2>3. CASE ~(sendHandle[p] = None \/ ChunkLen(sendHandle[p]) = 0)
    <3>1. PICK h \in Handle : h = sendHandle[p] /\ h.pos <= h.file.size
      BY <1>t, <2>3 DEF SendOK, ReadOK
    <3>2. PICK a \in Handle : a = Advanced(h) /\ a.pos <= a.file.size
      BY <3>1, ChunkFits
    <3>3. PICK c \in Chunk : c = [t |-> "chunk", file |-> h.file, off |-> h.pos, len |-> ChunkLen(h)]
      BY <3>1, ChunkFits DEF Chunk, Handle
    <3>4. /\ loop' = [loop EXCEPT ![p] = [pc |-> "push", chunk |-> c]]
          /\ sendHandle' = [sendHandle EXCEPT ![p] = a]
          /\ UNCHANGED <<sendTotalBytes, sendBytesSent>>
      BY <1>3, <2>3, <3>1, <3>2, <3>3 DEF LoopRead
    <3>5. LoopOK'
      BY <1>t, <3>3, <3>4 DEF LoopOK
    <3>6. SendOK' /\ ReadOK'
      BY <1>t, <3>2, <3>4 DEF SendOK, ReadOK
    <3>. QED
      BY <2>1, <3>5, <3>6 DEF TInv
  <2>. QED
    BY <2>2, <2>3
<1>4. CASE LoopReadFails(p)
  <2>1. LoopOK'
    BY <1>4, <1>g DEF LoopReadFails
  <2>2. SendOK' /\ ReadOK' /\ RecvOK' /\ PageOK' /\ QueueOK' /\ WireOK' /\ PastOK'
    BY <1>4, <1>t DEF LoopReadFails, SendOK, ReadOK, RecvOK, PageOK, QueueOK, WireOK, PastOK,
                      sendState, recvState, ui, history
  <2>3. BoundsOK'
    BY <1>4, <1>t DEF LoopReadFails, Fault, BoundsOK
  <2>. QED
    BY <2>1, <2>2, <2>3 DEF TInv
<1>5. CASE LoopPush(p)
  <2>1. loop[p].chunk \in Chunk
    BY <1>5, <1>t DEF LoopPush, At, LoopOK
  <2>2. <<loop[p].chunk>> \in Seq(Message)
    BY <2>1 DEF Message
  <2>3. WireOK'
    BY <1>5, <1>t, <2>2, SendToType DEF LoopPush, WireOK
  <2>4. LoopOK'
    BY <1>5, <1>t, <2>1 DEF LoopPush, Goto, LoopOK
  <2>5. SendOK' /\ ReadOK' /\ RecvOK' /\ PageOK' /\ QueueOK' /\ PastOK' /\ BoundsOK'
    BY <1>5, <1>t DEF LoopPush, SendOK, ReadOK, RecvOK, PageOK, QueueOK, PastOK, BoundsOK,
                      sendState, recvState, ui, history, bounds
  <2>. QED
    BY <2>3, <2>4, <2>5 DEF TInv
<1>6. CASE LoopCount(p)
  <2>1. loop[p].chunk \in Chunk /\ loop[p].chunk.len \in Nat
    BY <1>6, <1>t DEF LoopCount, At, LoopOK, Chunk
  <2>2. SendOK' /\ ReadOK'
    BY <1>6, <1>t, <2>1 DEF LoopCount, SendOK, ReadOK
  <2>3. LoopOK'
    BY <1>6, <1>t, <1>w DEF LoopCount, LoopOK
  <2>4. RecvOK' /\ PageOK' /\ QueueOK' /\ WireOK' /\ PastOK' /\ BoundsOK'
    BY <1>6, <1>t DEF LoopCount, RecvOK, PageOK, QueueOK, WireOK, PastOK, BoundsOK,
                      recvState, ui, history, bounds
  <2>. QED
    BY <2>2, <2>3, <2>4 DEF TInv
<1>7. CASE LoopEnd(p)
  <2>1. LoopOK'
    BY <1>7, <1>l DEF LoopEnd
  <2>2. WireOK'
    <3>1. chan' \in {chan, SendTo(chan, p, <<[t |-> "ft_done"]>>)}
      BY <1>7 DEF LoopEnd
    <3>. QED
      BY <1>7, <1>t, <1>d, <3>1 DEF LoopEnd, WireOK
  <2>3. QueueOK'
    <3>1. mainQ' = mainQ \/ Post(p, <<Cleanup("done")>>) \/ Post(p, <<Cleanup("error")>>)
      BY <1>7 DEF LoopEnd
    <3>2. mainQ' \in [Peers -> Seq(Block)]
      BY <1>t, <1>e, <3>1, PostType DEF QueueOK
    <3>. QED
      BY <1>7, <1>t, <3>2 DEF LoopEnd, QueueOK
  <2>4. SendOK' /\ ReadOK' /\ RecvOK' /\ PageOK' /\ PastOK' /\ BoundsOK'
    BY <1>7, <1>t DEF LoopEnd, SendOK, ReadOK, RecvOK, PageOK, PastOK, BoundsOK,
                      sendState, recvState, ui, history, bounds
  <2>. QED
    BY <2>1, <2>2, <2>3, <2>4 DEF TInv
<1>. QED
  BY <1>1, <1>2, <1>3, <1>4, <1>5, <1>6, <1>7 DEF Loop

\* The other failures.
LEMMA TypesFailure ==
    ASSUME TInv, (\E p \in Peers : AcceptFails(p) \/ IceDown(p)) \/ ChannelCloses
    PROVE  TInv'
<1>t. /\ SendOK /\ LoopOK /\ ReadOK /\ RecvOK /\ PageOK
      /\ QueueOK /\ WireOK /\ PastOK /\ BoundsOK
      /\ chan \in [Peers -> Seq(Message)]
  BY DEF TInv, WireOK
<1>1. ASSUME NEW p \in Peers, AcceptFails(p) PROVE TInv'
  <2>1. PageOK'
    BY <1>1, <1>t DEF AcceptFails, PanelConfirmed, BeginReceiving, PageOK
  <2>2. WireOK'
    BY <1>1, <1>t, SendToType, Constants DEF AcceptFails, WireOK
  <2>3. QueueOK'
    <3>1. <<Cleanup("error"), Cleanup("error")>> \in Seq(Block)
      BY Constants
    <3>. QED
      BY <1>1, <1>t, <3>1, PostType DEF AcceptFails, QueueOK, fileState
  <2>4. SendOK' /\ LoopOK' /\ ReadOK' /\ RecvOK' /\ PastOK' /\ BoundsOK'
    BY <1>1, <1>t DEF AcceptFails, Fault, SendOK, LoopOK, ReadOK, RecvOK, PastOK, BoundsOK,
                      sendState, recvState, fileState, history
  <2>. QED
    BY <2>1, <2>2, <2>3, <2>4 DEF TInv
<1>2. ASSUME NEW p \in Peers, IceDown(p) PROVE TInv'
  <2>1. QueueOK'
    <3>1. <<[b |-> "iceDown"]>> \in Seq(Block)
      BY Constants
    <3>. QED
      BY <1>2, <1>t, <3>1, PostType DEF IceDown, QueueOK, fileState
  <2>2. SendOK' /\ LoopOK' /\ ReadOK' /\ RecvOK' /\ PageOK' /\ WireOK' /\ PastOK'
    BY <1>2, <1>t DEF IceDown, SendOK, LoopOK, ReadOK, RecvOK, PageOK, WireOK, PastOK,
                      sendState, recvState, ui, fileState, history
  <2>3. BoundsOK'
    BY <1>2, <1>t DEF IceDown, Fault, BoundsOK
  <2>. QED
    BY <2>1, <2>2, <2>3 DEF TInv
<1>3. CASE ChannelCloses
  <2>1. WireOK'
    <3>1. [p \in Peers |-> <<>>] \in [Peers -> Seq(Message)]
      OBVIOUS
    <3>. QED
      BY <1>3, <1>t, <3>1 DEF ChannelCloses, WireOK
  <2>2. SendOK' /\ LoopOK' /\ ReadOK' /\ RecvOK' /\ PageOK' /\ QueueOK' /\ PastOK'
    BY <1>3, <1>t DEF ChannelCloses, SendOK, LoopOK, ReadOK, RecvOK, PageOK, QueueOK,
                      PastOK, sendState, recvState, ui, fileState, history
  <2>3. BoundsOK'
    BY <1>3, <1>t DEF ChannelCloses, Fault, BoundsOK
  <2>. QED
    BY <2>1, <2>2, <2>3 DEF TInv
<1>. QED
  BY <1>1, <1>2, <1>3

\* Every step keeps the types.
LEMMA TypesStep == TInv /\ [Next]_vars => TInv'
<1>. SUFFICES ASSUME TInv, [Next]_vars PROVE TInv'
  OBVIOUS
<1>1. ASSUME NEW p \in Peers, User(p) \/ Main(p) \/ Rtc(p) \/ Loop(p) \/ Failure(p) PROVE TInv'
  BY <1>1, TypesUser, TypesMain, TypesRtc, TypesLoop, TypesFailure DEF Failure
<1>2. CASE ChannelCloses
  BY <1>2, TypesFailure
<1>3. CASE UNCHANGED vars
  BY <1>3 DEF vars, TInv, SendOK, LoopOK, ReadOK, RecvOK, PageOK, QueueOK, WireOK, PastOK,
              BoundsOK, sendState, recvState, ui, fileState, history, bounds
<1>. QED
  BY <1>1, <1>2, <1>3 DEF Next

\* The types hold of every behaviour.
LEMMA TypesAlways == Spec => []TInv
  BY TypesInit, TypesStep, PTL DEF Spec

\* Every field of RTCClient and of the pages keeps its type, a loop that sends or
\* counts has a chunk, and no byte counter goes below zero, however the three
\* threads of the two apps interleave.
THEOREM TransferTypes == Spec => []TypeOK
  BY TypesAlways, TypesHold, PTL
-----------------------------------------------------------------------------
(* What the user can stop.                                                 *)

\* Stoppable is inductive once the types are known: whatever opens a handle
\* shows its button in the same block of the main thread.
LEMMA StoppableStep == TInv /\ Stoppable /\ [Next]_vars => Stoppable'
<1>. SUFFICES ASSUME TInv, Stoppable, [Next]_vars PROVE Stoppable'
  OBVIOUS
<1>t. SendOK /\ RecvOK /\ PageOK
  BY DEF TInv
<1>1. ASSUME NEW p \in Peers, User(p) PROVE Stoppable'
  <2>1. ASSUME NEW n \in Sizes, SendFile(p, n) PROVE Stoppable'
    BY <2>1, <1>t DEF SendFile, SetSendingInProgress, Stoppable, MainFree, SendOK, PageOK, recvState
  <2>2. CASE CancelFileTransfer(p) \/ OnReject(p) \/ PanelDismissed(p) \/ OnAccept(p)
    BY <2>2 DEF CancelFileTransfer, OnReject, PanelDismissed, RejectIncomingFile, OnAccept,
                Stoppable, MainFree, sendState, recvState, ui
  <2>3. CASE AcceptIgnored(p)
    BY <2>3, <1>t DEF AcceptIgnored, PanelConfirmed, BeginReceiving, Stoppable, MainFree, PageOK,
                      sendState, recvState
  <2>4. CASE OpenDestination(p)
    BY <2>4, <1>t DEF OpenDestination, Stoppable, MainFree, RecvOK, sendState, ui
  <2>. QED
    BY <1>1, <2>1, <2>2, <2>3, <2>4 DEF User
<1>2. ASSUME NEW p \in Peers, Main(p) PROVE Stoppable'
  <2>0. CASE AcceptIncomingFile(p)
    BY <2>0, <1>t DEF AcceptIncomingFile, PanelConfirmed, BeginReceiving, Stoppable, MainFree,
                      RecvOK, PageOK, sendState
  <2>1. CASE CleanupTransfer(p)
    BY <2>1, <1>t DEF CleanupTransfer, TransferDidFinish, SetSendingInProgress, ResetToIdle,
                      Stoppable, MainFree, SendOK, RecvOK, PageOK
  <2>2. CASE FileReceiveOffered(p) \/ FileReceiveProgress(p) \/ IceDisconnected(p)
    BY <2>2, <1>t DEF FileReceiveOffered, FileReceiveProgress, PresentIncomingOffer,
                      IceDisconnected, Stoppable, MainFree, PageOK, sendState, recvState, ui
  <2>. QED
    BY <1>2, <2>0, <2>1, <2>2 DEF Main, MainBlock
<1>3. ASSUME NEW p \in Peers, Rtc(p) PROVE Stoppable'
  BY <1>3 DEF Rtc, OnOffer, OnOfferBusy, OnAcceptMsg, OnEnd, DropChunk, WriteChunk, CountChunk,
              Stoppable, MainFree, sendState, recvState, ui
<1>4. ASSUME NEW p \in Peers, Loop(p) PROVE Stoppable'
  <2>1. UNCHANGED <<recvHandle, accepting, isSending, offerShown, overlayShown>>
    BY <1>4 DEF Loop, LoopStart, LoopClosed, LoopRead, LoopPush, LoopPushFails, LoopCount, LoopEnd,
                recvState, ui
  <2>2. \A q \in Peers : sendHandle'[q] # None => sendHandle[q] # None
    BY <1>4, <1>t DEF Loop, LoopStart, LoopClosed, LoopRead, LoopPush, LoopPushFails, LoopCount,
                      LoopEnd, SendOK, sendState
  <2>. QED
    BY <2>1, <2>2 DEF Stoppable, MainFree
<1>5. ASSUME NEW p \in Peers, Failure(p) PROVE Stoppable'
  <2>1. CASE AcceptFails(p)
    BY <2>1, <1>t DEF AcceptFails, PanelConfirmed, BeginReceiving, Stoppable, MainFree, PageOK, sendState,
                      recvState
  <2>2. CASE WriteFails(p) \/ LoopReadFails(p) \/ IceDown(p)
    BY <2>2 DEF WriteFails, LoopReadFails, IceDown, Stoppable, MainFree, sendState, recvState, ui
  <2>. QED
    BY <1>5, <2>1, <2>2 DEF Failure
<1>6. CASE ChannelCloses \/ UNCHANGED vars
  BY <1>6 DEF ChannelCloses, vars, Stoppable, MainFree, sendState, recvState, ui
<1>. QED
  BY <1>1, <1>2, <1>3, <1>4, <1>5, <1>6 DEF Next

\* An open source always has its cancel button, an open destination its panel or
\* its reject button, whatever cleanups, offers and reports are queued.
THEOREM AlwaysStoppable == Spec => []Stoppable
<1>1. Init => Stoppable
  BY DEF Init, Stoppable, MainFree
<1>. QED
  BY <1>1, TypesAlways, StoppableStep, PTL DEF Spec
-----------------------------------------------------------------------------
(* The receiver's count.  BytesIn is a recursive function: what it adds up *)
(* is proved by the least counterexample.                                  *)

\* A nonempty set of numbers has a least one.
LEMMA Least ==
    ASSUME NEW T \in SUBSET Nat, T # {}
    PROVE  \E x \in T : \A y \in T : x <= y
<1>. DEFINE R == {p \in Nat \X Nat : p[1] < p[2]}
<1>1. PICK x \in T : \A y \in T : ~(<<y, x>> \in R)
  <2>1. IsWellFoundedOn(R, Nat)
    BY NatLessThanWellFounded DEF OpToRel
  <2>. HIDE DEF R
  <2>. QED
    BY <2>1, WFMin
<1>2. ASSUME NEW y \in T PROVE x <= y
  <2>1. y < x => <<y, x>> \in R
    OBVIOUS
  <2>. QED
    BY <1>1, <2>1
<1>. QED
  BY <1>2

\* f[n] is the length of the first n chunks of s, for n up to k.
Adds(s, k, f) == f = [n \in 0..k |-> IF n = 0 THEN 0 ELSE f[n - 1] + s[n].len]

\* There is such a function, ...
LEMMA AddsExists ==
    ASSUME NEW s, NEW k \in Nat
    PROVE  \E f : Adds(s, k, f)
<1>. DEFINE T == {n \in Nat : ~\E f : Adds(s, n, f)}
<1>1. ASSUME T # {} PROVE FALSE
  <2>1. PICK x \in T : \A y \in T : x <= y
    BY <1>1, Least
  <2>2. x # 0
    <3>1. Adds(s, 0, [n \in 0..0 |-> 0])
      BY DEF Adds
    <3>. QED
      BY <2>1, <3>1
  <2>3. x \in Nat /\ x - 1 \in Nat /\ x - 1 \notin T
    BY <2>1, <2>2
  <2>4. PICK f : Adds(s, x - 1, f)
    BY <2>3
  <2>. DEFINE g == [n \in 0..x |-> IF n = x THEN f[x - 1] + s[x].len ELSE f[n]]
  <2>5. ASSUME NEW n \in 0..x PROVE g[n] = IF n = 0 THEN 0 ELSE g[n - 1] + s[n].len
    <3>1. CASE n = x
      BY <2>2, <2>3, <3>1
    <3>2. CASE n # x /\ n # 0
      <4>1. n \in 0..(x - 1) /\ n - 1 \in 0..(x - 1) /\ n - 1 # x /\ n - 1 \in 0..x
        BY <2>3, <3>2
      <4>2. f[n] = f[n - 1] + s[n].len
        BY <2>4, <3>2, <4>1 DEF Adds
      <4>. QED
        BY <3>2, <4>1, <4>2
    <3>3. CASE n = 0
      <4>1. f[0] = 0
        BY <2>3, <2>4 DEF Adds
      <4>. QED
        BY <2>2, <3>3, <4>1
    <3>. QED
      BY <3>1, <3>2, <3>3
  <2>6. Adds(s, x, g)
    <3>1. g = [n \in 0..x |-> g[n]]
      OBVIOUS
    <3>. HIDE DEF g
    <3>. QED
      BY <2>5, <3>1 DEF Adds
  <2>. QED
    BY <2>1, <2>6
<1>. QED
  BY <1>1

\* ... and of two, of sequences that agree, one continues the other.
LEMMA AddsAgree ==
    ASSUME NEW s, NEW k \in Nat, NEW f, Adds(s, k, f),
           NEW s2, NEW k2 \in Nat, NEW f2, Adds(s2, k2, f2),
           k <= k2, \A n \in 1..k : s2[n] = s[n]
    PROVE  \A n \in 0..k : f2[n] = f[n]
<1>. DEFINE T == {n \in 0..k : f2[n] # f[n]}
<1>1. ASSUME T # {} PROVE FALSE
  <2>0. T \in SUBSET Nat
    OBVIOUS
  <2>1. PICK x \in T : \A y \in T : x <= y
    BY <1>1, <2>0, Least
  <2>2. x \in 0..k /\ f2[x] # f[x] /\ x \in 0..k2
    BY <2>1
  <2>3. x # 0
    BY <2>2 DEF Adds
  <2>4. x - 1 \in 0..k /\ x - 1 \notin T /\ x \in 1..k
    BY <2>1, <2>2, <2>3
  <2>5. f2[x - 1] = f[x - 1]
    BY <2>4
  <2>6. f[x] = f[x - 1] + s[x].len /\ f2[x] = f2[x - 1] + s2[x].len
    BY <2>2, <2>3 DEF Adds
  <2>. QED
    BY <2>2, <2>4, <2>5, <2>6
<1>. QED
  BY <1>1

\* The function of BytesIn.
Sum(s) == CHOOSE f : Adds(s, Len(s), f)

\* The bytes of a sequence are one sum.
LEMMA SumAdds ==
    ASSUME NEW s \in Seq(Chunk)
    PROVE  Adds(s, Len(s), Sum(s)) /\ BytesIn(s) = Sum(s)[Len(s)]
<1>1. \E f : Adds(s, Len(s), f)
  <2>1. Len(s) \in Nat
    OBVIOUS
  <2>. QED
    BY <2>1, AddsExists, Zenon
<1>. QED
  BY <1>1 DEF Sum, Adds, BytesIn

\* One more chunk is that many more bytes.
LEMMA BytesInAppend ==
    /\ BytesIn(<<>>) = 0
    /\ \A s \in Seq(Chunk), c \in Chunk : BytesIn(Append(s, c)) = BytesIn(s) + c.len
<1>1. BytesIn(<<>>) = 0
  <2>1. <<>> \in Seq(Chunk) /\ Len(<<>>) = 0
    OBVIOUS
  <2>2. Adds(<<>>, 0, Sum(<<>>)) /\ BytesIn(<<>>) = Sum(<<>>)[0]
    BY <2>1, SumAdds
  <2>. QED
    BY <2>2 DEF Adds
<1>2. ASSUME NEW s \in Seq(Chunk), NEW c \in Chunk PROVE BytesIn(Append(s, c)) = BytesIn(s) + c.len
  <2>. DEFINE q == Append(s, c)
              k == Len(s)
  <2>1. /\ q \in Seq(Chunk) /\ Len(q) = k + 1 /\ k \in Nat
        /\ q[k + 1] = c /\ \A n \in 1..k : q[n] = s[n]
    OBVIOUS
  <2>. HIDE DEF q
  <2>2. Adds(s, k, Sum(s)) /\ BytesIn(s) = Sum(s)[k]
    BY SumAdds
  <2>3. Adds(q, k + 1, Sum(q)) /\ BytesIn(q) = Sum(q)[k + 1]
    BY <2>1, SumAdds
  <2>. HIDE DEF k
  <2>4. Sum(q)[k] = Sum(s)[k]
    BY <2>1, <2>2, <2>3, AddsAgree
  <2>5. Sum(q)[k + 1] = Sum(q)[k] + c.len
    BY <2>1, <2>3 DEF Adds
  <2>. QED
    BY <2>2, <2>3, <2>4, <2>5 DEF q
<1>. QED
  BY <1>1, <1>2

\* What makes the accounting inductive: an offer that waits for its accept has a
\* count of 0, for the rtc thread is between the write and the count of a chunk only
\* while the destination is open, or after a cleanup that has also forgotten the
\* offer, and takes no new one before it has counted; and an accept has wiped
\* nothing before it zeroes the count.
CountOK ==
    \A p \in Peers :
        /\ incomingFileName[p] # None /\ ~recvHandle[p] =>
             rtcWritten[p] = 0 /\ recvBytesReceived[p] = 0
        /\ accepting[p] => wiped[p] = 0

\* The steps that touch neither the destination nor its count.
LEMMA AccountingKept ==
    ASSUME ReceiveAccounting, CountOK,
           UNCHANGED <<recvHandle, recvBytesReceived, incomingFileName, rtcWritten, disk,
                       accepting, wiped>>
    PROVE  ReceiveAccounting' /\ CountOK'
  BY DEF ReceiveAccounting, CountOK

\* Every step keeps the count exact, up to what the accept wiped.
LEMMA AccountingStep ==
    TInv /\ ReceiveAccounting /\ CountOK /\ [Next]_vars => ReceiveAccounting' /\ CountOK'
<1>. SUFFICES ASSUME TInv, ReceiveAccounting, CountOK, [Next]_vars
              PROVE  ReceiveAccounting' /\ CountOK'
  OBVIOUS
<1>t. RecvOK /\ disk \in [Peers -> Seq(Chunk)] /\ wiped \in [Peers -> Nat]
  BY DEF TInv, WireOK, PastOK
<1>1. ASSUME NEW p \in Peers, User(p) PROVE ReceiveAccounting' /\ CountOK'
  <2>1. CASE OpenDestination(p)
    <3>1. rtcWritten[p] = 0 /\ recvBytesReceived[p] = 0
      BY <2>1 DEF OpenDestination, Acceptable, CountOK
    <3>2. /\ recvHandle' = [recvHandle EXCEPT ![p] = TRUE]
          /\ accepting' = [accepting EXCEPT ![p] = TRUE]
          /\ disk' = [disk EXCEPT ![p] = <<>>]
          /\ wiped' = [wiped EXCEPT ![p] = 0]
          /\ UNCHANGED <<recvBytesReceived, incomingFileName, rtcWritten>>
      BY <2>1 DEF OpenDestination
    <3>3. CountOK'
      BY <1>t, <3>2 DEF CountOK, RecvOK
    <3>4. ASSUME NEW q \in Peers, recvHandle'[q]
          PROVE  recvBytesReceived'[q] + rtcWritten'[q] + wiped'[q] = BytesIn(disk'[q])
      <4>1. CASE q = p
        BY <1>t, <3>1, <3>2, <4>1, BytesInAppend DEF RecvOK
      <4>2. CASE q # p
        BY <1>t, <3>2, <3>4, <4>2 DEF RecvOK, ReceiveAccounting
      <4>. QED
        BY <4>1, <4>2
    <3>. QED
      BY <3>3, <3>4 DEF ReceiveAccounting
  <2>2. CASE UNCHANGED <<recvHandle, recvBytesReceived, incomingFileName, rtcWritten, disk,
                         accepting, wiped>>
    BY <2>2, AccountingKept
  <2>. QED
    BY <1>1, <2>1, <2>2 DEF User, SendFile, CancelFileTransfer, OnAccept, AcceptIgnored, OnReject,
                            PanelDismissed, RejectIncomingFile, recvState, history
<1>2. ASSUME NEW p \in Peers, Main(p) PROVE ReceiveAccounting' /\ CountOK'
  <2>0. CASE AcceptIncomingFile(p)
    <3>1. PICK n \in Zeroed(recvBytesReceived[p], rtcWritten[p] > 0) :
            /\ recvBytesReceived' = [recvBytesReceived EXCEPT ![p] = n]
            /\ wiped' = [wiped EXCEPT ![p] = recvBytesReceived[p] - n]
      BY <2>0 DEF AcceptIncomingFile
    <3>2. n \in Nat /\ recvBytesReceived[p] \in Nat
      BY <1>t, ZeroedType DEF RecvOK
    <3>3. /\ accepting[p] /\ recvHandle[p] /\ wiped[p] = 0
          /\ accepting' = [accepting EXCEPT ![p] = FALSE]
          /\ UNCHANGED <<recvHandle, incomingFileName, rtcWritten, disk>>
      BY <1>t, <2>0 DEF AcceptIncomingFile, RecvOK, CountOK
    <3>4. CountOK'
      BY <1>t, <3>1, <3>3 DEF CountOK, RecvOK
    <3>5. ASSUME NEW q \in Peers, recvHandle'[q]
          PROVE  recvBytesReceived'[q] + rtcWritten'[q] + wiped'[q] = BytesIn(disk'[q])
      <4>1. CASE q = p
        <5>1. recvBytesReceived[p] + rtcWritten[p] + wiped[p] = BytesIn(disk[p])
          BY <3>3 DEF ReceiveAccounting
        <5>2. recvBytesReceived'[p] = n /\ wiped'[p] = recvBytesReceived[p] - n
              /\ rtcWritten[p] \in Nat
          BY <1>t, <3>1 DEF RecvOK
        <5>. QED
          BY <3>2, <3>3, <4>1, <5>1, <5>2
      <4>2. CASE q # p
        BY <1>t, <3>1, <3>3, <3>5, <4>2 DEF RecvOK, ReceiveAccounting
      <4>. QED
        BY <4>1, <4>2
    <3>. QED
      BY <3>4, <3>5 DEF ReceiveAccounting
  <2>1. CASE CleanupTransfer(p)
    <3>1. PICK k : recvBytesReceived' = [recvBytesReceived EXCEPT ![p] = k]
      BY <2>1 DEF CleanupTransfer
    <3>2. ReceiveAccounting'
      BY <1>t, <2>1, <3>1 DEF CleanupTransfer, ReceiveAccounting, RecvOK, history
    <3>3. CountOK'
      BY <1>t, <2>1, <3>1 DEF CleanupTransfer, CountOK, RecvOK, history
    <3>. QED
      BY <3>2, <3>3
  <2>2. CASE FileReceiveOffered(p) \/ FileReceiveProgress(p) \/ IceDisconnected(p)
    BY <2>2, AccountingKept DEF FileReceiveOffered, FileReceiveProgress, IceDisconnected, recvState,
                                history
  <2>. QED
    BY <1>2, <2>0, <2>1, <2>2 DEF Main, MainBlock
<1>3. ASSUME NEW p \in Peers, Rtc(p) PROVE ReceiveAccounting' /\ CountOK'
  <2>1. CASE OnOffer(p)
    <3>1. ReceiveAccounting'
      BY <1>t, <2>1 DEF OnOffer, Busy, ReceiveAccounting, RecvOK, history
    <3>2. CountOK'
      BY <1>t, <2>1 DEF OnOffer, Incoming, CountOK, RecvOK, history
    <3>. QED
      BY <3>1, <3>2
  <2>2. CASE WriteChunk(p)
    <3>1. Head(chan[p]) \in Chunk
      <4>1. \A m \in Message : m.t = "chunk" => m \in Chunk
        BY DEF Message, Chunk, Control, Offer
      <4>2. WireOK /\ chan[p] # <<>> /\ Head(chan[p]).t = "chunk"
        BY <2>2 DEF WriteChunk, Incoming, TInv
      <4>3. Head(chan[p]) \in Message
        BY <4>2, TakenType
      <4>. QED
        BY <4>1, <4>2, <4>3
    <3>2. PICK c \in Chunk : c = Head(chan[p])
      BY <3>1
    <3>3. /\ recvHandle[p] /\ rtcWritten[p] = 0 /\ c.len \in Nat
          /\ disk' = [disk EXCEPT ![p] = Append(disk[p], c)]
          /\ rtcWritten' = [rtcWritten EXCEPT ![p] = c.len]
          /\ UNCHANGED <<recvHandle, recvBytesReceived, incomingFileName, accepting, wiped>>
      BY <2>2, <3>2 DEF WriteChunk, Incoming, recvState, Chunk
    <3>4. CountOK'
      BY <1>t, <3>3 DEF CountOK, RecvOK
    <3>5. ASSUME NEW q \in Peers, recvHandle'[q]
          PROVE  recvBytesReceived'[q] + rtcWritten'[q] + wiped'[q] = BytesIn(disk'[q])
      <4>1. CASE q = p
        <5>1. BytesIn(disk'[p]) = BytesIn(disk[p]) + c.len
          BY <1>t, <3>3, BytesInAppend
        <5>2. /\ recvBytesReceived[p] + 0 + wiped[p] = BytesIn(disk[p])
              /\ recvBytesReceived[p] \in Nat /\ wiped[p] \in Nat
          BY <1>t, <3>3 DEF ReceiveAccounting, RecvOK
        <5>3. recvBytesReceived'[p] = recvBytesReceived[p] /\ rtcWritten'[p] = c.len
          BY <1>t, <3>3 DEF RecvOK
        <5>. QED
          BY <3>3, <4>1, <5>1, <5>2, <5>3
      <4>2. CASE q # p
        BY <1>t, <3>3, <3>5, <4>2 DEF RecvOK, ReceiveAccounting
      <4>. QED
        BY <4>1, <4>2
    <3>. QED
      BY <3>4, <3>5 DEF ReceiveAccounting
  <2>3. CASE CountChunk(p)
    <3>1. /\ rtcWritten' = [rtcWritten EXCEPT ![p] = 0]
          /\ recvBytesReceived' = [recvBytesReceived EXCEPT ![p] = recvBytesReceived[p] + rtcWritten[p]]
          /\ UNCHANGED <<recvHandle, incomingFileName, disk, accepting, wiped>>
          /\ rtcWritten[p] # 0
      BY <2>3, <1>t DEF CountChunk, RecvOK, history
    <3>2. CountOK'
      BY <1>t, <3>1 DEF CountOK, RecvOK
    <3>3. ReceiveAccounting'
      BY <1>t, <3>1 DEF ReceiveAccounting, RecvOK
    <3>. QED
      BY <3>2, <3>3
  <2>4. CASE OnOfferBusy(p) \/ OnAcceptMsg(p) \/ OnEnd(p) \/ DropChunk(p)
    BY <2>4, AccountingKept DEF OnOfferBusy, OnAcceptMsg, OnEnd, DropChunk, recvState, history
  <2>. QED
    BY <1>3, <2>1, <2>2, <2>3, <2>4 DEF Rtc
<1>4. ASSUME NEW p \in Peers, Loop(p) \/ Failure(p) PROVE ReceiveAccounting' /\ CountOK'
  BY <1>4, AccountingKept DEF Loop, LoopStart, LoopClosed, LoopRead, LoopPush, LoopPushFails,
     LoopCount, LoopEnd, Failure, AcceptFails, WriteFails, LoopReadFails, IceDown, recvState, history
<1>5. CASE ChannelCloses \/ UNCHANGED vars
  BY <1>5, AccountingKept DEF ChannelCloses, vars, recvState, history
<1>. QED
  BY <1>1, <1>2, <1>3, <1>4, <1>5 DEF Next

\* While the destination is open recvBytesReceived is what has been written to it,
\* but for what the accept zeroed after the destination was open, for files of any
\* size: no cleanup, offer or accept of the main thread between the write and the
\* count of a chunk makes it wrong in any other way.
THEOREM CountIsExact == Spec => []ReceiveAccounting
<1>1. Init => ReceiveAccounting /\ CountOK
  BY DEF Init, ReceiveAccounting, CountOK
<1>. QED
  BY <1>1, TypesAlways, AccountingStep, PTL DEF Spec
-----------------------------------------------------------------------------
(* The first transfer.  Until a second file is offered there is one offer, *)
(* on its way or with its receiver; before it is accepted no loop runs and *)
(* no chunk is under way, and once it is accepted there is none to accept. *)

Kinds(s) == {s[i].t : i \in 1..Len(s)}

OneOffer(s) == \A i, j \in 1..Len(s) : s[i].t = "ft_offer" /\ s[j].t = "ft_offer" => i = j

OfferFor(p) == incomingFileName[p] # None \/ "ft_offer" \in Kinds(chan[p])

NoneYet == offers = 0 => accepted = {} /\ \A p \in Peers : ~OfferFor(p)

OneAlive ==
    /\ \A p \in Peers : OneOffer(chan[p])
    /\ \A p \in Peers : incomingFileName[p] # None => "ft_offer" \notin Kinds(chan[p])
    /\ \A p, q \in Peers : OfferFor(p) /\ OfferFor(q) => p = q

\* Nothing is sent to p or by p, and p has counted nothing.
Still(p) ==
    /\ fileQ[p] = 0 /\ loop[p].pc = "idle"
    /\ "chunk" \notin Kinds(chan[p]) /\ "ft_accept" \notin Kinds(chan[p])
    /\ rtcWritten[p] = 0 /\ recvBytesReceived[p] = 0

\* Nothing is left for p to accept.
Spent(p) ==
    /\ ~accepting[p] /\ "ft_offer" \notin Kinds(chan[p])
    /\ incomingFileName[p] # None => recvHandle[p]

First ==
    /\ NoneYet /\ OneAlive
    /\ accepted = {} => \A p \in Peers : Still(p)
    /\ accepted # {} => \A p \in Peers : Spent(p)
    /\ \A p \in Peers : wiped[p] = 0

FirstInv == offers <= 1 => First

\* A message at the end.
LEMMA KindsPushed ==
    ASSUME NEW s \in Seq(Message), NEW m \in Message
    PROVE  /\ Kinds(s \o <<m>>) = Kinds(s) \cup {m.t}
           /\ OneOffer(s) /\ (m.t = "ft_offer" => "ft_offer" \notin Kinds(s)) => OneOffer(s \o <<m>>)
<1>. DEFINE q == s \o <<m>>
<1>1. /\ Len(s) \in Nat /\ Len(q) = Len(s) + 1 /\ q[Len(s) + 1] = m
      /\ \A i \in 1..Len(s) : q[i] = s[i]
      /\ 1..Len(q) = (1..Len(s)) \cup {Len(s) + 1}
  OBVIOUS
<1>. HIDE DEF q
<1>2. Kinds(q) = Kinds(s) \cup {m.t}
  BY <1>1 DEF Kinds
<1>3. ASSUME OneOffer(s), m.t = "ft_offer" => "ft_offer" \notin Kinds(s) PROVE OneOffer(q)
  <2>. SUFFICES ASSUME NEW i \in 1..Len(q), NEW j \in 1..Len(q), q[i].t = "ft_offer",
                       q[j].t = "ft_offer"
                PROVE  i = j
    BY DEF OneOffer
  <2>1. CASE i \in 1..Len(s) /\ j \in 1..Len(s)
    BY <1>1, <1>3, <2>1 DEF OneOffer
  <2>2. CASE i = Len(s) + 1 \/ j = Len(s) + 1
    BY <1>1, <1>3, <2>2 DEF Kinds
  <2>. QED
    BY <1>1, <2>1, <2>2
<1>. QED
  BY <1>2, <1>3 DEF q

\* The message at the front.
LEMMA KindsTaken ==
    ASSUME NEW s \in Seq(Message), s # <<>>
    PROVE  /\ Kinds(Tail(s)) \subseteq Kinds(s) /\ Head(s).t \in Kinds(s)
           /\ OneOffer(s) => OneOffer(Tail(s))
           /\ OneOffer(s) /\ Head(s).t = "ft_offer" => "ft_offer" \notin Kinds(Tail(s))
<1>. DEFINE q == Tail(s)
<1>1. /\ Len(s) \in Nat /\ Len(q) = Len(s) - 1 /\ Head(s) = s[1] /\ 1 \in 1..Len(s)
      /\ \A i \in 1..Len(q) : q[i] = s[i + 1] /\ i + 1 \in 1..Len(s)
  OBVIOUS
<1>. HIDE DEF q
<1>2. Kinds(q) \subseteq Kinds(s) /\ Head(s).t \in Kinds(s)
  BY <1>1 DEF Kinds
<1>3. ASSUME OneOffer(s) PROVE OneOffer(q)
  <2>. SUFFICES ASSUME NEW i \in 1..Len(q), NEW j \in 1..Len(q), q[i].t = "ft_offer",
                       q[j].t = "ft_offer"
                PROVE  i = j
    BY DEF OneOffer
  <2>1. i + 1 = j + 1
    BY <1>1, <1>3 DEF OneOffer
  <2>. QED
    BY <2>1
<1>4. ASSUME OneOffer(s), Head(s).t = "ft_offer", "ft_offer" \in Kinds(q) PROVE FALSE
  <2>1. PICK i \in 1..Len(q) : q[i].t = "ft_offer"
    BY <1>4 DEF Kinds
  <2>2. i + 1 = 1
    BY <1>1, <1>4, <2>1 DEF OneOffer
  <2>. QED
    BY <2>2
<1>. QED
  BY <1>2, <1>3, <1>4 DEF q

\* Nothing at all.
LEMMA KindsNone == Kinds(<<>>) = {} /\ OneOffer(<<>>)
<1>1. 1..Len(<<>>) = {}
  OBVIOUS
<1>. QED
  BY <1>1 DEF Kinds, OneOffer

\* s2 is s with some messages gone and some answers added.
Answered(s2, s) ==
    /\ OneOffer(s) => OneOffer(s2)
    /\ Kinds(s2) \subseteq Kinds(s) \cup {"ft_reject", "ft_cancel", "ft_done"}

\* Sending an answer.
LEMMA AnswerSent ==
    ASSUME NEW ch \in [Peers -> Seq(Message)], NEW p \in Peers, NEW q \in Peers,
           NEW t \in {"ft_reject", "ft_cancel", "ft_done"}
    PROVE  Answered(SendTo(ch, p, <<[t |-> t]>>)[q], ch[q])
<1>0. [t |-> t] \in Message
  BY DEF Message, Control
<1>1. PICK m \in Message : m = [t |-> t] /\ m.t = t
  BY <1>0
<1>2. SendTo(ch, p, <<m>>)[q] \in {ch[q], ch[q] \o <<m>>} /\ ch[q] \in Seq(Message)
  BY OtherPeer DEF SendTo
<1>3. Answered(ch[q] \o <<m>>, ch[q])
  BY <1>1, <1>2, KindsPushed DEF Answered
<1>. QED
  BY <1>1, <1>2, <1>3 DEF Answered

\* A step that offers and accepts nothing, and before the accept starts nothing.
LEMMA FirstKept ==
    ASSUME First, UNCHANGED <<offers, accepted, wiped>>,
           \A q \in Peers :
             /\ OneOffer(chan[q]) => OneOffer(chan'[q])
             /\ "ft_offer" \in Kinds(chan'[q]) => "ft_offer" \in Kinds(chan[q])
             /\ incomingFileName'[q] \in {None, incomingFileName[q]}
             /\ accepted # {} /\ accepting'[q] => accepting[q]
             /\ recvHandle[q] /\ incomingFileName'[q] # None => recvHandle'[q]
             /\ accepted = {} => Still(q)'
    PROVE  First'
<1>1. \A q \in Peers : OfferFor(q)' => OfferFor(q)
  BY DEF OfferFor
<1>2. NoneYet' /\ OneAlive'
  BY <1>1 DEF First, NoneYet, OneAlive
<1>3. accepted # {} => \A q \in Peers : Spent(q)'
  BY DEF First, Spent
<1>. QED
  BY <1>2, <1>3 DEF First

\* The offer of the first file.
LEMMA FirstOffer ==
    ASSUME TInv, First, NEW p \in Peers, NEW n \in Sizes, SendFile(p, n), offers = 0
    PROVE  First'
<1>f. [id |-> offers + 1, size |-> n] \in Files
  BY DEF TInv, BoundsOK, Files
<1>1. PICK f \in Files : f = [id |-> offers + 1, size |-> n]
  BY <1>f
<1>m. [t |-> "ft_offer", file |-> f] \in Message
  BY DEF Message, Offer
<1>2. PICK m \in Message : m = [t |-> "ft_offer", file |-> f] /\ m.t = "ft_offer"
  BY <1>m
<1>3. /\ chan' = [chan EXCEPT ![Other(p)] = chan[Other(p)] \o <<m>>]
      /\ offers' = 1
      /\ UNCHANGED <<incomingFileName, fileQ, loop, rtcWritten, recvBytesReceived, accepted, wiped>>
  BY <1>1, <1>2 DEF SendFile, SendTo, recvState, fileState
<1>4. /\ accepted = {} /\ (\A q \in Peers : ~OfferFor(q) /\ Still(q) /\ OneOffer(chan[q]))
      /\ chan \in [Peers -> Seq(Message)]
  BY DEF First, NoneYet, OneAlive, TInv, WireOK
<1>5. PICK o \in Peers : o = Other(p)
  BY OtherPeer
<1>6. /\ OneOffer(chan'[o]) /\ Kinds(chan'[o]) = Kinds(chan[o]) \cup {"ft_offer"}
      /\ \A q \in Peers : q # o => chan'[q] = chan[q]
  <2>1. chan[o] \in Seq(Message) /\ chan'[o] = chan[o] \o <<m>>
    BY <1>3, <1>4, <1>5
  <2>2. "ft_offer" \notin Kinds(chan[o]) /\ OneOffer(chan[o])
    BY <1>4 DEF OfferFor
  <2>. QED
    BY <1>2, <1>3, <1>4, <1>5, <2>1, <2>2, KindsPushed
<1>7. \A q \in Peers : Still(q)'
  BY <1>3, <1>4, <1>6 DEF Still
<1>8. OneAlive'
  BY <1>3, <1>4, <1>6 DEF OneAlive, OfferFor
<1>. QED
  BY <1>3, <1>4, <1>7, <1>8 DEF First, NoneYet

\* The offer reaches its receiver.
LEMMA FirstOffered ==
    ASSUME TInv, First, NEW p \in Peers, OnOffer(p)
    PROVE  First'
<1>1. /\ chan[p] # <<>> /\ Head(chan[p]).t = "ft_offer" /\ rtcWritten[p] = 0
      /\ chan' = [chan EXCEPT ![p] = Tail(chan[p])]
      /\ incomingFileName' = [incomingFileName EXCEPT ![p] = Head(chan[p]).file]
      /\ recvBytesReceived' = [recvBytesReceived EXCEPT ![p] = 0]
      /\ UNCHANGED <<offers, accepted, wiped, fileQ, loop, rtcWritten, accepting, recvHandle>>
  BY DEF OnOffer, Incoming, Taken, fileState, history, bounds
<1>2. /\ chan \in [Peers -> Seq(Message)] /\ chan[p] \in Seq(Message)
      /\ incomingFileName \in [Peers -> Files \cup {None}]
      /\ recvBytesReceived \in [Peers -> Nat]
  BY DEF TInv, WireOK, RecvOK
<1>3. /\ Kinds(Tail(chan[p])) \subseteq Kinds(chan[p]) /\ "ft_offer" \in Kinds(chan[p])
      /\ OneOffer(Tail(chan[p])) /\ "ft_offer" \notin Kinds(Tail(chan[p]))
  BY <1>1, <1>2, KindsTaken DEF First, OneAlive
<1>4. OfferFor(p) /\ accepted = {} /\ offers # 0
  BY <1>3 DEF First, NoneYet, OfferFor, Spent
<1>5. \A q \in Peers : q # p => chan'[q] = chan[q] /\ incomingFileName'[q] = incomingFileName[q]
  BY <1>1, <1>2
<1>6. chan'[p] = Tail(chan[p])
  BY <1>1, <1>2
<1>7. OneAlive'
  BY <1>3, <1>4, <1>5, <1>6 DEF First, OneAlive, OfferFor
<1>8. \A q \in Peers : Still(q)'
  BY <1>1, <1>2, <1>3, <1>4, <1>5, <1>6 DEF First, Still
<1>. QED
  BY <1>1, <1>4, <1>7, <1>8 DEF First, NoneYet

\* The first accept finds nothing to wipe, and leaves nothing to accept.
LEMMA FirstAccept ==
    ASSUME TInv, First, NEW p \in Peers, AcceptIncomingFile(p)
    PROVE  First'
<1>1. PICK n \in Zeroed(recvBytesReceived[p], rtcWritten[p] > 0) :
        /\ recvBytesReceived' = [recvBytesReceived EXCEPT ![p] = n]
        /\ wiped' = [wiped EXCEPT ![p] = recvBytesReceived[p] - n]
  BY DEF AcceptIncomingFile
<1>2. /\ accepting[p] /\ accepting' = [accepting EXCEPT ![p] = FALSE]
      /\ chan' = SendTo(chan, p, <<[t |-> "ft_accept"]>>)
      /\ accepted' # {}
      /\ UNCHANGED <<offers, recvHandle, incomingFileName>>
  BY DEF AcceptIncomingFile, bounds
<1>3. /\ RecvOK /\ chan \in [Peers -> Seq(Message)]
      /\ recvHandle[p] /\ incomingFileName[p] # None
      /\ wiped \in [Peers -> Nat]
  BY <1>2 DEF TInv, WireOK, RecvOK, PastOK
<1>4. accepted = {} /\ recvBytesReceived[p] = 0 /\ offers # 0
  BY <1>2, <1>3 DEF First, Spent, Still, NoneYet, OfferFor
<1>5. \A q \in Peers : wiped'[q] = 0
  BY <1>1, <1>3, <1>4 DEF Zeroed, First
<1>6. ASSUME NEW q \in Peers
      PROVE  /\ "ft_offer" \in Kinds(chan'[q]) => "ft_offer" \in Kinds(chan[q])
             /\ OneOffer(chan'[q])
  <2>0. [t |-> "ft_accept"] \in Message
    BY DEF Message, Control
  <2>1. PICK m \in Message : m = [t |-> "ft_accept"] /\ m.t = "ft_accept"
    BY <2>0
  <2>2. chan[q] \in Seq(Message) /\ OneOffer(chan[q])
    BY <1>3 DEF First, OneAlive
  <2>3. chan' = SendTo(chan, p, <<m>>)
    BY <1>2, <2>1
  <2>4. chan'[q] \in {chan[q], chan[q] \o <<m>>}
    BY <1>3, <2>3, OtherPeer DEF SendTo
  <2>. QED
    BY <2>1, <2>2, <2>4, KindsPushed
<1>7. \A q \in Peers : OfferFor(q) => q = p
  BY <1>3 DEF First, OneAlive, OfferFor
<1>8. \A q \in Peers : OfferFor(q)' => OfferFor(q)
  BY <1>2, <1>6 DEF OfferFor
<1>9. OneAlive'
  BY <1>2, <1>6, <1>8 DEF First, OneAlive
<1>10. ASSUME NEW q \in Peers PROVE Spent(q)'
  <2>1. "ft_offer" \notin Kinds(chan[q])
    BY <1>3, <1>7 DEF OfferFor, First, OneAlive
  <2>2. q # p => incomingFileName[q] = None /\ ~accepting[q]
    BY <1>3, <1>7 DEF OfferFor, RecvOK
  <2>3. ~accepting'[q]
    BY <1>2, <1>3, <2>2 DEF RecvOK
  <2>. QED
    BY <1>2, <1>3, <1>6, <2>1, <2>2, <2>3 DEF Spent
<1>. QED
  BY <1>2, <1>4, <1>5, <1>9, <1>10 DEF First, NoneYet

\* Every step of a first transfer.
LEMMA FirstStep == TInv /\ TInv' /\ FirstInv /\ [Next]_vars => FirstInv'
<1>. SUFFICES ASSUME TInv, TInv', FirstInv, [Next]_vars, offers' <= 1 PROVE First'
  BY DEF FirstInv
<1>t. /\ RecvOK /\ WireOK /\ LoopOK /\ QueueOK /\ chan \in [Peers -> Seq(Message)]
      /\ offers \in Nat /\ offers' \in Nat
  BY DEF TInv, WireOK, BoundsOK
<1>1. CASE \E p \in Peers, n \in Sizes : SendFile(p, n)
  <2>1. PICK p \in Peers, n \in Sizes : SendFile(p, n)
    BY <1>1
  <2>2. offers = 0
    BY <1>t, <2>1 DEF SendFile
  <2>. QED
    BY <2>1, <2>2, FirstOffer DEF FirstInv
<1>. SUFFICES ASSUME ~\E p \in Peers, n \in Sizes : SendFile(p, n) PROVE First'
  BY <1>1
<1>2. First /\ offers' = offers
  <2>1. ASSUME NEW p \in Peers, User(p) PROVE offers' = offers
    BY <2>1 DEF User, CancelFileTransfer, OnAccept, OpenDestination, AcceptIgnored, OnReject,
       PanelDismissed, RejectIncomingFile, Abort, bounds
  <2>2. ASSUME NEW p \in Peers, Main(p) PROVE offers' = offers
    BY <2>2 DEF Main, MainBlock, AcceptIncomingFile, CleanupTransfer, FileReceiveOffered,
       FileReceiveProgress, IceDisconnected, bounds
  <2>3. ASSUME NEW p \in Peers, Rtc(p) PROVE offers' = offers
    BY <2>3 DEF Rtc, OnOffer, OnOfferBusy, OnAcceptMsg, OnEnd, DropChunk, WriteChunk, CountChunk,
       bounds
  <2>4. ASSUME NEW p \in Peers, Loop(p) \/ Failure(p) PROVE offers' = offers
    BY <2>4 DEF Loop, Failure, LoopStart, LoopClosed, LoopRead, LoopPush, LoopPushFails, LoopCount,
       LoopEnd, AcceptFails, WriteFails, LoopReadFails, IceDown, Fault, bounds
  <2>5. offers' = offers
    BY <2>1, <2>2, <2>3, <2>4 DEF Next, ChannelCloses, Fault, vars, bounds
  <2>. QED
    BY <2>5 DEF FirstInv
<1>f. \A q \in Peers : Answered(chan[q], chan[q])
  BY DEF Answered
<1>s. ASSUME NEW p \in Peers, NEW t \in {"ft_reject", "ft_cancel", "ft_done"}, NEW q \in Peers
      PROVE  Answered(SendTo(chan, p, <<[t |-> t]>>)[q], chan[q])
  BY <1>t, AnswerSent
<1>k. ASSUME NEW p \in Peers, NEW t, Incoming(p, t)
      PROVE  /\ Taken(p) \in [Peers -> Seq(Message)] /\ t \in Kinds(chan[p])
             /\ \A q \in Peers : Answered(Taken(p)[q], chan[q])
  <2>1. /\ chan[p] \in Seq(Message) /\ chan[p] # <<>> /\ Head(chan[p]).t = t
        /\ Taken(p) \in [Peers -> Seq(Message)]
    BY <1>t, <1>k, TakenType DEF Incoming
  <2>2. \A q \in Peers : Taken(p)[q] = IF q = p THEN Tail(chan[p]) ELSE chan[q]
    BY <1>t DEF Taken
  <2>. QED
    BY <2>1, <2>2, KindsTaken DEF Answered
\* The steps that change neither the offer nor, before the accept, anything else.
<1>. DEFINE Calm ==
       /\ \A q \in Peers : Answered(chan'[q], chan[q])
       /\ UNCHANGED <<accepted, wiped>>
       /\ \A q \in Peers :
            /\ incomingFileName'[q] \in {None, incomingFileName[q]}
            /\ accepted # {} /\ accepting'[q] => accepting[q]
            /\ recvHandle[q] /\ incomingFileName'[q] # None => recvHandle'[q]
       /\ accepted = {} => \A q \in Peers :
            /\ fileQ'[q] = fileQ[q] /\ loop'[q].pc = loop[q].pc
            /\ rtcWritten'[q] = rtcWritten[q] /\ recvBytesReceived'[q] = recvBytesReceived[q]
<1>calm. ASSUME Calm PROVE First'
  <2>1. ASSUME NEW q \in Peers, accepted = {} PROVE Still(q)'
    <3>1. Still(q) /\ Answered(chan'[q], chan[q])
      BY <1>2, <1>calm, <2>1 DEF First
    <3>. QED
      BY <1>calm, <2>1, <3>1 DEF Still, Answered
  <2>2. \A q \in Peers : /\ OneOffer(chan[q]) => OneOffer(chan'[q])
                         /\ "ft_offer" \in Kinds(chan'[q]) => "ft_offer" \in Kinds(chan[q])
    BY <1>calm DEF Answered
  <2>. QED
    BY <1>2, <1>calm, <2>1, <2>2, FirstKept
<1>w. ASSUME accepted = {}, NEW p \in Peers PROVE Still(p)
  BY <1>2, <1>w DEF First
<1>3. ASSUME NEW p \in Peers, User(p) PROVE First'
  <2>1. CASE OpenDestination(p)
    <3>1. accepted = {}
      BY <1>2, <2>1 DEF OpenDestination, Acceptable, First, Spent
    <3>2. /\ \A q \in Peers : wiped'[q] = 0
          /\ \A q \in Peers : recvHandle[q] => recvHandle'[q]
          /\ UNCHANGED <<chan, accepted, incomingFileName, fileQ, loop, rtcWritten, recvBytesReceived>>
      BY <1>2, <1>t, <2>1 DEF OpenDestination, fileState, RecvOK, First, TInv, PastOK
    <3>3. NoneYet' /\ OneAlive' /\ \A q \in Peers : Still(q)'
      BY <1>2, <1>w, <3>1, <3>2 DEF First, NoneYet, OneAlive, OfferFor, Still
    <3>. QED
      BY <3>1, <3>2, <3>3 DEF First
  <2>2. CASE CancelFileTransfer(p) \/ OnReject(p) \/ PanelDismissed(p)
    <3>1. \A q \in Peers : Answered(chan'[q], chan[q])
      BY <2>2, <1>s DEF CancelFileTransfer, OnReject, PanelDismissed, RejectIncomingFile
    <3>. QED
      BY <2>2, <3>1, <1>calm DEF CancelFileTransfer, OnReject, PanelDismissed, RejectIncomingFile,
         recvState, fileState, history
  <2>3. CASE OnAccept(p) \/ AcceptIgnored(p)
    BY <2>3, <1>f, <1>calm DEF OnAccept, AcceptIgnored, recvState, fileState, history
  <2>. QED
    BY <1>3, <2>1, <2>2, <2>3 DEF User
<1>4. ASSUME NEW p \in Peers, Main(p) PROVE First'
  <2>1. CASE CleanupTransfer(p)
    <3>1. PICK n \in Zeroed(recvBytesReceived[p], rtcWritten[p] > 0) :
            recvBytesReceived' = [recvBytesReceived EXCEPT ![p] = n]
      BY <2>1 DEF CleanupTransfer
    <3>2. accepted = {} => \A q \in Peers : recvBytesReceived'[q] = recvBytesReceived[q]
      BY <1>t, <1>w, <3>1 DEF Zeroed, Still, RecvOK
    <3>3. /\ incomingFileName' = [incomingFileName EXCEPT ![p] = None]
          /\ recvHandle' = [recvHandle EXCEPT ![p] = FALSE]
          /\ UNCHANGED <<chan, accepted, wiped, accepting, fileQ, loop, rtcWritten>>
      BY <2>1 DEF CleanupTransfer, fileState, history
    <3>4. \A q \in Peers : /\ incomingFileName'[q] \in {None, incomingFileName[q]}
                           /\ recvHandle[q] /\ incomingFileName'[q] # None => recvHandle'[q]
      BY <1>t, <3>3 DEF RecvOK
    <3>. QED
      BY <3>2, <3>3, <3>4, <1>f, <1>calm
  <2>2. CASE FileReceiveOffered(p) \/ FileReceiveProgress(p) \/ IceDisconnected(p)
    BY <2>2, <1>f, <1>calm DEF FileReceiveOffered, FileReceiveProgress, IceDisconnected, recvState,
       fileState, history
  <2>. QED
    BY <1>2, <1>4, <2>1, <2>2, FirstAccept DEF Main, MainBlock
<1>5. ASSUME NEW p \in Peers, Rtc(p) \/ WriteFails(p) PROVE First'
  <2>1. CASE OnOfferBusy(p)
    <3>1. /\ Taken(p) \in [Peers -> Seq(Message)]
          /\ \A q \in Peers : Answered(Taken(p)[q], chan[q])
      BY <2>1, <1>k DEF OnOfferBusy
    <3>2. \A q \in Peers : Answered(chan'[q], Taken(p)[q])
      BY <2>1, <3>1, AnswerSent DEF OnOfferBusy
    <3>3. \A q \in Peers : Answered(chan'[q], chan[q])
      BY <3>1, <3>2 DEF Answered
    <3>. QED
      BY <2>1, <3>3, <1>calm DEF OnOfferBusy, recvState, fileState, history
  <2>2. CASE OnEnd(p) \/ DropChunk(p) \/ WriteFails(p)
    <3>1. \A q \in Peers : Answered(chan'[q], chan[q])
      BY <2>2, <1>k DEF OnEnd, DropChunk, WriteFails
    <3>. QED
      BY <2>2, <3>1, <1>calm DEF OnEnd, DropChunk, WriteFails, recvState, fileState, history
  <2>3. CASE OnAcceptMsg(p) \/ WriteChunk(p)
    <3>1. /\ \A q \in Peers : Answered(chan'[q], chan[q])
          /\ "ft_accept" \in Kinds(chan[p]) \/ "chunk" \in Kinds(chan[p])
      BY <2>3, <1>k DEF OnAcceptMsg, WriteChunk
    <3>2. accepted # {}
      BY <1>w, <3>1 DEF Still
    <3>. QED
      BY <2>3, <3>1, <3>2, <1>calm DEF OnAcceptMsg, WriteChunk, recvState, history
  <2>4. CASE CountChunk(p)
    <3>1. accepted # {}
      BY <2>4, <1>w DEF CountChunk, Still
    <3>2. \A q \in Peers : Answered(chan'[q], chan[q])
      BY <2>4, <1>f, <1>s DEF CountChunk
    <3>. QED
      BY <2>4, <3>1, <3>2, <1>calm DEF CountChunk, history
  <2>. QED
    BY <1>2, <1>5, <2>1, <2>2, <2>3, <2>4, FirstOffered DEF Rtc
<1>6. ASSUME NEW p \in Peers, Loop(p) \/ LoopReadFails(p) PROVE First'
  <2>1. accepted # {}
    BY <1>6, <1>w DEF Loop, LoopStart, LoopClosed, LoopRead, LoopPush, LoopPushFails, LoopCount,
       LoopEnd, LoopReadFails, At, Still
  <2>2. /\ UNCHANGED <<accepted, wiped, incomingFileName, accepting, recvHandle>>
    BY <1>6 DEF Loop, LoopStart, LoopClosed, LoopRead, LoopPush, LoopPushFails, LoopCount,
       LoopEnd, LoopReadFails, recvState, history
  <2>3. CASE LoopPush(p)
    <3>1. PICK c \in Message : c = loop[p].chunk /\ c.t = "chunk"
      BY <2>3, <1>t DEF LoopPush, At, LoopOK, Message, Chunk
    <3>2. \A q \in Peers : chan'[q] \in {chan[q], chan[q] \o <<c>>} /\ chan[q] \in Seq(Message)
      BY <2>3, <1>t, <3>1, OtherPeer DEF LoopPush, SendTo
    <3>3. \A q \in Peers : /\ OneOffer(chan[q]) => OneOffer(chan'[q])
                           /\ "ft_offer" \in Kinds(chan'[q]) => "ft_offer" \in Kinds(chan[q])
      <4>1. ASSUME NEW q \in Peers
            PROVE  /\ OneOffer(chan[q]) => OneOffer(chan[q] \o <<c>>)
                   /\ "ft_offer" \in Kinds(chan[q] \o <<c>>) => "ft_offer" \in Kinds(chan[q])
        BY <3>1, <3>2, KindsPushed
      <4>. QED
        BY <3>2, <4>1
    <3>. QED
      BY <1>2, <2>1, <2>2, <3>3, FirstKept
  <2>4. CASE ~LoopPush(p)
    <3>1. chan' = chan \/ chan' = SendTo(chan, p, <<[t |-> "ft_done"]>>)
      BY <1>6, <2>4 DEF Loop, LoopStart, LoopClosed, LoopRead, LoopPushFails, LoopCount, LoopEnd,
         LoopReadFails
    <3>2. \A q \in Peers : Answered(chan'[q], chan[q])
      BY <1>f, <1>s, <3>1
    <3>. QED
      BY <2>1, <2>2, <3>2, <1>calm
  <2>. QED
    BY <2>3, <2>4
<1>7. ASSUME NEW p \in Peers, AcceptFails(p) \/ IceDown(p) PROVE First'
  <2>1. chan' = chan \/ chan' = SendTo(chan, p, <<[t |-> "ft_reject"]>>)
    BY <1>7 DEF AcceptFails, IceDown
  <2>2. \A q \in Peers : Answered(chan'[q], chan[q])
    BY <1>f, <1>s, <2>1
  <2>. QED
    BY <1>7, <2>2, <1>calm DEF AcceptFails, IceDown, recvState, fileState, history
<1>8. CASE ChannelCloses
  <2>1. \A q \in Peers : Answered(chan'[q], chan[q])
    BY <1>8, KindsNone DEF ChannelCloses, Answered
  <2>. QED
    BY <1>8, <2>1, <1>calm DEF ChannelCloses, recvState, fileState, history
<1>9. CASE UNCHANGED vars
  BY <1>9, <1>f, <1>calm DEF vars, recvState, fileState, history
<1>. QED
  BY <1>3, <1>4, <1>5, <1>6, <1>7, <1>8, <1>9 DEF Next, Failure

\* Until a second file is offered the accept wipes nothing, for a file of any size,
\* any number of save panels and whatever is rejected, cancelled or fails: with
\* CountIsExact, the count of a first transfer is what is on disk.
THEOREM FirstCountIsWhole == Spec => []FirstCountWhole
<1>1. Init => FirstInv
  <2>. SUFFICES ASSUME Init PROVE First
    BY DEF FirstInv
  <2>1. \A p \in Peers : chan[p] = <<>> /\ Kinds(chan[p]) = {} /\ OneOffer(chan[p])
    BY KindsNone DEF Init
  <2>2. NoneYet /\ OneAlive /\ \A p \in Peers : Still(p)
    BY <2>1 DEF Init, NoneYet, OneAlive, OfferFor, Still
  <2>. QED
    BY <2>2 DEF Init, First
<1>2. FirstInv => FirstCountWhole
  BY DEF FirstInv, First, FirstCountWhole
<1>. QED
  BY <1>1, <1>2, TypesAlways, FirstStep, PTL DEF Spec
-----------------------------------------------------------------------------
(* The order of what is written.  Everything one app sends is one stream:  *)
(* what the other has on disk, what is under way, the chunk the loop is    *)
(* about to send, and the position at which the file will be read next.    *)

Before(a, b) == a.file.id < b.file.id \/ (a.file = b.file /\ a.off + a.len <= b.off)

\* a was read before what the handle h will be read for next.
Behind(a, h) == a.file.id < h.file.id \/ (a.file = h.file /\ a.off + a.len <= h.pos)

Chunks(s) == {m \in OnDisk(s) : m.t = "chunk"}

Ordered(s) ==
    \A i, j \in 1..Len(s) : i < j /\ s[i].t = "chunk" /\ s[j].t = "chunk" => Before(s[i], s[j])

\* Every chunk that has left the other app for q.
Gone(q) == Chunks(disk[q]) \cup Chunks(chan[q])

OrderOK(q) ==
    /\ Ordered(disk[q]) /\ Ordered(chan[q])
    /\ \A a \in Chunks(disk[q]), b \in Chunks(chan[q]) : Before(a, b)
    /\ \A a \in Gone(q) : a.file.id <= offers
    /\ sendHandle[Other(q)] # None =>
         /\ sendHandle[Other(q)].file.id <= offers
         /\ \A a \in Gone(q) : Behind(a, sendHandle[Other(q)])
    /\ loop[Other(q)].pc = "push" =>
         /\ loop[Other(q)].chunk.file.id <= offers
         /\ \A a \in Gone(q) : Before(a, loop[Other(q)].chunk)
         /\ sendHandle[Other(q)] # None => Behind(loop[Other(q)].chunk, sendHandle[Other(q)])

OrderInv == \A q \in Peers : OrderOK(q)

\* s2 is s without some chunks.
Fewer(s2, s) == (Ordered(s) => Ordered(s2)) /\ Chunks(s2) \subseteq Chunks(s)

\* A message at the end.
LEMMA OnePushed ==
    ASSUME NEW s \in Seq(Message), NEW m \in Message
    PROVE  /\ s \o <<m>> = Append(s, m)
           /\ Chunks(Append(s, m)) = Chunks(s) \cup (IF m.t = "chunk" THEN {m} ELSE {})
           /\ Ordered(s) /\ (m.t = "chunk" => \A a \in Chunks(s) : Before(a, m)) => Ordered(Append(s, m))
<1>. DEFINE q == Append(s, m)
<1>1. /\ Len(s) \in Nat /\ Len(q) = Len(s) + 1 /\ q[Len(s) + 1] = m
      /\ \A i \in 1..Len(s) : q[i] = s[i]
  OBVIOUS
<1>2. s \o <<m>> = q
  OBVIOUS
<1>. HIDE DEF q
<1>3. OnDisk(q) = OnDisk(s) \cup {m}
  <2>1. 1..Len(q) = (1..Len(s)) \cup {Len(s) + 1}
    BY <1>1
  <2>. QED
    BY <1>1, <2>1 DEF OnDisk
<1>4. Chunks(q) = Chunks(s) \cup (IF m.t = "chunk" THEN {m} ELSE {})
  BY <1>3 DEF Chunks
<1>5. ASSUME Ordered(s), m.t = "chunk" => \A a \in Chunks(s) : Before(a, m) PROVE Ordered(q)
  <2>. SUFFICES ASSUME NEW i \in 1..Len(q), NEW j \in 1..Len(q), i < j, q[i].t = "chunk",
                       q[j].t = "chunk"
                PROVE  Before(q[i], q[j])
    BY DEF Ordered
  <2>1. i \in 1..Len(s) /\ q[i] = s[i] /\ (j \in 1..Len(s) \/ j = Len(s) + 1)
    BY <1>1
  <2>2. CASE j \in 1..Len(s)
    BY <1>1, <1>5, <2>1, <2>2 DEF Ordered
  <2>3. CASE j = Len(s) + 1
    <3>1. s[i] \in Chunks(s)
      BY <2>1 DEF Chunks, OnDisk
    <3>. QED
      BY <1>1, <1>5, <2>1, <2>3, <3>1
  <2>. QED
    BY <2>1, <2>2, <2>3
<1>. QED
  BY <1>2, <1>4, <1>5 DEF q

\* The message at the front.
LEMMA OneTaken ==
    ASSUME NEW s \in Seq(Message), s # <<>>
    PROVE  /\ Fewer(Tail(s), s)
           /\ Head(s).t = "chunk" => Head(s) \in Chunks(s)
           /\ Ordered(s) /\ Head(s).t = "chunk" => \A b \in Chunks(Tail(s)) : Before(Head(s), b)
<1>. DEFINE q == Tail(s)
<1>1. /\ Len(s) \in Nat /\ Len(q) = Len(s) - 1 /\ Head(s) = s[1] /\ 1 \in 1..Len(s)
      /\ \A i \in 1..Len(q) : q[i] = s[i + 1] /\ i + 1 \in 1..Len(s)
  OBVIOUS
<1>. HIDE DEF q
<1>2. Chunks(q) \subseteq Chunks(s)
  BY <1>1 DEF Chunks, OnDisk
<1>3. ASSUME Ordered(s) PROVE Ordered(q)
  <2>. SUFFICES ASSUME NEW i \in 1..Len(q), NEW j \in 1..Len(q), i < j, q[i].t = "chunk",
                       q[j].t = "chunk"
                PROVE  Before(q[i], q[j])
    BY DEF Ordered
  <2>1. i + 1 < j + 1 /\ i + 1 \in 1..Len(s) /\ j + 1 \in 1..Len(s)
        /\ q[i] = s[i + 1] /\ q[j] = s[j + 1]
    BY <1>1
  <2>. QED
    BY <1>3, <2>1 DEF Ordered
<1>4. Head(s).t = "chunk" => Head(s) \in Chunks(s)
  BY <1>1 DEF Chunks, OnDisk
<1>5. ASSUME Ordered(s), Head(s).t = "chunk", NEW b \in Chunks(q) PROVE Before(Head(s), b)
  <2>1. PICK i \in 1..Len(q) : b = q[i] /\ b.t = "chunk"
    BY DEF Chunks, OnDisk
  <2>2. b = s[i + 1] /\ i + 1 \in 1..Len(s) /\ 1 < i + 1
    BY <1>1, <2>1
  <2>. QED
    BY <1>1, <1>5, <2>1, <2>2 DEF Ordered
<1>. QED
  BY <1>2, <1>3, <1>4, <1>5 DEF q, Fewer

\* Nothing at all.
LEMMA NoneLeft == Ordered(<<>>) /\ Chunks(<<>>) = {}
  BY DEF Ordered, Chunks, OnDisk

\* Sending control messages, or nothing, adds no chunk to either stream.
LEMMA ControlSent ==
    ASSUME NEW ch \in [Peers -> Seq(Message)], NEW p \in Peers, NEW m \in Message, m.t # "chunk",
           NEW q \in Peers
    PROVE  Fewer(SendTo(ch, p, <<m>>)[q], ch[q])
<1>1. SendTo(ch, p, <<m>>)[q] \in {ch[q], ch[q] \o <<m>>}
  BY OtherPeer DEF SendTo
<1>2. ch[q] \in Seq(Message)
  OBVIOUS
<1>3. Fewer(Append(ch[q], m), ch[q]) /\ ch[q] \o <<m>> = Append(ch[q], m)
  BY <1>2, OnePushed DEF Fewer
<1>. QED
  BY <1>1, <1>3 DEF Fewer

\* What is compared are chunks of files with numbers.
LEMMA ChunksTyped ==
    /\ \A s \in Seq(Message) : Chunks(s) \subseteq Chunk
    /\ \A s \in Seq(Chunk) : s \in Seq(Message)
    /\ \A c \in Chunk : c.t = "chunk" /\ c.file.id \in Nat /\ c.off \in Nat /\ c.len \in Nat
    /\ \A h \in Handle : h.file.id \in Nat /\ h.pos \in Nat
<1>1. \A m \in Message : m.t = "chunk" => m \in Chunk
  BY DEF Message, Chunk, Control, Offer
<1>2. ASSUME NEW s \in Seq(Message) PROVE Chunks(s) \subseteq Chunk
  BY <1>1 DEF Chunks, OnDisk
<1>3. ASSUME NEW s \in Seq(Chunk) PROVE s \in Seq(Message)
  BY DEF Message
<1>4. \A c \in Chunk : c.t = "chunk" /\ c.file.id \in Nat /\ c.off \in Nat /\ c.len \in Nat
  BY DEF Chunk, Files
<1>5. \A h \in Handle : h.file.id \in Nat /\ h.pos \in Nat
  BY DEF Handle, Files
<1>. QED
  BY <1>2, <1>3, <1>4, <1>5

\* What is gone to an app is chunks.
LEMMA GoneTyped ==
    ASSUME WireOK, NEW q \in Peers
    PROVE  /\ chan[q] \in Seq(Message) /\ disk[q] \in Seq(Message)
           /\ Gone(q) \subseteq Chunk /\ Chunks(disk[q]) \subseteq Chunk
           /\ \A a \in Gone(q) : a.file.id \in Nat /\ a.off \in Nat /\ a.len \in Nat
<1>1. chan[q] \in Seq(Message) /\ disk[q] \in Seq(Chunk)
  BY DEF WireOK
<1>2. disk[q] \in Seq(Message)
  BY <1>1, ChunksTyped
<1>3. Chunks(chan[q]) \subseteq Chunk /\ Chunks(disk[q]) \subseteq Chunk
  BY <1>1, <1>2, ChunksTyped
<1>. QED
  BY <1>1, <1>2, <1>3, ChunksTyped DEF Gone

\* A step that sends no chunk, reads none and opens no file.
LEMMA OrderKept ==
    ASSUME TInv, OrderInv, offers' \in Nat, offers <= offers', NEW q \in Peers,
           Fewer(chan'[q], chan[q]),
           disk'[q] \in {disk[q], <<>>},
           loop'[Other(q)].pc = "push" =>
               loop[Other(q)].pc = "push" /\ loop'[Other(q)].chunk = loop[Other(q)].chunk,
           sendHandle'[Other(q)] \in {None, sendHandle[Other(q)]}
    PROVE  OrderOK(q)'
<1>1. Other(q) \in Peers
  BY OtherPeer
<1>2. PICK s \in Peers : s = Other(q)
  BY <1>1
<1>3. /\ WireOK /\ offers \in Nat
      /\ loop[s].pc = "push" => loop[s].chunk \in Chunk /\ loop[s].chunk.file.id \in Nat
      /\ sendHandle[s] # None => sendHandle[s] \in Handle /\ sendHandle[s].file.id \in Nat
  BY ChunksTyped DEF TInv, LoopOK, SendOK, BoundsOK
<1>4. \A a \in Gone(q) : a.file.id \in Nat
  BY <1>3, GoneTyped
<1>5. Ordered(disk[q]) /\ Ordered(chan[q]) /\ OrderOK(q)
  BY DEF OrderInv, OrderOK
<1>6. /\ Ordered(disk'[q]) /\ Ordered(chan'[q])
      /\ Chunks(disk'[q]) \subseteq Chunks(disk[q]) /\ Chunks(chan'[q]) \subseteq Chunks(chan[q])
  BY <1>5, NoneLeft DEF Fewer
<1>7. Gone(q)' \subseteq Gone(q)
  BY <1>6 DEF Gone
<1>8. \A a \in Gone(q)' : a.file.id <= offers'
  BY <1>3, <1>4, <1>5, <1>7 DEF OrderOK
<1>9. \A a \in Chunks(disk'[q]), b \in Chunks(chan'[q]) : Before(a, b)
  BY <1>5, <1>6 DEF OrderOK
<1>10. ASSUME sendHandle'[s] # None
       PROVE  sendHandle'[s].file.id <= offers' /\ \A a \in Gone(q)' : Behind(a, sendHandle'[s])
  BY <1>2, <1>3, <1>5, <1>7, <1>10 DEF OrderOK
<1>11. ASSUME loop'[s].pc = "push"
       PROVE  /\ loop'[s].chunk.file.id <= offers'
              /\ \A a \in Gone(q)' : Before(a, loop'[s].chunk)
              /\ sendHandle'[s] # None => Behind(loop'[s].chunk, sendHandle'[s])
  BY <1>2, <1>3, <1>5, <1>7, <1>11 DEF OrderOK
<1>. QED
  BY <1>2, <1>6, <1>8, <1>9, <1>10, <1>11 DEF OrderOK

\* A new file has a number no chunk has.
LEMMA OrderSendFile ==
    ASSUME TInv, OrderInv, NEW p \in Peers, NEW n \in Sizes, SendFile(p, n), NEW q \in Peers
    PROVE  OrderOK(q)'
<1>0. [id |-> offers + 1, size |-> n] \in Files
  BY DEF TInv, BoundsOK, Files
<1>1. PICK f \in Files : f = [id |-> offers + 1, size |-> n]
  BY <1>0
<1>2. /\ sendHandle' = [sendHandle EXCEPT ![p] = [file |-> f, pos |-> 0]]
      /\ chan' = SendTo(chan, p, <<[t |-> "ft_offer", file |-> f]>>)
      /\ UNCHANGED <<disk, loop>> /\ offers' = offers + 1
  BY <1>1 DEF SendFile, fileState
<1>3. /\ chan \in [Peers -> Seq(Message)] /\ offers \in Nat /\ sendHandle \in [Peers -> Handle \cup {None}]
      /\ WireOK
  BY DEF TInv, WireOK, BoundsOK, SendOK
<1>m. [t |-> "ft_offer", file |-> f] \in Message
  BY DEF Message, Offer
<1>4. PICK m \in Message : m = [t |-> "ft_offer", file |-> f] /\ m.t # "chunk"
  BY <1>m
<1>5. Fewer(chan'[q], chan[q])
  BY <1>2, <1>3, <1>4, ControlSent
<1>6. CASE Other(q) # p
  <2>1. sendHandle'[Other(q)] = sendHandle[Other(q)]
    BY <1>2, <1>3, <1>6, OtherPeer
  <2>. QED
    <3>1. offers' \in Nat /\ offers <= offers'
      BY <1>2, <1>3
    <3>2. disk'[q] = disk[q] /\ loop'[Other(q)] = loop[Other(q)]
      BY <1>2
    <3>. QED
      BY <1>5, <2>1, <3>1, <3>2, OrderKept
<1>7. CASE Other(q) = p
  <2>1. OrderOK(q) /\ Ordered(chan'[q]) /\ Chunks(chan'[q]) \subseteq Chunks(chan[q])
    BY <1>5 DEF OrderInv, OrderOK, Fewer
  <2>2. Gone(q)' \subseteq Gone(q)
    BY <1>2, <2>1 DEF Gone
  <2>3. \A a \in Gone(q)' : a.file.id \in Nat /\ a.file.id <= offers
    BY <1>3, <2>1, <2>2, GoneTyped DEF OrderOK
  <2>4. sendHandle'[p].file.id = offers + 1
    BY <1>1, <1>2, <1>3
  <2>5. loop[p].pc = "push" => loop[p].chunk.file.id \in Nat /\ loop[p].chunk.file.id <= offers
    BY <1>7, <2>1, ChunksTyped DEF OrderOK, TInv, LoopOK
  <2>6. \A a \in Gone(q)' : a.file.id <= offers' /\ Behind(a, sendHandle'[p])
    BY <1>2, <1>3, <2>3, <2>4 DEF Behind
  <2>7. loop'[p].pc = "push" =>
          /\ loop'[p].chunk.file.id <= offers'
          /\ \A a \in Gone(q)' : Before(a, loop'[p].chunk)
          /\ Behind(loop'[p].chunk, sendHandle'[p])
    <3>1. ASSUME loop[p].pc = "push" PROVE \A a \in Gone(q) : Before(a, loop[p].chunk)
      BY <1>7, <2>1, <3>1 DEF OrderOK
    <3>. QED
      BY <1>2, <1>3, <2>2, <2>4, <2>5, <3>1 DEF Behind
  <2>8. \A a \in Chunks(disk'[q]), b \in Chunks(chan'[q]) : Before(a, b)
    BY <1>2, <2>1 DEF OrderOK
  <2>9. Ordered(disk'[q])
    BY <1>2, <2>1 DEF OrderOK
  <2>10. sendHandle'[p].file.id <= offers'
    BY <1>2, <1>3, <2>4
  <2>. QED
    BY <1>7, <2>1, <2>6, <2>7, <2>8, <2>9, <2>10 DEF OrderOK
<1>. QED
  BY <1>6, <1>7

\* What is read comes after all that was read before.
LEMMA OrderRead ==
    ASSUME TInv, OrderInv, NEW p \in Peers, LoopRead(p), NEW q \in Peers
    PROVE  OrderOK(q)'
<1>0. /\ UNCHANGED <<chan, disk, offers>> /\ offers \in Nat
      /\ sendHandle \in [Peers -> Handle \cup {None}] /\ LoopOK /\ ReadOK
  BY DEF LoopRead, bounds, TInv, BoundsOK, SendOK
<1>1. Fewer(chan'[q], chan[q])
  BY <1>0 DEF Fewer
<1>2. CASE Other(q) # p \/ sendHandle[p] = None \/ ChunkLen(sendHandle[p]) = 0
  <2>1. sendHandle'[Other(q)] = sendHandle[Other(q)]
    BY <1>0, <1>2, OtherPeer DEF LoopRead
  <2>2. loop'[Other(q)].pc = "push" =>
           loop[Other(q)].pc = "push" /\ loop'[Other(q)].chunk = loop[Other(q)].chunk
    BY <1>0, <1>2, OtherPeer DEF LoopRead, Goto, AfterEmptyRead, LoopOK
  <2>. QED
    BY <1>0, <1>1, <2>1, <2>2, OrderKept
<1>3. CASE Other(q) = p /\ sendHandle[p] # None /\ ChunkLen(sendHandle[p]) # 0
  <2>1. PICK h \in Handle : h = sendHandle[p] /\ h.pos <= h.file.size
    BY <1>0, <1>3 DEF ReadOK
  <2>2. PICK a \in Handle : a = Advanced(h) /\ a.file = h.file /\ a.pos = h.pos + ChunkLen(h)
    BY <2>1, ChunkFits
  <2>3. PICK c \in Chunk : c = [t |-> "chunk", file |-> h.file, off |-> h.pos, len |-> ChunkLen(h)]
    BY <2>1, ChunkFits DEF Chunk, Handle
  <2>4. /\ loop' = [loop EXCEPT ![p] = [pc |-> "push", chunk |-> c]]
        /\ sendHandle' = [sendHandle EXCEPT ![p] = a]
    BY <1>3, <2>1, <2>2, <2>3 DEF LoopRead
  <2>5. loop'[p].chunk = c /\ sendHandle'[p] = a
    BY <1>0, <2>4 DEF LoopOK
  <2>6. OrderOK(q) /\ Gone(q)' = Gone(q)
    BY <1>0 DEF OrderInv, Gone
  <2>7. h.file.id <= offers /\ \A x \in Gone(q) : Behind(x, h)
    BY <1>3, <2>1, <2>6 DEF OrderOK
  <2>8. /\ c.file = h.file /\ c.off = h.pos /\ c.len = ChunkLen(h)
        /\ h.pos \in Nat /\ ChunkLen(h) \in Nat
    BY <2>1, <2>3, ChunkFits, ChunksTyped
  <2>9. \A x \in Gone(q) : Before(x, c)
    BY <2>7, <2>8 DEF Behind, Before
  <2>10. ASSUME NEW x \in Gone(q) PROVE Behind(x, a)
    <3>1. x.off + x.len \in Nat
      BY GoneTyped DEF TInv
    <3>2. Behind(x, h)
      BY <2>7
    <3>. QED
      BY <2>2, <2>8, <3>1, <3>2 DEF Behind
  <2>11. Behind(c, a)
    BY <2>2, <2>8 DEF Behind
  <2>12. Ordered(disk'[q]) /\ Ordered(chan'[q])
         /\ \A x \in Chunks(disk'[q]), b \in Chunks(chan'[q]) : Before(x, b)
    BY <1>0, <2>6 DEF OrderOK
  <2>13. \A x \in Gone(q)' : x.file.id <= offers'
    BY <1>0, <2>6 DEF OrderOK
  <2>. QED
    BY <1>0, <1>3, <2>2, <2>5, <2>6, <2>7, <2>8, <2>9, <2>10, <2>11, <2>12, <2>13 DEF OrderOK
<1>. QED
  BY <1>2, <1>3

\* What is pushed comes after all that is on disk or under way.
LEMMA OrderPush ==
    ASSUME TInv, OrderInv, NEW p \in Peers, LoopPush(p), NEW q \in Peers
    PROVE  OrderOK(q)'
<1>0. /\ UNCHANGED <<disk, offers, sendHandle>> /\ offers \in Nat /\ LoopOK /\ WireOK
      /\ chan \in [Peers -> Seq(Message)]
  BY DEF LoopPush, bounds, sendState, TInv, BoundsOK, WireOK
<1>1. PICK c \in Chunk : c = loop[p].chunk
  BY <1>0 DEF LoopPush, At, LoopOK
<1>2. c \in Message /\ c.t = "chunk"
  BY ChunksTyped DEF Message
<1>3. loop'[p].pc = "count" /\ \A x \in Peers : x # p => loop'[x] = loop[x]
  BY <1>0 DEF LoopPush, Goto, LoopOK
<1>4. chan' = [chan EXCEPT ![Other(p)] = chan[Other(p)] \o <<c>>]
  BY <1>1 DEF LoopPush, SendTo
<1>5. CASE q # Other(p)
  <2>1. chan'[q] = chan[q]
    BY <1>0, <1>4, <1>5, OtherPeer
  <2>2. Other(q) # p /\ Other(q) \in Peers
    BY <1>5, OtherPeer
  <2>. QED
    BY <1>0, <1>3, <2>1, <2>2, OrderKept DEF Fewer
<1>6. CASE q = Other(p)
  <2>0. Other(q) = p
    BY <1>6, OtherPeer
  <2>1. OrderOK(q) /\ chan[q] \in Seq(Message)
    BY <1>0 DEF OrderInv
  <2>2. chan'[q] = Append(chan[q], c)
    BY <1>0, <1>2, <1>4, <1>6, <2>1, OnePushed
  <2>3. c.file.id <= offers /\ (\A a \in Gone(q) : Before(a, c))
        /\ (sendHandle[p] # None => Behind(c, sendHandle[p]))
    BY <1>1, <2>0, <2>1 DEF OrderOK, LoopPush, At
  <2>4. Chunks(chan'[q]) = Chunks(chan[q]) \cup {c}
    BY <1>2, <2>1, <2>2, OnePushed
  <2>5. Ordered(chan'[q])
    BY <1>2, <2>1, <2>2, <2>3, OnePushed DEF OrderOK, Gone
  <2>6. Gone(q)' = Gone(q) \cup {c}
    BY <1>0, <2>4 DEF Gone
  <2>7. \A a \in Chunks(disk'[q]), b \in Chunks(chan'[q]) : Before(a, b)
    BY <1>0, <2>1, <2>3, <2>4 DEF OrderOK, Gone
  <2>8. Ordered(disk'[q])
    BY <1>0, <2>1 DEF OrderOK
  <2>9. \A a \in Gone(q)' : a.file.id <= offers'
    BY <1>0, <2>1, <2>3, <2>6 DEF OrderOK
  <2>10. sendHandle'[p] # None => sendHandle'[p].file.id <= offers' /\ \A a \in Gone(q)' : Behind(a, sendHandle'[p])
    BY <1>0, <2>0, <2>1, <2>3, <2>6 DEF OrderOK
  <2>. QED
    BY <1>3, <2>0, <2>5, <2>7, <2>8, <2>9, <2>10 DEF OrderOK
<1>. QED
  BY <1>5, <1>6

\* What is written comes before all that is still under way.
LEMMA OrderWrite ==
    ASSUME TInv, OrderInv, NEW p \in Peers, WriteChunk(p), NEW q \in Peers
    PROVE  OrderOK(q)'
<1>0. /\ UNCHANGED <<offers, sendHandle, loop>> /\ offers \in Nat /\ WireOK
      /\ chan \in [Peers -> Seq(Message)] /\ disk \in [Peers -> Seq(Chunk)]
      /\ chan[p] # <<>> /\ Head(chan[p]).t = "chunk"
  BY DEF WriteChunk, Incoming, bounds, sendState, fileState, TInv, BoundsOK, WireOK
<1>1. Head(chan[p]) \in Chunks(chan[p]) /\ chan[p] \in Seq(Message) /\ disk[p] \in Seq(Message)
  BY <1>0, OneTaken, GoneTyped
<1>2. PICK c \in Chunk : c = Head(chan[p]) /\ c.t = "chunk" /\ c \in Message
  BY <1>0, <1>1, ChunksTyped DEF Message
<1>3. /\ chan' = [chan EXCEPT ![p] = Tail(chan[p])]
      /\ disk' = [disk EXCEPT ![p] = Append(disk[p], c)]
  BY <1>2 DEF WriteChunk, Taken
<1>4. CASE q # p
  <2>1. chan'[q] = chan[q] /\ disk'[q] = disk[q]
    BY <1>0, <1>3, <1>4
  <2>. QED
    BY <1>0, <2>1, OrderKept DEF Fewer
<1>5. CASE q = p
  <2>1. OrderOK(p) /\ chan'[p] = Tail(chan[p]) /\ disk'[p] = Append(disk[p], c)
    BY <1>0, <1>3 DEF OrderInv
  <2>2. Ordered(chan'[p]) /\ Chunks(chan'[p]) \subseteq Chunks(chan[p])
    BY <1>0, <1>1, <2>1, OneTaken DEF OrderOK, Fewer
  <2>3. \A b \in Chunks(chan'[p]) : Before(c, b)
    BY <1>0, <1>1, <1>2, <2>1, OneTaken DEF OrderOK
  <2>4. Chunks(disk'[p]) = Chunks(disk[p]) \cup {c}
    BY <1>1, <1>2, <2>1, OnePushed
  <2>5. \A a \in Chunks(disk[p]) : Before(a, c)
    BY <1>1, <1>2, <2>1 DEF OrderOK
  <2>6. Ordered(disk'[p])
    BY <1>1, <1>2, <2>1, <2>5, OnePushed DEF OrderOK
  <2>7. Gone(p)' \subseteq Gone(p)
    BY <1>1, <1>2, <2>2, <2>4 DEF Gone
  <2>8. \A a \in Chunks(disk'[p]), b \in Chunks(chan'[p]) : Before(a, b)
    BY <2>1, <2>2, <2>3, <2>4 DEF OrderOK
  <2>. QED
    BY <1>0, <1>5, <2>1, <2>2, <2>6, <2>7, <2>8 DEF OrderOK
<1>. QED
  BY <1>4, <1>5

\* Every step keeps each stream in order.
LEMMA OrderStep == TInv /\ TInv' /\ OrderInv /\ [Next]_vars => OrderInv'
<1>. SUFFICES ASSUME TInv, TInv', OrderInv, [Next]_vars, NEW q \in Peers PROVE OrderOK(q)'
  BY DEF OrderInv
<1>t. /\ WireOK /\ LoopOK /\ chan \in [Peers -> Seq(Message)] /\ offers \in Nat
      /\ sendHandle \in [Peers -> Handle \cup {None}] /\ Other(q) \in Peers
  BY OtherPeer DEF TInv, WireOK, BoundsOK, SendOK
<1>c. \A t \in {"ft_accept", "ft_reject", "ft_cancel", "ft_done"} : [t |-> t] \in Message
  BY DEF Message, Control
<1>f. Fewer(chan[q], chan[q])
  BY DEF Fewer
<1>s. ASSUME NEW p \in Peers, NEW t \in {"ft_accept", "ft_reject", "ft_cancel", "ft_done"}
      PROVE  Fewer(SendTo(chan, p, <<[t |-> t]>>)[q], chan[q])
  <2>1. PICK m \in Message : m = [t |-> t] /\ m.t # "chunk"
    BY <1>c
  <2>. QED
    BY <1>t, <2>1, ControlSent
<1>k. ASSUME NEW p \in Peers, NEW t, Incoming(p, t)
      PROVE  Taken(p) \in [Peers -> Seq(Message)] /\ Fewer(Taken(p)[q], chan[q])
  <2>1. Taken(p) \in [Peers -> Seq(Message)]
    BY <1>t, <1>k, TakenType DEF Incoming
  <2>2. Taken(p)[q] = IF q = p THEN Tail(chan[p]) ELSE chan[q]
    BY <1>t DEF Taken
  <2>3. chan[p] \in Seq(Message) /\ chan[p] # <<>>
    BY <1>t, <1>k DEF Incoming
  <2>. QED
    BY <1>f, <2>1, <2>2, <2>3, OneTaken
\* The steps that read no file and send no chunk.
<1>. DEFINE Calm == /\ Fewer(chan'[q], chan[q]) /\ disk'[q] \in {disk[q], <<>>}
                    /\ loop'[Other(q)].pc = "push" =>
                         loop[Other(q)].pc = "push" /\ loop'[Other(q)].chunk = loop[Other(q)].chunk
                    /\ sendHandle'[Other(q)] \in {None, sendHandle[Other(q)]}
                    /\ offers' = offers
<1>calm. ASSUME Calm PROVE OrderOK(q)'
  BY <1>t, <1>calm, OrderKept
<1>1. ASSUME NEW p \in Peers, User(p) PROVE OrderOK(q)'
  <2>1. ASSUME NEW n \in Sizes, SendFile(p, n) PROVE OrderOK(q)'
    BY <2>1, OrderSendFile
  <2>2. CASE CancelFileTransfer(p)
    BY <2>2, <1>s, <1>calm DEF CancelFileTransfer, Abort, sendState, fileState
  <2>3. CASE OnAccept(p) \/ AcceptIgnored(p)
    BY <2>3, <1>f, <1>calm DEF OnAccept, AcceptIgnored, sendState, fileState, bounds
  <2>4. CASE OpenDestination(p)
    <3>1. disk'[q] \in {disk[q], <<>>}
      BY <2>4, <1>t DEF OpenDestination, WireOK
    <3>. QED
      BY <2>4, <3>1, <1>f, <1>calm DEF OpenDestination, sendState, fileState, bounds
  <2>5. CASE OnReject(p) \/ PanelDismissed(p)
    BY <2>5, <1>s, <1>calm DEF OnReject, PanelDismissed, RejectIncomingFile, Abort, sendState, fileState
  <2>. QED
    BY <1>1, <2>1, <2>2, <2>3, <2>4, <2>5 DEF User
<1>2. ASSUME NEW p \in Peers, Main(p) PROVE OrderOK(q)'
  <2>0. CASE AcceptIncomingFile(p)
    BY <2>0, <1>s, <1>calm DEF AcceptIncomingFile, sendState, fileState, bounds
  <2>1. CASE CleanupTransfer(p)
    <3>1. sendHandle'[Other(q)] \in {None, sendHandle[Other(q)]}
      BY <2>1, <1>t DEF CleanupTransfer
    <3>. QED
      BY <2>1, <3>1, <1>f, <1>calm DEF CleanupTransfer, fileState, bounds
  <2>2. CASE FileReceiveOffered(p) \/ FileReceiveProgress(p) \/ IceDisconnected(p)
    BY <2>2, <1>f, <1>calm DEF FileReceiveOffered, FileReceiveProgress, IceDisconnected, sendState,
                               fileState, bounds
  <2>. QED
    BY <1>2, <2>0, <2>1, <2>2 DEF Main, MainBlock
<1>3. ASSUME NEW p \in Peers, Rtc(p) \/ WriteFails(p) PROVE OrderOK(q)'
  <2>1. CASE WriteChunk(p)
    BY <2>1, OrderWrite
  <2>2. CASE OnOffer(p) \/ OnAcceptMsg(p) \/ OnEnd(p) \/ DropChunk(p) \/ WriteFails(p)
    <3>1. chan' = Taken(p) /\ \E t : Incoming(p, t)
      BY <2>2 DEF OnOffer, OnAcceptMsg, OnEnd, DropChunk, WriteFails
    <3>2. Fewer(chan'[q], chan[q])
      BY <3>1, <1>k
    <3>3. UNCHANGED <<disk, loop, sendHandle, offers>>
      BY <2>2 DEF OnOffer, OnAcceptMsg, OnEnd, DropChunk, WriteFails, Fault, sendState, fileState,
                  bounds
    <3>. QED
      BY <3>2, <3>3, <1>calm
  <2>3. CASE OnOfferBusy(p)
    <3>1. Taken(p) \in [Peers -> Seq(Message)] /\ Fewer(Taken(p)[q], chan[q])
      BY <2>3, <1>k DEF OnOfferBusy
    <3>2. PICK m \in Message : m = [t |-> "ft_reject"] /\ m.t # "chunk"
      BY <1>c
    <3>3. Fewer(chan'[q], Taken(p)[q])
      BY <2>3, <3>1, <3>2, ControlSent DEF OnOfferBusy
    <3>4. Fewer(chan'[q], chan[q])
      BY <3>1, <3>3 DEF Fewer
    <3>. QED
      BY <2>3, <3>4, <1>calm DEF OnOfferBusy, sendState, fileState, bounds
  <2>4. CASE CountChunk(p)
    <3>1. chan' = chan \/ chan' = SendTo(chan, p, <<[t |-> "ft_done"]>>)
      BY <2>4 DEF CountChunk
    <3>2. Fewer(chan'[q], chan[q])
      BY <1>f, <1>s, <3>1
    <3>. QED
      BY <2>4, <3>2, <1>calm DEF CountChunk, sendState, fileState, bounds
  <2>. QED
    BY <1>3, <2>1, <2>2, <2>3, <2>4 DEF Rtc
<1>4. ASSUME NEW p \in Peers, Loop(p) \/ LoopReadFails(p) PROVE OrderOK(q)'
  <2>1. CASE LoopRead(p)
    BY <2>1, OrderRead
  <2>2. CASE LoopPush(p)
    BY <2>2, OrderPush
  <2>3. ASSUME Leave(p) \/ (\E pc \in {"read", "end"} : Goto(p, pc))
               \/ \E n : loop' = [loop EXCEPT ![p] = [pc |-> WhileTest(p, n), chunk |-> None]]
        PROVE  loop'[Other(q)].pc = "push" =>
                 loop[Other(q)].pc = "push" /\ loop'[Other(q)].chunk = loop[Other(q)].chunk
    <3>. HIDE DEF Calm
    <3>f. loop \in [Peers -> [pc : {"idle", "read", "push", "count", "end"},
                              chunk : Chunk \cup {None}]]
      BY <1>t DEF LoopOK
    <3>x. PICK x \in Peers : x = Other(q)
      BY OtherPeer
    <3>w. \A n : WhileTest(p, n) # "push"
      BY DEF WhileTest
    <3>1. CASE x # p
      BY <2>3, <3>1, <3>f, <3>x DEF Leave, Goto
    <3>2. CASE x = p
      <4>1. CASE Leave(p)
        BY <3>2, <3>f, <3>x, <4>1 DEF Leave
      <4>2. CASE \E pc \in {"read", "end"} : Goto(p, pc)
        BY <3>2, <3>f, <3>x, <4>2 DEF Goto
      <4>3. CASE \E n : loop' = [loop EXCEPT ![p] = [pc |-> WhileTest(p, n), chunk |-> None]]
        BY <3>2, <3>f, <3>x, <3>w, <4>3
      <4>. QED
        BY <2>3, <4>1, <4>2, <4>3
    <3>. QED
      BY <3>1, <3>2, <3>x
  <2>4. CASE LoopStart(p) \/ LoopCount(p) \/ LoopReadFails(p)
    <3>1. Leave(p) \/ (\E pc \in {"read", "end"} : Goto(p, pc))
          \/ \E n : loop' = [loop EXCEPT ![p] = [pc |-> WhileTest(p, n), chunk |-> None]]
      BY <2>4 DEF LoopStart, LoopCount, LoopReadFails, WhileTest
    <3>2. UNCHANGED <<chan, disk, sendHandle, offers>>
      BY <2>4 DEF LoopStart, LoopCount, LoopReadFails, Fault, sendState, bounds
    <3>. QED
      BY <1>f, <1>calm, <2>3, <3>1, <3>2
  <2>5. CASE LoopClosed(p) \/ LoopPushFails(p) \/ LoopEnd(p)
    <3>1. Leave(p) /\ UNCHANGED <<disk, sendHandle, offers>>
      BY <2>5 DEF LoopClosed, LoopPushFails, LoopEnd, Fault, sendState, bounds
    <3>2. chan' = chan \/ chan' = SendTo(chan, p, <<[t |-> "ft_done"]>>)
      BY <2>5 DEF LoopClosed, LoopPushFails, LoopEnd
    <3>3. Fewer(chan'[q], chan[q])
      BY <1>f, <1>s, <3>2
    <3>. QED
      BY <1>calm, <2>3, <3>1, <3>3
  <2>. QED
    BY <1>4, <2>1, <2>2, <2>4, <2>5 DEF Loop
<1>5. ASSUME NEW p \in Peers, AcceptFails(p) \/ IceDown(p) PROVE OrderOK(q)'
  <2>1. chan' = chan \/ chan' = SendTo(chan, p, <<[t |-> "ft_reject"]>>)
    BY <1>5 DEF AcceptFails, IceDown
  <2>2. Fewer(chan'[q], chan[q])
    BY <1>f, <1>s, <2>1
  <2>. QED
    BY <1>5, <2>2, <1>calm DEF AcceptFails, IceDown, Fault, sendState, fileState
<1>6. CASE ChannelCloses
  <2>1. Fewer(chan'[q], chan[q])
    BY <1>6, NoneLeft DEF ChannelCloses, Fewer
  <2>. QED
    BY <1>6, <2>1, <1>calm DEF ChannelCloses, Fault, sendState, fileState
<1>7. CASE UNCHANGED vars
  BY <1>7, <1>f, <1>calm DEF vars, sendState, fileState, bounds
<1>. QED
  BY <1>1, <1>2, <1>3, <1>4, <1>5, <1>6, <1>7 DEF Next, Failure

\* The bytes of a destination file are written in file order and never twice, for
\* any sizes, any number of transfers in both directions, and any interleaving of
\* cancelled loops with the transfers that follow them.
THEOREM WritesInOrder == Spec => []WrittenInOrder
<1>1. Init => OrderInv
  <2>. SUFFICES ASSUME Init, NEW q \in Peers PROVE OrderOK(q)
    BY DEF OrderInv
  <2>1. disk[q] = <<>> /\ chan[q] = <<>> /\ sendHandle[Other(q)] = None /\ loop[Other(q)].pc = "idle"
    BY OtherPeer DEF Init
  <2>2. Gone(q) = {}
    BY <2>1, NoneLeft DEF Gone
  <2>. QED
    BY <2>1, <2>2, NoneLeft DEF OrderOK
<1>2. TInv /\ OrderInv => WrittenInOrder
  <2>. SUFFICES ASSUME TInv, OrderInv, NEW p \in Peers, NEW i \in 1..(Len(disk[p]) - 1)
                PROVE  Before(disk[p][i], disk[p][i + 1])
    BY DEF WrittenInOrder, Before
  <2>1. disk[p] \in Seq(Chunk) /\ Len(disk[p]) \in Nat
    BY DEF TInv, WireOK
  <2>2. i \in 1..Len(disk[p]) /\ i + 1 \in 1..Len(disk[p]) /\ i < i + 1
    BY <2>1
  <2>3. disk[p][i] \in Chunk /\ disk[p][i + 1] \in Chunk
    BY <2>1, <2>2
  <2>4. disk[p][i].t = "chunk" /\ disk[p][i + 1].t = "chunk"
    BY <2>3, ChunksTyped
  <2>. QED
    BY <2>2, <2>4 DEF OrderInv, OrderOK, Ordered
<1>. QED
  BY <1>1, <1>2, TypesAlways, OrderStep, PTL DEF Spec
=============================================================================
