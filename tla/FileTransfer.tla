---------------------------- MODULE FileTransfer ----------------------------
(***************************************************************************)
(* The file transfer of RTCClient.m and the parts of the view controllers  *)
(* that decide which of its operations the user can reach, for two apps    *)
(* joined by one reliable, ordered data channel.                           *)
(*                                                                         *)
(* In each app three threads share the unlocked properties of RTCClient:   *)
(*   main   user events, and the blocks dispatched to the main queue;      *)
(*   rtc    WebRTC's thread, which calls the data channel's delegate;      *)
(*   file   the serial fileQueue, which runs the sending loop.             *)
(* A user event, a main-queue block and the handling of a control message  *)
(* are one action each, with three cuts where another thread acts between  *)
(* the parts: the sending loop at its I/O (read | sendData | count), the   *)
(* handling of a binary message between its write and its count, and the   *)
(* accept between opening the destination and zeroing the count.  cleanup, *)
(* called from any thread, only ENQUEUES a block that resets later.        *)
(*                                                                         *)
(* File contents are abstract: a chunk says which file it is of and which  *)
(* bytes.  Progress values, labels and alerts are left out; so is hello.   *)
(***************************************************************************)
EXTENDS Naturals, Sequences

CONSTANTS Peers,         \* the two apps
          Senders,       \* those whose user sends files
          Sizes,         \* file sizes, in bytes
          ChunkSize,     \* RTCClient.chunkSize
          None,          \* nil
          MaxTransfers,  \* bound: files offered in one behaviour
          MaxAborts,     \* bound: cancels and rejects by the users
          MaxFaults,     \* bound: I/O errors, send timeouts, ICE and channel failures
          MaxTroubles,   \* bound: aborts and faults together
          MaxPanels      \* bound: save panels open at once in one app

ASSUME PeersAssumption == \E a, b \in Peers : a # b /\ Peers = {a, b}
ASSUME SendersAssumption == Senders \subseteq Peers
ASSUME SizesAssumption == Sizes \subseteq Nat \ {0} /\ ChunkSize \in Nat \ {0}
ASSUME NoneAssumption ==
    /\ None \notin [id : Nat, size : Sizes]
    /\ None \notin [file : [id : Nat, size : Sizes], pos : Nat]
    /\ None \notin [t : {"chunk"}, file : [id : Nat, size : Sizes], off : Nat, len : Nat]
ASSUME BoundsAssumption ==
    {MaxTransfers, MaxAborts, MaxFaults, MaxTroubles, MaxPanels} \subseteq Nat

VARIABLES
    \* RTCClient
    sendHandle,         \* None, or the open source file and the read position
    sendTotalBytes, sendBytesSent,
    recvHandle,         \* whether the destination file is open
    recvTotalBytes, recvBytesReceived,
    incomingFileName,   \* None, or the file last offered
    transferCancelled,
    \* the view controllers
    isSending,          \* HXSendViewController: cancel is enabled
    offerShown,         \* HXReceiveViewController: save-as and reject are enabled
    overlayShown,       \* its receiving panel, which has a cancel button, is visible
    incomingName,       \* the container's copy of the offer
    savePanels,         \* save panels waiting for an answer
    \* the threads
    accepting,          \* the main thread has opened the destination, not zeroed the count
    mainQ,              \* blocks waiting in the main queue
    fileQ,              \* sending loops waiting in fileQueue
    loop,               \* the sending loop: its program counter and its chunk
    rtcWritten,         \* bytes the rtc thread has written and not yet counted
    \* the data channel and the disk
    channelOpen,
    chan,               \* messages under way to each app
    disk,               \* chunks in the destination file, in the order written
    \* history and bounds
    saved,              \* files all of whose bytes have been written
    current,            \* the file of the transfer an app last offered or accepted
    accepted,           \* files whose ft_accept has been sent
    wiped,              \* bytes counted for the destination and zeroed by its accept
    offers, aborts, faults

sendState == <<sendHandle, sendTotalBytes, sendBytesSent>>
recvState == <<recvHandle, recvTotalBytes, recvBytesReceived, incomingFileName, accepting>>
ui        == <<isSending, offerShown, overlayShown, incomingName, savePanels>>
fileState == <<fileQ, loop>>
history   == <<saved, current, accepted, wiped>>
bounds    == <<offers, aborts, faults>>

vars == <<sendState, recvState, transferCancelled, ui, mainQ, fileState, rtcWritten,
          channelOpen, chan, disk, history, bounds>>
-----------------------------------------------------------------------------
Other(p) == CHOOSE q \in Peers : q # p

Files == [id : Nat, size : Sizes]
Handle == [file : Files, pos : Nat]
Chunk == [t : {"chunk"}, file : Files, off : Nat, len : Nat]
Control == [t : {"ft_accept", "ft_reject", "ft_cancel", "ft_done"}]
Offer == [t : {"ft_offer"}, file : Files]

Cleanup(outcome) == [b |-> "cleanup", outcome |-> outcome]
Block == [b : {"cleanup"}, outcome : {"done", "cancelled", "error"}]
    \cup [b : {"offered", "progress", "iceDown"}]

TypeOK ==
    /\ sendHandle \in [Peers -> Handle \cup {None}]
    /\ sendTotalBytes \in [Peers -> Nat] /\ sendBytesSent \in [Peers -> Nat]
    /\ recvHandle \in [Peers -> BOOLEAN]
    /\ recvTotalBytes \in [Peers -> Nat] /\ recvBytesReceived \in [Peers -> Nat]
    /\ incomingFileName \in [Peers -> Files \cup {None}]
    /\ transferCancelled \in [Peers -> BOOLEAN]
    /\ isSending \in [Peers -> BOOLEAN] /\ offerShown \in [Peers -> BOOLEAN]
    /\ overlayShown \in [Peers -> BOOLEAN]
    /\ incomingName \in [Peers -> Files \cup {None}]
    /\ savePanels \in [Peers -> Nat]
    /\ accepting \in [Peers -> BOOLEAN]
    /\ mainQ \in [Peers -> Seq(Block)]
    /\ fileQ \in [Peers -> Nat]
    /\ loop \in [Peers -> [pc : {"idle", "read", "push", "count", "end"},
                           chunk : Chunk \cup {None}]]
    /\ rtcWritten \in [Peers -> Nat]
    /\ channelOpen \in BOOLEAN
    /\ chan \in [Peers -> Seq(Chunk \cup Control \cup Offer)]
    /\ disk \in [Peers -> Seq(Chunk)]
    /\ saved \subseteq Files /\ accepted \subseteq Files
    /\ current \in [Peers -> Files \cup {None}] /\ wiped \in [Peers -> Nat]
    /\ {offers, aborts, faults} \subseteq Nat

Init ==
    /\ sendHandle = [p \in Peers |-> None]
    /\ sendTotalBytes = [p \in Peers |-> 0] /\ sendBytesSent = [p \in Peers |-> 0]
    /\ recvHandle = [p \in Peers |-> FALSE]
    /\ recvTotalBytes = [p \in Peers |-> 0] /\ recvBytesReceived = [p \in Peers |-> 0]
    /\ incomingFileName = [p \in Peers |-> None]
    /\ transferCancelled = [p \in Peers |-> FALSE]
    /\ isSending = [p \in Peers |-> FALSE] /\ offerShown = [p \in Peers |-> FALSE]
    /\ overlayShown = [p \in Peers |-> FALSE]
    /\ incomingName = [p \in Peers |-> None]
    /\ savePanels = [p \in Peers |-> 0]
    /\ accepting = [p \in Peers |-> FALSE]
    /\ mainQ = [p \in Peers |-> <<>>]
    /\ fileQ = [p \in Peers |-> 0]
    /\ loop = [p \in Peers |-> [pc |-> "idle", chunk |-> None]]
    /\ rtcWritten = [p \in Peers |-> 0]
    /\ channelOpen = TRUE
    /\ chan = [p \in Peers |-> <<>>]
    /\ disk = [p \in Peers |-> <<>>]
    /\ saved = {} /\ accepted = {}
    /\ current = [p \in Peers |-> None] /\ wiped = [p \in Peers |-> 0]
    /\ offers = 0 /\ aborts = 0 /\ faults = 0
-----------------------------------------------------------------------------
(* Helpers.                                                                *)

\* The channel after p sends the messages ms: sendData does nothing unless open.
SendTo(ch, p, ms) == IF channelOpen THEN [ch EXCEPT ![Other(p)] = @ \o ms] ELSE ch

\* dispatch_async(dispatch_get_main_queue(), ...)
Post(p, blocks) == mainQ' = [mainQ EXCEPT ![p] = @ \o blocks]

\* mutant: an open destination does not count
BusySending(p) == sendHandle[p] # None

Busy(p) == sendHandle[p] # None \/ recvHandle[p]

\* What an assignment of 0 to a count leaves: when it falls between the load and
\* the store of a += on another thread, the old count stays.
Zeroed(count, racing) == IF racing THEN {0, count} ELSE {0}

Trouble == aborts + faults < MaxTroubles
Abort == Trouble /\ aborts < MaxAborts /\ aborts' = aborts + 1 /\ UNCHANGED <<offers, faults>>
Fault == Trouble /\ faults < MaxFaults /\ faults' = faults + 1 /\ UNCHANGED <<offers, aborts>>
-----------------------------------------------------------------------------
(* What the view controllers show.                                         *)

SetSendingInProgress(p, sending) == isSending' = [isSending EXCEPT ![p] = sending]

PresentIncomingOffer(p) ==
    /\ offerShown' = [offerShown EXCEPT ![p] = TRUE]
    /\ overlayShown' = [overlayShown EXCEPT ![p] = FALSE]

\* mutant: the buttons go but the receiving panel does not come
BeginReceivingUnseen(p) ==
    offerShown' = [offerShown EXCEPT ![p] = FALSE] /\ UNCHANGED overlayShown

BeginReceiving(p) ==
    /\ offerShown' = [offerShown EXCEPT ![p] = FALSE]
    /\ overlayShown' = [overlayShown EXCEPT ![p] = TRUE]

ResetToIdle(p) ==
    /\ offerShown' = [offerShown EXCEPT ![p] = FALSE]
    /\ overlayShown' = [overlayShown EXCEPT ![p] = FALSE]

\* fileTransferDidFinishWithError, the same for every outcome.
TransferDidFinish(p) ==
    /\ SetSendingInProgress(p, FALSE)
    /\ ResetToIdle(p)
    /\ incomingName' = [incomingName EXCEPT ![p] = None]
    /\ UNCHANGED savePanels
-----------------------------------------------------------------------------
(* The user's side, on the main thread.                                    *)

\* The main thread can take an event or a block.
MainFree(p) == ~accepting[p]

\* onSend -> sendFileAtURL: refused, without effect, unless the channel is open
\* and neither handle is.
SendFile(p, size) ==
    /\ MainFree(p)
    /\ channelOpen
    /\ ~Busy(p)
    /\ offers < MaxTransfers
    /\ LET file == [id |-> offers + 1, size |-> size] IN
       /\ sendHandle' = [sendHandle EXCEPT ![p] = [file |-> file, pos |-> 0]]
       /\ chan' = SendTo(chan, p, <<[t |-> "ft_offer", file |-> file]>>)
       /\ current' = [current EXCEPT ![p] = file]
    /\ transferCancelled' = [transferCancelled EXCEPT ![p] = FALSE]
    /\ sendTotalBytes' = [sendTotalBytes EXCEPT ![p] = size]
    /\ \E n \in Zeroed(sendBytesSent[p], loop[p].pc = "count") :
          sendBytesSent' = [sendBytesSent EXCEPT ![p] = n]
    /\ SetSendingInProgress(p, TRUE)
    /\ offers' = offers + 1
    /\ UNCHANGED <<recvState, offerShown, overlayShown, incomingName, savePanels, mainQ,
                   fileState, rtcWritten, channelOpen, disk, saved, accepted, wiped,
                   aborts, faults>>

\* mutant: the transfer is flagged and the peer told, but nothing is cleaned up
CancelFlagsOnly(p) ==
    /\ MainFree(p)
    /\ isSending[p]
    /\ Abort
    /\ transferCancelled' = [transferCancelled EXCEPT ![p] = TRUE]
    /\ chan' = SendTo(chan, p, <<[t |-> "ft_cancel"]>>)
    /\ UNCHANGED <<sendState, recvState, ui, mainQ, fileState, rtcWritten, channelOpen, disk,
                   history>>

\* The cancel button, enabled while sending: cancelFileTransfer.
CancelFileTransfer(p) ==
    /\ MainFree(p)
    /\ isSending[p]
    /\ Abort
    /\ transferCancelled' = [transferCancelled EXCEPT ![p] = TRUE]
    /\ chan' = SendTo(chan, p, <<[t |-> "ft_cancel"]>>)
    /\ Post(p, <<Cleanup("cancelled")>>)
    /\ UNCHANGED <<sendState, recvState, ui, fileState, rtcWritten, channelOpen, disk, history>>

\* The save-as button: onAccept opens a save panel, which is not modal.
OnAccept(p) ==
    /\ MainFree(p)
    /\ offerShown[p]
    /\ incomingName[p] # None
    /\ savePanels[p] < MaxPanels
    /\ savePanels' = [savePanels EXCEPT ![p] = @ + 1]
    /\ UNCHANGED <<sendState, recvState, transferCancelled, isSending, offerShown, overlayShown,
                   incomingName, mainQ, fileState, rtcWritten, channelOpen, chan, disk,
                   history, bounds>>

\* A save panel is confirmed: beginReceiving runs whatever became of the accept.
PanelConfirmed(p) ==
    /\ savePanels[p] > 0
    /\ savePanels' = [savePanels EXCEPT ![p] = @ - 1]
    /\ BeginReceiving(p)
    /\ UNCHANGED <<isSending, incomingName>>

Acceptable(p) == incomingFileName[p] # None /\ recvTotalBytes[p] # 0 /\ ~recvHandle[p]

\* mutant: ft_accept is sent as soon as the destination is open
OpenAndTell(p) ==
    /\ MainFree(p)
    /\ savePanels[p] > 0
    /\ Acceptable(p)
    /\ recvHandle' = [recvHandle EXCEPT ![p] = TRUE]
    /\ accepting' = [accepting EXCEPT ![p] = TRUE]
    /\ disk' = [disk EXCEPT ![p] = <<>>]
    /\ wiped' = [wiped EXCEPT ![p] = 0]
    /\ chan' = SendTo(chan, p, <<[t |-> "ft_accept"]>>)
    /\ UNCHANGED <<sendState, recvTotalBytes, recvBytesReceived, incomingFileName,
                   transferCancelled, ui, mainQ, fileState, rtcWritten, channelOpen,
                   saved, current, accepted, bounds>>

\* A save panel is confirmed, and acceptIncomingFileToURL creates the destination
\* and publishes its handle: from here on chunks are written to it.
OpenDestination(p) ==
    /\ MainFree(p)
    /\ savePanels[p] > 0
    /\ Acceptable(p)
    /\ recvHandle' = [recvHandle EXCEPT ![p] = TRUE]
    /\ accepting' = [accepting EXCEPT ![p] = TRUE]
    /\ disk' = [disk EXCEPT ![p] = <<>>]
    /\ wiped' = [wiped EXCEPT ![p] = 0]
    /\ UNCHANGED <<sendState, recvTotalBytes, recvBytesReceived, incomingFileName,
                   transferCancelled, ui, mainQ, fileState, rtcWritten, channelOpen, chan,
                   saved, current, accepted, bounds>>

\* The rest of it: the count is zeroed, the sender told, and the panel shown.
AcceptIncomingFile(p) ==
    /\ accepting[p]
    /\ accepting' = [accepting EXCEPT ![p] = FALSE]
    /\ \E n \in Zeroed(recvBytesReceived[p], rtcWritten[p] > 0) :
          /\ recvBytesReceived' = [recvBytesReceived EXCEPT ![p] = n]
          /\ wiped' = [wiped EXCEPT ![p] = recvBytesReceived[p] - n]
    /\ chan' = SendTo(chan, p, <<[t |-> "ft_accept"]>>)
    /\ current' = [current EXCEPT ![p] = incomingFileName[p]]
    /\ accepted' = accepted \cup {incomingFileName[p]}
    /\ PanelConfirmed(p)
    /\ UNCHANGED <<sendState, recvHandle, recvTotalBytes, incomingFileName, transferCancelled,
                   mainQ, fileState, rtcWritten, channelOpen, disk, saved, bounds>>

\* acceptIncomingFileToURL, when the destination cannot be opened.
AcceptFails(p) ==
    /\ MainFree(p)
    /\ PanelConfirmed(p)
    /\ Acceptable(p)
    /\ Fault
    /\ chan' = SendTo(chan, p, <<[t |-> "ft_reject"]>>)
    /\ Post(p, <<Cleanup("error"), Cleanup("error")>>)
    /\ UNCHANGED <<sendState, recvState, transferCancelled, fileState, rtcWritten,
                   channelOpen, disk, history>>

\* acceptIncomingFileToURL, when the offer is gone or already accepted.
AcceptIgnored(p) ==
    /\ MainFree(p)
    /\ PanelConfirmed(p)
    /\ ~Acceptable(p)
    /\ UNCHANGED <<sendState, recvState, transferCancelled, mainQ, fileState, rtcWritten,
                   channelOpen, chan, disk, history, bounds>>

\* rejectIncomingFileWithReason.
RejectIncomingFile(p) ==
    /\ MainFree(p)
    /\ Abort
    /\ chan' = SendTo(chan, p, <<[t |-> "ft_reject"]>>)
    /\ Post(p, <<Cleanup("error")>>)
    /\ UNCHANGED <<sendState, recvState, transferCancelled, isSending, offerShown,
                   overlayShown, incomingName, fileState, rtcWritten, channelOpen, disk, history>>

\* The reject button, or the cancel button of the receiving panel.
OnReject(p) ==
    /\ offerShown[p] \/ overlayShown[p]
    /\ RejectIncomingFile(p)
    /\ UNCHANGED savePanels

PanelDismissed(p) ==
    /\ savePanels[p] > 0
    /\ savePanels' = [savePanels EXCEPT ![p] = @ - 1]
    /\ RejectIncomingFile(p)
-----------------------------------------------------------------------------
(* Blocks of the main queue.                                               *)

NextBlock(p, b) == MainFree(p) /\ mainQ[p] # <<>> /\ Head(mainQ[p]).b = b

\* The block of cleanupTransferWithError, and the delegate call it ends with:
\* everything is reset, whichever transfer the cleanup was meant for.
CleanupTransfer(p) ==
    /\ NextBlock(p, "cleanup")
    /\ mainQ' = [mainQ EXCEPT ![p] = Tail(@)]
    /\ sendHandle' = [sendHandle EXCEPT ![p] = None]
    /\ sendTotalBytes' = [sendTotalBytes EXCEPT ![p] = 0]
    /\ \E n \in Zeroed(sendBytesSent[p], loop[p].pc = "count") :
          sendBytesSent' = [sendBytesSent EXCEPT ![p] = n]
    /\ recvHandle' = [recvHandle EXCEPT ![p] = FALSE]
    /\ recvTotalBytes' = [recvTotalBytes EXCEPT ![p] = 0]
    /\ \E n \in Zeroed(recvBytesReceived[p], rtcWritten[p] > 0) :
          recvBytesReceived' = [recvBytesReceived EXCEPT ![p] = n]
    /\ incomingFileName' = [incomingFileName EXCEPT ![p] = None]
    /\ TransferDidFinish(p)
    /\ UNCHANGED <<accepting, transferCancelled, fileState, rtcWritten, channelOpen, chan,
                   disk, history, bounds>>

\* fileReceiveOffered: the name is read when the block runs, not when posted.
FileReceiveOffered(p) ==
    /\ NextBlock(p, "offered")
    /\ mainQ' = [mainQ EXCEPT ![p] = Tail(@)]
    /\ incomingName' = [incomingName EXCEPT ![p] = incomingFileName[p]]
    /\ PresentIncomingOffer(p)
    /\ UNCHANGED <<sendState, recvState, transferCancelled, isSending, savePanels, fileState,
                   rtcWritten, channelOpen, chan, disk, history, bounds>>

\* fileReceiveProgress shows the receiving panel.
FileReceiveProgress(p) ==
    /\ NextBlock(p, "progress")
    /\ mainQ' = [mainQ EXCEPT ![p] = Tail(@)]
    /\ overlayShown' = [overlayShown EXCEPT ![p] = TRUE]
    /\ UNCHANGED <<sendState, recvState, transferCancelled, isSending, offerShown, incomingName,
                   savePanels, fileState, rtcWritten, channelOpen, chan, disk, history, bounds>>

\* The block of didChangeIceConnectionState: it ends a transfer in progress by
\* one more block.
IceDisconnected(p) ==
    /\ NextBlock(p, "iceDown")
    /\ mainQ' = [mainQ EXCEPT ![p] = Tail(@) \o
                    IF Busy(p) THEN <<Cleanup("error")>> ELSE <<>>]
    /\ UNCHANGED <<sendState, recvState, transferCancelled, ui, fileState, rtcWritten,
                   channelOpen, chan, disk, history, bounds>>

MainBlock(p) ==
    \/ CleanupTransfer(p) \/ FileReceiveOffered(p)
    \/ FileReceiveProgress(p) \/ IceDisconnected(p)

\* The main thread goes on by itself.
Main(p) == AcceptIncomingFile(p) \/ MainBlock(p)
-----------------------------------------------------------------------------
(* dataChannel:didReceiveMessageWithBuffer:, on the rtc thread.            *)

\* The rtc thread, free of an earlier message, takes the next one, of type t.
Incoming(p, t) ==
    /\ rtcWritten[p] = 0
    /\ chan[p] # <<>>
    /\ Head(chan[p]).t = t

Taken(p) == [chan EXCEPT ![p] = Tail(@)]

OnOffer(p) ==
    /\ Incoming(p, "ft_offer")
    /\ ~Busy(p)
    /\ chan' = Taken(p)
    /\ incomingFileName' = [incomingFileName EXCEPT ![p] = Head(chan[p]).file]
    /\ recvTotalBytes' = [recvTotalBytes EXCEPT ![p] = Head(chan[p]).file.size]
    /\ recvBytesReceived' = [recvBytesReceived EXCEPT ![p] = 0]
    /\ Post(p, <<[b |-> "offered"]>>)
    /\ UNCHANGED <<sendState, recvHandle, accepting, transferCancelled, ui, fileState, rtcWritten,
                   channelOpen, disk, history, bounds>>

OnOfferBusy(p) ==
    /\ Incoming(p, "ft_offer")
    /\ Busy(p)
    /\ chan' = SendTo(Taken(p), p, <<[t |-> "ft_reject"]>>)
    /\ UNCHANGED <<sendState, recvState, transferCancelled, ui, mainQ, fileState, rtcWritten,
                   channelOpen, disk, history, bounds>>

\* ft_accept starts a sending loop if a file is open, whichever file it is.
OnAcceptMsg(p) ==
    /\ Incoming(p, "ft_accept")
    /\ chan' = Taken(p)
    /\ fileQ' = IF sendHandle[p] = None THEN fileQ ELSE [fileQ EXCEPT ![p] = @ + 1]
    /\ UNCHANGED <<sendState, recvState, transferCancelled, ui, mainQ, loop, rtcWritten,
                   channelOpen, disk, history, bounds>>

\* ft_reject, ft_cancel and ft_done only post a cleanup; transferCancelled is
\* not set.
OnEnd(p) ==
    /\ \/ Incoming(p, "ft_reject") /\ Post(p, <<Cleanup("error")>>)
       \/ Incoming(p, "ft_cancel") /\ Post(p, <<Cleanup("error")>>)
       \/ Incoming(p, "ft_done")   /\ Post(p, <<Cleanup("done")>>)
    /\ chan' = Taken(p)
    /\ UNCHANGED <<sendState, recvState, transferCancelled, ui, fileState, rtcWritten,
                   channelOpen, disk, history, bounds>>

\* A chunk that no transfer expects is dropped.
DropChunk(p) ==
    /\ Incoming(p, "chunk")
    /\ ~recvHandle[p] \/ recvTotalBytes[p] = 0
    /\ chan' = Taken(p)
    /\ UNCHANGED <<sendState, recvState, transferCancelled, ui, mainQ, fileState, rtcWritten,
                   channelOpen, disk, history, bounds>>

\* Every byte of the file is in one of the chunks.
Covers(chunks, file) ==
    \A n \in 0..(file.size - 1) :
        \E c \in chunks : c.file = file /\ c.off <= n /\ n < c.off + c.len

OnDisk(d) == {d[i] : i \in 1..Len(d)}

WriteChunk(p) ==
    LET chunk == Head(chan[p]) IN
    /\ Incoming(p, "chunk")
    /\ recvHandle[p] /\ recvTotalBytes[p] # 0
    /\ chan' = Taken(p)
    /\ disk' = [disk EXCEPT ![p] = Append(@, chunk)]
    /\ rtcWritten' = [rtcWritten EXCEPT ![p] = chunk.len]
    /\ saved' = IF Covers(OnDisk(disk'[p]), chunk.file)
                THEN saved \cup {chunk.file} ELSE saved
    /\ UNCHANGED <<sendState, recvState, transferCancelled, ui, mainQ, fileState, channelOpen,
                   current, accepted, wiped, bounds>>

WriteFails(p) ==
    /\ Incoming(p, "chunk")
    /\ recvHandle[p] /\ recvTotalBytes[p] # 0
    /\ Fault
    /\ chan' = Taken(p)
    /\ Post(p, <<Cleanup("error")>>)
    /\ UNCHANGED <<sendState, recvState, transferCancelled, ui, fileState, rtcWritten,
                   channelOpen, disk, history>>

LastByteEarly(p, received) == received + 1 >= recvTotalBytes[p]   \* mutant: off by one

LastByte(p, received) == received >= recvTotalBytes[p]

\* mutant: the transfer is ended before its last progress is reported
EndsFirst(finished) == (IF finished THEN <<Cleanup("done")>> ELSE <<>>) \o <<[b |-> "progress"]>>

\* The blocks the handler of a chunk posts.
Reports(finished) == <<[b |-> "progress"]>> \o IF finished THEN <<Cleanup("done")>> ELSE <<>>

\* The rest of the handler: count, show progress, and finish on the last byte.
CountChunk(p) ==
    LET received == recvBytesReceived[p] + rtcWritten[p]
        finished == LastByte(p, received)
    IN
    /\ rtcWritten[p] > 0
    /\ rtcWritten' = [rtcWritten EXCEPT ![p] = 0]
    /\ recvBytesReceived' = [recvBytesReceived EXCEPT ![p] = received]
    /\ chan' = IF finished THEN SendTo(chan, p, <<[t |-> "ft_done"]>>) ELSE chan
    /\ Post(p, Reports(finished))
    /\ UNCHANGED <<sendState, recvHandle, recvTotalBytes, incomingFileName, accepting,
                   transferCancelled, ui, fileState, channelOpen, disk, history, bounds>>

Rtc(p) ==
    \/ OnOffer(p) \/ OnOfferBusy(p) \/ OnAcceptMsg(p) \/ OnEnd(p)
    \/ DropChunk(p) \/ WriteChunk(p) \/ CountChunk(p)
-----------------------------------------------------------------------------
(* startSendingLoop, on the file queue.                                    *)

At(p, pc) == loop[p].pc = pc
Goto(p, pc) == loop' = [loop EXCEPT ![p] = [@ EXCEPT !.pc = pc]]
Leave(p) == loop' = [loop EXCEPT ![p] = [pc |-> "idle", chunk |-> None]]

\* mutant: the last chunk is not waited for
WhileTestEarly(p, sent) ==
    IF ~transferCancelled[p] /\ sent + ChunkSize <= sendTotalBytes[p] THEN "read" ELSE "end"

\* Where the test of the outer while sends the loop, given the bytes sent.
WhileTest(p, sent) ==
    IF ~transferCancelled[p] /\ sent < sendTotalBytes[p] THEN "read" ELSE "end"

LoopStart(p) ==
    /\ At(p, "idle")
    /\ fileQ[p] > 0
    /\ fileQ' = [fileQ EXCEPT ![p] = @ - 1]
    /\ IF sendHandle[p] = None THEN Leave(p) ELSE Goto(p, WhileTest(p, sendBytesSent[p]))
    /\ UNCHANGED <<sendState, recvState, transferCancelled, ui, mainQ, rtcWritten, channelOpen,
                   chan, disk, history, bounds>>

\* The channel is closed: the transfer ends here.
LoopClosed(p) ==
    /\ At(p, "read")
    /\ ~channelOpen
    /\ Post(p, <<Cleanup("error")>>)
    /\ Leave(p)
    /\ UNCHANGED <<sendState, recvState, transferCancelled, ui, fileQ, rtcWritten, channelOpen,
                   chan, disk, history, bounds>>

ChunkLen(h) == IF h.file.size - h.pos < ChunkSize THEN h.file.size - h.pos ELSE ChunkSize

NotAdvanced(h) == h                \* mutant: the chunk is read again

\* The handle after a chunk is read from it.
Advanced(h) == [h EXCEPT !.pos = @ + ChunkLen(h)]

RetryEmptyRead == "read"           \* mutant: continue in place of break
SendEmptyRead == "push"            \* mutant: no test of chunk.length

\* Where an empty read sends the loop: out of it.
AfterEmptyRead == "end"

\* readDataUpToLength of whatever file sendHandle is now; nil reads nothing.
LoopRead(p) ==
    LET h == sendHandle[p] IN
    /\ At(p, "read")
    /\ channelOpen
    /\ IF h = None \/ ChunkLen(h) = 0
       THEN Goto(p, AfterEmptyRead) /\ UNCHANGED sendHandle
       ELSE /\ loop' = [loop EXCEPT ![p] = [pc |-> "push", chunk |->
                  [t |-> "chunk", file |-> h.file, off |-> h.pos, len |-> ChunkLen(h)]]]
            /\ sendHandle' = [sendHandle EXCEPT ![p] = Advanced(h)]
    /\ UNCHANGED <<sendTotalBytes, sendBytesSent, recvState, transferCancelled, ui, mainQ, fileQ,
                   rtcWritten, channelOpen, chan, disk, history, bounds>>

\* A read error, or a file shorter than it was, ends the loop early.
LoopReadFails(p) ==
    /\ At(p, "read")
    /\ channelOpen
    /\ Fault
    /\ Goto(p, "end")
    /\ UNCHANGED <<sendState, recvState, transferCancelled, ui, mainQ, fileQ, rtcWritten,
                   channelOpen, chan, disk, history>>

LoopPush(p) ==
    /\ At(p, "push")
    /\ channelOpen /\ ~transferCancelled[p]
    /\ chan' = SendTo(chan, p, <<loop[p].chunk>>)
    /\ Goto(p, "count")
    /\ UNCHANGED <<sendState, recvState, transferCancelled, ui, mainQ, fileQ, rtcWritten,
                   channelOpen, disk, history, bounds>>

\* Not sent: cancelled or closed meanwhile, or (a fault) 120 retries in vain.
LoopPushFails(p) ==
    /\ At(p, "push")
    /\ \/ (transferCancelled[p] \/ ~channelOpen) /\ UNCHANGED bounds
       \/ channelOpen /\ ~transferCancelled[p] /\ Fault
    /\ Post(p, <<Cleanup("error")>>)
    /\ Leave(p)
    /\ UNCHANGED <<sendState, recvState, transferCancelled, ui, fileQ, rtcWritten, channelOpen,
                   chan, disk, history>>

LoopCount(p) ==
    LET sent == sendBytesSent[p] + loop[p].chunk.len IN
    /\ At(p, "count")
    /\ sendBytesSent' = [sendBytesSent EXCEPT ![p] = sent]
    /\ loop' = [loop EXCEPT ![p] = [pc |-> WhileTest(p, sent), chunk |-> None]]
    /\ UNCHANGED <<sendHandle, sendTotalBytes, recvState, transferCancelled, ui, mainQ, fileQ,
                   rtcWritten, channelOpen, chan, disk, history, bounds>>

\* After the loop: nothing more if cancelled, else done or ended early.
LoopEnd(p) ==
    LET all == sendBytesSent[p] >= sendTotalBytes[p] IN
    /\ At(p, "end")
    /\ Leave(p)
    /\ IF transferCancelled[p] THEN UNCHANGED <<chan, mainQ>>
       ELSE /\ chan' = IF all THEN SendTo(chan, p, <<[t |-> "ft_done"]>>) ELSE chan
            /\ Post(p, <<Cleanup(IF all THEN "done" ELSE "error")>>)
    /\ UNCHANGED <<sendState, recvState, transferCancelled, ui, fileQ, rtcWritten, channelOpen,
                   disk, history, bounds>>

Loop(p) ==
    \/ LoopStart(p) \/ LoopClosed(p) \/ LoopRead(p) \/ LoopPush(p)
    \/ LoopPushFails(p) \/ LoopCount(p) \/ LoopEnd(p)
-----------------------------------------------------------------------------
(* The connection fails.                                                   *)

\* ICE is disconnected (it may recover), failed or closed.
IceDown(p) ==
    /\ Fault
    /\ Post(p, <<[b |-> "iceDown"]>>)
    /\ UNCHANGED <<sendState, recvState, transferCancelled, ui, fileState, rtcWritten,
                   channelOpen, chan, disk, history>>

\* The data channel closes, and what was under way is lost; the app is only
\* notified.
ChannelCloses ==
    /\ channelOpen
    /\ Fault
    /\ channelOpen' = FALSE
    /\ chan' = [p \in Peers |-> <<>>]
    /\ UNCHANGED <<sendState, recvState, transferCancelled, ui, mainQ, fileState, rtcWritten,
                   disk, history>>
-----------------------------------------------------------------------------
User(p) ==
    \/ p \in Senders /\ \E n \in Sizes : SendFile(p, n)
    \/ CancelFileTransfer(p)
    \/ OnAccept(p) \/ OpenDestination(p) \/ AcceptIgnored(p)
    \/ OnReject(p) \/ PanelDismissed(p)

Failure(p) == AcceptFails(p) \/ WriteFails(p) \/ LoopReadFails(p) \/ IceDown(p)

Next ==
    \/ \E p \in Peers : User(p) \/ Main(p) \/ Rtc(p) \/ Loop(p) \/ Failure(p)
    \/ ChannelCloses

Spec == Init /\ [][Next]_vars

\* The three threads of each app keep running; users and faults need not act.
ThreadFairness ==
    \A p \in Peers : WF_vars(Main(p)) /\ WF_vars(Rtc(p)) /\ WF_vars(Loop(p))

FairSpec == Spec /\ ThreadFairness

\* A user who is shown an offer opens a panel and confirms it.
WillingUser ==
    \A p \in Peers : WF_vars(OnAccept(p)) /\ WF_vars(OpenDestination(p))
-----------------------------------------------------------------------------
(* The Delivery this implements.                                           *)

BytesIn(chunks) ==
    LET sum[n \in 0..Len(chunks)] == IF n = 0 THEN 0 ELSE sum[n - 1] + chunks[n].len
    IN  sum[Len(chunks)]

\* Bytes of file data under way to p.
BytesUnderWay(p) == BytesIn(SelectSeq(chan[p], LAMBDA m : m.t = "chunk"))

\* The sum over the two apps.
Both(bytes(_)) == LET p == CHOOSE x \in Peers : TRUE IN bytes(p) + bytes(Other(p))

\* A user aborted, something failed, or it is no longer the first transfer: what
\* is late of one transfer acts on the next.
Disturbed == aborts > 0 \/ faults > 0 \/ offers > 1

OfferedSize ==
    IF offers = 0 THEN 0
    ELSE (CHOOSE f \in {current[p] : p \in Peers} \ {None} : TRUE).size

\* How an end that has begun or not stands, given that it has a file open or not.
End(begun, open) == IF ~begun THEN "idle" ELSE IF open THEN "busy" ELSE "done"

D == INSTANCE Delivery WITH
        size      <- OfferedSize,
        sender    <- End(offers > 0, \E p \in Peers : sendHandle[p] # None),
        receiver  <- End(accepted # {}, \E p \in Peers : recvHandle[p]),
        sent      <- Both(LAMBDA p : BytesIn(disk[p]) + BytesUnderWay(p)),
        arrived   <- Both(LAMBDA p : BytesIn(disk[p])),
        disturbed <- Disturbed

\* A first transfer implements Delivery until something disturbs it: nothing is
\* sent before the accept, and each end ends its transfer, by its own byte count
\* or the other's ft_done, only when the whole file was sent or has arrived.
ImplementsDelivery == D!Spec
-----------------------------------------------------------------------------
(* Safety.                                                                 *)

\* Bytes reach the destination file in file order and never twice, even when a
\* loop of a cancelled transfer goes on while the next one is set up.
WrittenInOrder ==
    \A p \in Peers : \A i \in 1..(Len(disk[p]) - 1) :
        LET a == disk[p][i]
            b == disk[p][i + 1]
        IN  a.file.id < b.file.id \/ (a.file = b.file /\ a.off + a.len <= b.off)

\* While the destination is open, recvBytesReceived is what has been written to it
\* but for the chunks that were counted before the accept zeroed the count (529 to
\* 530 of RTCClient.m): no cleanup, offer or accept between the write and the count
\* of a chunk loses more, and none carries a count into the next file, so a
\* receiver never ends a transfer by its count before it has so many bytes.
ReceiveAccounting ==
    \A p \in Peers : recvHandle[p] =>
        recvBytesReceived[p] + rtcWritten[p] + wiped[p] = BytesIn(disk[p])

\* In a first transfer the accept zeroes nothing: until a second file is offered no
\* chunk can reach the receiver before its ft_accept is sent.
FirstCountWhole == offers <= 1 => \A p \in Peers : wiped[p] = 0

\* Nothing runs that the user cannot stop: an open source has its cancel button,
\* an open destination its receiving panel or the reject button as soon as the
\* main thread is free for a click, through every order of queued cleanups, late
\* offers and progress reports.
Stoppable ==
    \A p \in Peers :
        /\ sendHandle[p] # None => isSending[p]
        /\ recvHandle[p] /\ MainFree(p) => overlayShown[p] \/ offerShown[p]

\* The receiving panel stays or comes back with no file being received only when
\* a save panel is confirmed too late: until something disturbs the first
\* transfer, no progress report overtakes the cleanup that ends it.
NoGhostPanel ==
    [][\A p \in Peers :
        overlayShown'[p] /\ ~recvHandle'[p] =>
            \/ overlayShown[p] /\ ~recvHandle[p]
            \/ savePanels'[p] < savePanels[p]
            \/ Disturbed']_vars

\* All of the file is at the receiver, or under way to it.
Delivered(file) ==
    \/ file \in saved
    \/ \E p \in Peers : Covers({c \in OnDisk(disk[p]) \cup OnDisk(chan[p]) : c.t = "chunk"}, file)

\* fileTransferDidFinishWithError:nil is called on p.
ReportsSuccess(p) ==
    /\ NextBlock(p, "cleanup")
    /\ Head(mainQ[p]).outcome = "done"
    /\ mainQ'[p] = Tail(mainQ[p])

\* An app that reports success has delivered, or received, the file of its last
\* transfer (RTCClient.h:45: a nil error means success).
SuccessMeansDelivered ==
    [][\A p \in Peers : ReportsSuccess(p) /\ current[p] # None => Delivered(current[p])]_vars
-----------------------------------------------------------------------------
(* Liveness.                                                               *)

\* The serial file queue never hangs: every sending loop ends, whatever cleanups,
\* cancels and new transfers do to the fields it reads.
LoopTerminates == \A p \in Peers : ~At(p, "idle") ~> At(p, "idle")

\* A cancelled transfer gives the user the send button back.
CancelTakesEffect ==
    \A p \in Peers : (transferCancelled[p] /\ isSending[p]) ~> ~isSending[p]

\* A first file that is offered to a willing user, and that nothing disturbs,
\* arrives, and both apps are idle again.
TransferCompletes ==
    WillingUser => \A p \in Peers : (sendHandle[p] # None) ~>
        \/ Disturbed
        \/ /\ current[p] \in saved
           /\ \A q \in Peers : sendHandle[q] = None /\ ~recvHandle[q] /\ ~isSending[q]
=============================================================================
