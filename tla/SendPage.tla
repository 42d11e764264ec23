------------------------------ MODULE SendPage ------------------------------
(***************************************************************************)
(* The send page of one app (HXSendViewController.m) and the container     *)
(* behind it: the list of online peers and its selection, the chosen file, *)
(* the pending send, and what reaches them from RTCClient.                 *)
(*                                                                         *)
(* Everything here runs on the main thread, one event or block at a time.  *)
(* The socket's queue and WebRTC's thread change RTCClient's data channel  *)
(* at once but tell the page by blocks of the main queue, so a block may   *)
(* say what is no longer so.  applyOnlinePeers is cut where the table may  *)
(* call back into the page, which it does as if the user had clicked.      *)
(*                                                                         *)
(* Rows count from 1; 0 is no row (-1 in the code).  Labels, alerts, which *)
(* page is in front and the acknowledgement of a refresh (a label) are     *)
(* left out.                                                               *)
(***************************************************************************)
EXTENDS Naturals, Sequences

CONSTANTS Keys,          \* addresses of the other devices
          None,          \* nil
          MaxPeers,      \* bound: devices in one list
          MaxQueue       \* bound: blocks in the main queue

ASSUME KeysAssumption == None \notin Keys
ASSUME BoundsAssumption == {MaxPeers, MaxQueue} \subseteq Nat

VARIABLES
    \* HXSendViewController
    onlinePeers, selectedPeerRow,
    suppressPeerSelectActions,
    restoring,           \* applyOnlinePeers is about to select the row in the table
    selectedFile,        \* "none", "file" or "folder"
    isSending, sendEnabled, peerConnectedFlag,
    \* the container
    pendingAutoSend, pendingPeerIP,
    \* RTCClient
    dataChannel,         \* the readyState of its data channel, or "nil"
    replaced,            \* a channel it used before still calls its delegate
    sendHandle,          \* whether it is sending a file
    \* the main queue
    mainQ,
    \* history
    request,             \* the target of the pair_request sent by the last step
    lastPick             \* the peer the user last clicked

list    == <<onlinePeers, selectedPeerRow, suppressPeerSelectActions, restoring>>
pending == <<pendingAutoSend, pendingPeerIP>>
sending == <<isSending, sendEnabled, sendHandle>>
rtc     == <<dataChannel, replaced>>

vars == <<list, selectedFile, sending, peerConnectedFlag, pending, rtc, mainQ, request, lastPick>>
-----------------------------------------------------------------------------
\* The server's Map has a key once.
Lists == {s \in UNION {[1..n -> Keys] : n \in 0..MaxPeers} :
             \A i, j \in DOMAIN s : s[i] = s[j] => i = j}

States == {"connecting", "open", "closed"}

PeersBlock(peers) == [b |-> "peers", peers |-> peers]
StateBlock(state) == [b |-> "state", state |-> state]
FinishBlock == [b |-> "finish"]

TypeOK ==
    /\ onlinePeers \in Seq(Keys) /\ selectedPeerRow \in 0..Len(onlinePeers)
    /\ selectedFile \in {"none", "file", "folder"}
    /\ {suppressPeerSelectActions, restoring} \subseteq BOOLEAN
    /\ {isSending, sendEnabled, peerConnectedFlag, sendHandle, replaced} \subseteq BOOLEAN
    /\ pendingAutoSend \in BOOLEAN /\ pendingPeerIP \in Keys \cup {None}
    /\ dataChannel \in States \cup {"nil"}
    /\ mainQ \in Seq([b : {"peers"}, peers : Seq(Keys)] \cup [b : {"state"}, state : States]
                        \cup {FinishBlock})
    /\ request \in Keys \cup {None} /\ lastPick \in Keys \cup {None}

Init ==
    /\ onlinePeers = <<>> /\ selectedPeerRow = 0
    /\ suppressPeerSelectActions = FALSE /\ restoring = FALSE
    /\ selectedFile = "none"
    /\ isSending = FALSE /\ sendEnabled = FALSE /\ peerConnectedFlag = FALSE
    /\ pendingAutoSend = FALSE /\ pendingPeerIP = None
    /\ dataChannel = "nil" /\ replaced = FALSE /\ sendHandle = FALSE
    /\ mainQ = <<>>
    /\ request = None /\ lastPick = None
-----------------------------------------------------------------------------
IsDataChannelOpen == dataChannel = "open"

CurrentSelectedPeerIP == IF selectedPeerRow = 0 THEN None ELSE onlinePeers[selectedPeerRow]

\* connectToPeerIP, with what the container notes before it.
Connect(ip) ==
    /\ pendingPeerIP' = ip
    /\ pendingAutoSend' = TRUE
    /\ request' = ip

NoRequest == request' = None

\* Whether onSelectPeerIP goes on to connect: not to the device it is already
\* connecting to, not without a file, not while a channel is open.
Connects(ip) ==
    /\ ~(pendingAutoSend /\ pendingPeerIP = ip)
    /\ selectedFile = "file"
    /\ ~IsDataChannelOpen

OnSelectPeerIP(ip) == IF Connects(ip) THEN Connect(ip) ELSE NoRequest /\ UNCHANGED pending

\* tableViewSelectionDidChange, when the selected row of the table is now row.
SelectionDidChange(row) ==
    /\ selectedPeerRow' = row
    /\ IF suppressPeerSelectActions \/ row = 0
       THEN NoRequest /\ UNCHANGED pending
       ELSE OnSelectPeerIP(onlinePeers[row])

StaleEnabledState(file, busy) == UNCHANGED sendEnabled      \* mutant: not refreshed

RefreshEnabledState(file, busy) == sendEnabled' = (file = "file" /\ ~busy)

SetSendingInProgress(busy) ==
    /\ isSending' = busy
    /\ RefreshEnabledState(selectedFile, busy)
-----------------------------------------------------------------------------
(* The user.                                                               *)

\* The main thread can take an event or a block.
MainFree == ~restoring

\* A click on another row, or beside the rows.
SelectRow(row) ==
    /\ MainFree
    /\ row # selectedPeerRow
    /\ SelectionDidChange(row)
    /\ lastPick' = IF row = 0 THEN lastPick ELSE onlinePeers[row]
    /\ UNCHANGED <<onlinePeers, suppressPeerSelectActions, restoring, selectedFile, sending,
                   peerConnectedFlag, rtc, mainQ>>

\* A panel of onChooseFile or onChooseFolder is confirmed, or the file cleared.
\* A choice also brings the connection flag up to date.
SetSelectedFile(file) ==
    /\ MainFree
    /\ selectedFile' = file
    /\ RefreshEnabledState(file, isSending)
    /\ peerConnectedFlag' = IF file = "none" THEN peerConnectedFlag ELSE IsDataChannelOpen
    /\ NoRequest
    /\ UNCHANGED <<list, isSending, sendHandle, pending, rtc, mainQ, lastPick>>

\* sendFileAtURL: starts, or refuses because a transfer is going on, the file is
\* empty or it cannot be opened.
SendFileAtURL ==
    /\ \/ ~sendHandle /\ sendHandle' = TRUE /\ SetSendingInProgress(TRUE)
       \/ UNCHANGED sending
    /\ NoRequest

\* onSend of the container, with the pending peer it finds; how it leaves the
\* pending send when it does not connect is up to its caller.
OnSend(peer, rest) ==
    LET target == IF peer # None THEN peer ELSE CurrentSelectedPeerIP IN
    IF selectedFile # "file" \/ (~IsDataChannelOpen /\ target = None)
    THEN NoRequest /\ rest /\ UNCHANGED sending
    ELSE IF IsDataChannelOpen THEN SendFileAtURL /\ rest
    ELSE Connect(target) /\ UNCHANGED sending

OnSendTap ==
    /\ MainFree
    /\ sendEnabled
    /\ OnSend(pendingPeerIP, UNCHANGED pending)
    /\ UNCHANGED <<list, selectedFile, peerConnectedFlag, rtc, mainQ, lastPick>>
-----------------------------------------------------------------------------
(* Blocks of the main queue.                                               *)

NextBlock(b) == MainFree /\ mainQ # <<>> /\ Head(mainQ).b = b
TakeBlock == mainQ' = Tail(mainQ)

\* mutant: the row is kept, whoever is now in it
KeptRow(peers, ip) == IF selectedPeerRow <= Len(peers) THEN selectedPeerRow ELSE 0

\* mutant: the search runs off the end of the list
RowPastEnd(peers, ip) ==
    IF \E i \in DOMAIN peers : peers[i] = ip
    THEN CHOOSE i \in DOMAIN peers : peers[i] = ip ELSE Len(peers) + 1

\* The row of ip in the new list, 0 if it is not there.
RowOf(peers, ip) ==
    IF \E i \in DOMAIN peers : peers[i] = ip
    THEN CHOOSE i \in DOMAIN peers : peers[i] = ip ELSE 0

\* applyOnlinePeers, up to the table: the list is replaced, the selection follows
\* its peer to its new row, and the flag is set.
DidUpdateOnlinePeers ==
    LET peers == Head(mainQ).peers IN
    /\ NextBlock("peers")
    /\ TakeBlock
    /\ onlinePeers' = peers
    /\ selectedPeerRow' = RowOf(peers, CurrentSelectedPeerIP)
    /\ suppressPeerSelectActions' = TRUE
    /\ restoring' = TRUE
    /\ NoRequest
    /\ UNCHANGED <<selectedFile, sending, peerConnectedFlag, pending, rtc, lastPick>>

\* mutant: the flag is left set
RestoreHolding ==
    /\ restoring
    /\ SelectionDidChange(selectedPeerRow)
    /\ restoring' = FALSE
    /\ UNCHANGED <<onlinePeers, suppressPeerSelectActions, selectedFile, sending,
                   peerConnectedFlag, rtc, mainQ, lastPick>>

\* The rest of it: the row is selected in the table, which reports a change unless
\* the reload has kept its selection, and the flag is cleared.
RestoreSelection ==
    /\ restoring
    /\ \/ SelectionDidChange(selectedPeerRow)
       \/ NoRequest /\ UNCHANGED <<selectedPeerRow, pending>>
    /\ suppressPeerSelectActions' = FALSE
    /\ restoring' = FALSE
    /\ UNCHANGED <<onlinePeers, selectedFile, sending, peerConnectedFlag, rtc, mainQ, lastPick>>

\* mutant: the state the block was posted with is shown
ShownState == Head(mainQ).state = "open"

\* updateConnectionState looks at the channel itself.
UpdateConnectionState == IsDataChannelOpen

\* dataChannelStateDidChange: the flag is brought up to date, and a pending send
\* is made when the block SAYS open.
DataChannelStateDidChange ==
    /\ NextBlock("state")
    /\ TakeBlock
    /\ peerConnectedFlag' = UpdateConnectionState
    /\ IF Head(mainQ).state = "open" /\ pendingAutoSend
       THEN OnSend(None, pendingAutoSend' = FALSE /\ pendingPeerIP' = None)
       ELSE NoRequest /\ UNCHANGED <<pending, sending>>
    /\ UNCHANGED <<list, selectedFile, rtc, lastPick>>

\* The block of cleanupTransferWithError, and fileTransferDidFinishWithError.
TransferDidFinish ==
    /\ NextBlock("finish")
    /\ TakeBlock
    /\ sendHandle' = FALSE
    /\ SetSendingInProgress(FALSE)
    /\ NoRequest
    /\ UNCHANGED <<list, selectedFile, peerConnectedFlag, pending, rtc, lastPick>>

MainBlock ==
    \/ DidUpdateOnlinePeers \/ RestoreSelection
    \/ DataChannelStateDidChange \/ TransferDidFinish
-----------------------------------------------------------------------------
(* The socket's queue and WebRTC's thread.                                 *)

Post(block) ==
    /\ Len(mainQ) < MaxQueue
    /\ mainQ' = Append(mainQ, block)
    /\ NoRequest
    /\ UNCHANGED <<list, selectedFile, sending, peerConnectedFlag, pending, lastPick>>

\* receiveSignal: peers.
ReceivePeers(peers) == Post(PeersBlock(peers)) /\ UNCHANGED rtc

\* receiveSignal: peer_joined, as the offerer.  The page is not told.
CreateChannel ==
    /\ dataChannel' = "connecting"
    /\ replaced' = (replaced \/ dataChannel \in {"connecting", "open"})
    /\ NoRequest
    /\ UNCHANGED <<list, selectedFile, sending, peerConnectedFlag, pending, mainQ, lastPick>>

OpensSilently(state) == Post(StateBlock("closed"))   \* mutant: told only of the other end

\* The page is told of a new state of a channel.
TellState(state) == Post(StateBlock(state))

\* didOpenDataChannel: the peer's channel is taken unless an open one is in use,
\* and said to be open whether it is yet or not.
DidOpenDataChannel(state) ==
    /\ ~IsDataChannelOpen
    /\ dataChannel' = state
    /\ replaced' = (replaced \/ dataChannel = "connecting")
    /\ Post(StateBlock("open"))

\* dataChannelDidChangeState of the channel in use.
DidChangeState(state) ==
    /\ \/ dataChannel = "connecting" /\ state \in {"open", "closed"}
       \/ dataChannel = "open" /\ state = "closed"
    /\ dataChannel' = state
    /\ UNCHANGED replaced
    /\ TellState(state)

\* peer_left or a failing ICE connection says closed, whatever the channel does;
\* a replaced channel goes on to tell of itself.
OtherNotice(state) ==
    /\ state = "closed" \/ (replaced /\ state = "open")
    /\ Post(StateBlock(state))
    /\ UNCHANGED rtc

\* cleanupTransferWithError, from any thread, the cancel button included.
CleanupTransfer == Post(FinishBlock) /\ UNCHANGED rtc
-----------------------------------------------------------------------------
User ==
    \/ \E row \in 0..Len(onlinePeers) : SelectRow(row)
    \/ \E file \in {"none", "file", "folder"} : SetSelectedFile(file)
    \/ OnSendTap

Background ==
    \/ \E peers \in Lists : ReceivePeers(peers)
    \/ CreateChannel
    \/ \E state \in {"connecting", "open"} : DidOpenDataChannel(state)
    \/ \E state \in States : DidChangeState(state) \/ OtherNotice(state)
    \/ CleanupTransfer

Next == User \/ MainBlock \/ Background

Spec == Init /\ [][Next]_vars
-----------------------------------------------------------------------------
(* Properties.                                                             *)

\* The selected row shows the peer the user clicked, or nothing: however lists
\* are reordered, shortened or replaced by applyOnlinePeers, onSend never takes a
\* device the user did not click for its target.
SelectionIsLastPick == CurrentSelectedPeerIP \in {None, lastPick}

\* The table reports a click and a selection that applyOnlinePeers restores in the
\* same way, and the page tells them apart whatever lists came before: no list
\* update sends a pair_request (HXSendViewController.m 153), and no click that
\* should send one is taken for a list update.
NoticesToldApart ==
    [][/\ restoring \/ restoring' => request' = None
       /\ \A row \in 1..Len(onlinePeers) :
            SelectRow(row) /\ Connects(onlinePeers[row]) => request' = onlinePeers[row]]_vars

\* A send that waits for its channel is not forgotten: when the channel in use is
\* open, the block that will make the send is queued.
PendingNotForgotten ==
    pendingAutoSend /\ IsDataChannelOpen =>
        \E i \in DOMAIN mainQ : mainQ[i] = StateBlock("open")

\* When no notice is under way the page shows the state of the channel in use,
\* although notices are late, are of other channels, or say closed while the
\* channel is open.  (Of a channel still connecting nobody is told.)
FlagCurrent ==
    /\ dataChannel # "connecting"
    /\ \A i \in DOMAIN mainQ : mainQ[i].b # "state"
    => peerConnectedFlag = IsDataChannelOpen

\* The send button is live exactly when a file is chosen and RTCClient has no
\* other file open for sending.
SendButtonCurrent == sendEnabled = (selectedFile = "file" /\ ~sendHandle)
=============================================================================
