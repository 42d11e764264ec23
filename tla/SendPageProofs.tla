--------------------------- MODULE SendPageProofs ---------------------------
(***************************************************************************)
(* The send page, for every set of devices, lists of any length and a main *)
(* queue of any length: the selection stays the user's, a pending send is  *)
(* not forgotten, and the send button is live exactly when it should be.   *)
(***************************************************************************)
EXTENDS SendPage, TLAPS

Blocks == [b : {"peers"}, peers : Seq(Keys)] \cup [b : {"state"}, state : States] \cup {FinishBlock}

\* The type invariant in three parts: the flags, the list with its selection,
\* and the rest.
Flags ==
    /\ isSending \in BOOLEAN /\ sendEnabled \in BOOLEAN /\ peerConnectedFlag \in BOOLEAN
    /\ sendHandle \in BOOLEAN /\ replaced \in BOOLEAN /\ pendingAutoSend \in BOOLEAN
    /\ suppressPeerSelectActions \in BOOLEAN /\ restoring \in BOOLEAN

ListOK == onlinePeers \in Seq(Keys) /\ selectedPeerRow \in 0..Len(onlinePeers)

RestOK ==
    /\ selectedFile \in {"none", "file", "folder"}
    /\ pendingPeerIP \in Keys \cup {None}
    /\ dataChannel \in States \cup {"nil"}
    /\ mainQ \in Seq(Blocks)
    /\ request \in Keys \cup {None} /\ lastPick \in Keys \cup {None}

\* What makes the button's state inductive: the page and RTCClient agree on
\* whether a file is being sent.
ButtonOK == isSending = sendHandle /\ SendButtonCurrent

\* What tells a click from a restored selection: the flag is set exactly while
\* applyOnlinePeers is at work in the table.
SuppressOK == suppressPeerSelectActions = restoring

IInv ==
    /\ Flags /\ ListOK /\ RestOK
    /\ SuppressOK /\ ButtonOK /\ SelectionIsLastPick /\ PendingNotForgotten /\ FlagCurrent
-----------------------------------------------------------------------------
(* Helpers.                                                                *)

\* The selected peer is a key, or nil when no row is selected.
LEMMA SelectedIsKey ==
    ASSUME ListOK
    PROVE  /\ CurrentSelectedPeerIP \in Keys \cup {None}
           /\ selectedPeerRow # 0 => CurrentSelectedPeerIP \in Keys
BY DEF ListOK, CurrentSelectedPeerIP

\* The search of applyOnlinePeers finds the peer it looks for, or nothing.
LEMMA RowFound ==
    ASSUME NEW peers \in Seq(Keys), NEW ip \in Keys \cup {None}
    PROVE  /\ RowOf(peers, ip) \in 0..Len(peers)
           /\ RowOf(peers, ip) # 0 => peers[RowOf(peers, ip)] = ip
<1>1. CASE \E i \in DOMAIN peers : peers[i] = ip
  <2> DEFINE r == CHOOSE i \in DOMAIN peers : peers[i] = ip
  <2>1. r \in DOMAIN peers /\ peers[r] = ip
    BY <1>1
  <2>2. RowOf(peers, ip) = r
    BY <1>1 DEF RowOf
  <2> HIDE DEF r
  <2>3. r \in 1..Len(peers)
    BY <2>1
  <2> QED
    BY <2>1, <2>2, <2>3
<1>2. CASE ~\E i \in DOMAIN peers : peers[i] = ip
  BY <1>2 DEF RowOf
<1> QED
  BY <1>1, <1>2

\* A block at the head of the queue has its kind's fields, and the rest is a queue.
LEMMA HeadTyped ==
    ASSUME mainQ \in Seq(Blocks), mainQ # <<>>
    PROVE  /\ Head(mainQ) \in Blocks /\ Tail(mainQ) \in Seq(Blocks)
           /\ Head(mainQ).b = "peers" => Head(mainQ).peers \in Seq(Keys)
<1>1. Head(mainQ) \in Blocks /\ Tail(mainQ) \in Seq(Blocks)
  OBVIOUS
<1>2. ASSUME NEW x \in Blocks, x.b = "peers" PROVE x.peers \in Seq(Keys)
  BY <1>2 DEF Blocks, FinishBlock
<1> QED
  BY <1>1, <1>2

\* Posting a block keeps the open notice that is queued; so does taking another.
LEMMA OpenStays ==
    ASSUME mainQ \in Seq(Blocks), NEW x \in Blocks
    PROVE  /\ Append(mainQ, x) \in Seq(Blocks)
           /\ (\E i \in DOMAIN mainQ : mainQ[i] = StateBlock("open")) =>
                \E i \in DOMAIN Append(mainQ, x) : Append(mainQ, x)[i] = StateBlock("open")
           /\ x = StateBlock("open") =>
                \E i \in DOMAIN Append(mainQ, x) : Append(mainQ, x)[i] = StateBlock("open")
<1> DEFINE q == Append(mainQ, x)
<1>1. /\ q \in Seq(Blocks) /\ DOMAIN q = 1..(Len(mainQ) + 1)
      /\ \A i \in DOMAIN mainQ : i \in DOMAIN q /\ q[i] = mainQ[i]
      /\ Len(mainQ) + 1 \in DOMAIN q /\ q[Len(mainQ) + 1] = x
  OBVIOUS
<1> QED
  BY <1>1

\* An open notice that is queued is still queued when another block is taken.
LEMMA OpenNotTaken ==
    ASSUME mainQ \in Seq(Blocks), mainQ # <<>>, Head(mainQ) # StateBlock("open"),
           \E i \in DOMAIN mainQ : mainQ[i] = StateBlock("open")
    PROVE  \E i \in DOMAIN Tail(mainQ) : Tail(mainQ)[i] = StateBlock("open")
<1>1. PICK i \in DOMAIN mainQ : mainQ[i] = StateBlock("open")
  OBVIOUS
<1>2. i \in 1..Len(mainQ) /\ i # 1
  BY <1>1
<1>3. i - 1 \in DOMAIN Tail(mainQ) /\ Tail(mainQ)[i - 1] = mainQ[i]
  BY <1>2
<1> QED
  BY <1>1, <1>3
-----------------------------------------------------------------------------
(* What the operators the actions share do to the invariant's parts.       *)

\* Whatever becomes of a click or of a send, the pending peer and the request are
\* keys or nil, and a send becomes pending only while no channel is open.
LEMMA PickTyped ==
    ASSUME NEW ip \in Keys, RestOK, Flags, OnSelectPeerIP(ip)
    PROVE  /\ pendingAutoSend' \in BOOLEAN
           /\ pendingPeerIP' \in Keys \cup {None} /\ request' \in Keys \cup {None}
           /\ IsDataChannelOpen => pendingAutoSend' = pendingAutoSend
BY DEF OnSelectPeerIP, Connects, Connect, NoRequest, RestOK, Flags, pending

\* tableViewSelectionDidChange leaves the row it was told, and what a pick leaves.
LEMMA SelectionTyped ==
    ASSUME onlinePeers \in Seq(Keys), NEW row \in 0..Len(onlinePeers),
           RestOK, Flags, SelectionDidChange(row)
    PROVE  /\ selectedPeerRow' = row
           /\ pendingAutoSend' \in BOOLEAN
           /\ pendingPeerIP' \in Keys \cup {None} /\ request' \in Keys \cup {None}
           /\ IsDataChannelOpen => pendingAutoSend' = pendingAutoSend
<1>1. CASE suppressPeerSelectActions \/ row = 0
  BY <1>1 DEF SelectionDidChange, NoRequest, pending, RestOK, Flags
<1>2. CASE ~(suppressPeerSelectActions \/ row = 0)
  <2>1. /\ onlinePeers[row] \in Keys /\ OnSelectPeerIP(onlinePeers[row])
        /\ selectedPeerRow' = row
    BY <1>2 DEF SelectionDidChange
  <2> QED
    BY <2>1, PickTyped
<1> QED
  BY <1>1, <1>2

\* The page's isSending follows RTCClient's handle through sendFileAtURL.
LEMMA SendKeepsButton ==
    ASSUME Flags, ButtonOK, SendFileAtURL \/ UNCHANGED sending, selectedFile' = selectedFile
    PROVE  /\ ButtonOK'
           /\ isSending' \in BOOLEAN /\ sendEnabled' \in BOOLEAN /\ sendHandle' \in BOOLEAN
<1>1. CASE UNCHANGED sending
  <2>1. isSending' = isSending /\ sendEnabled' = sendEnabled /\ sendHandle' = sendHandle
    BY <1>1 DEF sending
  <2> QED
    BY <2>1, Zenon DEF Flags, ButtonOK, SendButtonCurrent
<1>2. CASE sendHandle' = TRUE /\ SetSendingInProgress(TRUE)
  <2>1. isSending' = TRUE /\ sendHandle' = TRUE /\ sendEnabled' = FALSE
    BY <1>2 DEF SetSendingInProgress, RefreshEnabledState
  <2> QED
    BY <2>1, Zenon DEF ButtonOK, SendButtonCurrent
<1> QED
  BY <1>1, <1>2 DEF SendFileAtURL

\* The frame of a step that leaves the list, its selection and the pick alone.
LEMMA ListFrame ==
    ASSUME ListOK, SelectionIsLastPick, SuppressOK, Flags, UNCHANGED list, lastPick' = lastPick
    PROVE  /\ ListOK' /\ SelectionIsLastPick' /\ SuppressOK'
           /\ suppressPeerSelectActions' \in BOOLEAN /\ restoring' \in BOOLEAN
BY DEF ListOK, SelectionIsLastPick, CurrentSelectedPeerIP, list, SuppressOK, Flags

\* The frame of a step that leaves the button and what it depends on alone.
LEMMA ButtonFrame ==
    ASSUME Flags, ButtonOK, UNCHANGED sending, selectedFile' = selectedFile
    PROVE  /\ ButtonOK'
           /\ isSending' \in BOOLEAN /\ sendEnabled' \in BOOLEAN /\ sendHandle' \in BOOLEAN
<1>1. isSending' = isSending /\ sendEnabled' = sendEnabled /\ sendHandle' = sendHandle
  BY DEF sending
<1> QED
  BY <1>1, Zenon DEF Flags, ButtonOK, SendButtonCurrent
-----------------------------------------------------------------------------
(* The user.                                                               *)

\* A click, and the request it may send.
LEMMA SelectRowStep ==
    ASSUME IInv, NEW row \in 0..Len(onlinePeers), SelectRow(row)
    PROVE  IInv'
<1> USE DEF IInv
<1>1. onlinePeers \in Seq(Keys) /\ SelectionDidChange(row)
  BY DEF ListOK, SelectRow
<1>2. /\ selectedPeerRow' = row
      /\ pendingAutoSend' \in BOOLEAN
      /\ pendingPeerIP' \in Keys \cup {None} /\ request' \in Keys \cup {None}
      /\ IsDataChannelOpen => pendingAutoSend' = pendingAutoSend
  BY <1>1, SelectionTyped
<1>3. ButtonOK' /\ Flags' /\ SuppressOK'
  <2>1. /\ UNCHANGED <<sending, peerConnectedFlag, replaced, selectedFile>>
        /\ UNCHANGED <<suppressPeerSelectActions, restoring>>
    BY DEF SelectRow, rtc
  <2> QED
    BY <1>2, <2>1, ButtonFrame DEF Flags, SuppressOK
<1>4. ListOK' /\ SelectionIsLastPick'
  BY <1>1, <1>2 DEF SelectRow, ListOK, SelectionIsLastPick, CurrentSelectedPeerIP
<1>5. RestOK'
  BY <1>1, <1>2 DEF SelectRow, RestOK, ListOK, rtc
<1>6. PendingNotForgotten'
  BY <1>2 DEF SelectRow, PendingNotForgotten, IsDataChannelOpen, rtc
<1>7. FlagCurrent'
  BY DEF SelectRow, FlagCurrent, IsDataChannelOpen, rtc
<1> QED
  BY <1>3, <1>4, <1>5, <1>6, <1>7

\* The choice of a file, which brings button and flag up to date.
LEMMA SetSelectedFileStep ==
    ASSUME IInv, NEW file \in {"none", "file", "folder"}, SetSelectedFile(file)
    PROVE  IInv'
<1> USE DEF IInv
<1>1. /\ ListOK' /\ SelectionIsLastPick' /\ SuppressOK'
      /\ suppressPeerSelectActions' \in BOOLEAN /\ restoring' \in BOOLEAN
  BY ListFrame DEF SetSelectedFile
<1>2. RestOK'
  BY DEF RestOK, SetSelectedFile, NoRequest, pending, rtc
<1>3. PendingNotForgotten'
  BY DEF PendingNotForgotten, IsDataChannelOpen, SetSelectedFile, pending, rtc
<1>4. Flags' /\ ButtonOK'
  BY <1>1, Zenon DEF Flags, ButtonOK, SendButtonCurrent, SetSelectedFile, RefreshEnabledState,
               IsDataChannelOpen, pending, rtc
<1>5. FlagCurrent'
  BY DEF SetSelectedFile, FlagCurrent, IsDataChannelOpen, rtc
<1> QED
  BY <1>1, <1>2, <1>3, <1>4, <1>5

\* The send button: send, connect or nothing, and connect only while no
\* channel is open.
LEMMA OnSendTapStep ==
    ASSUME IInv, OnSendTap
    PROVE  IInv'
<1> USE DEF IInv
<1>0. CurrentSelectedPeerIP \in Keys \cup {None}
  BY SelectedIsKey
<1>1. /\ ListOK' /\ SelectionIsLastPick' /\ SuppressOK'
      /\ suppressPeerSelectActions' \in BOOLEAN /\ restoring' \in BOOLEAN
  BY ListFrame DEF OnSendTap
<1>2. /\ SendFileAtURL \/ UNCHANGED sending
      /\ \/ UNCHANGED pending /\ request' = None
         \/ ~IsDataChannelOpen /\ \E ip \in Keys : Connect(ip)
  BY <1>0 DEF OnSendTap, OnSend, RestOK, NoRequest, SendFileAtURL
<1>3. ButtonOK' /\ Flags'
  <2>1. UNCHANGED <<peerConnectedFlag, replaced, selectedFile>>
    BY DEF OnSendTap, rtc
  <2>2. pendingAutoSend' \in BOOLEAN
    BY <1>2 DEF Connect, pending, Flags
  <2> QED
    BY <1>1, <1>2, <2>1, <2>2, SendKeepsButton DEF Flags
<1>4. RestOK'
  BY <1>2 DEF OnSendTap, RestOK, Connect, pending, rtc
<1>5. PendingNotForgotten'
  BY <1>2 DEF OnSendTap, PendingNotForgotten, IsDataChannelOpen, Connect, pending, rtc
<1>6. FlagCurrent'
  BY DEF OnSendTap, FlagCurrent, IsDataChannelOpen, rtc
<1> QED
  BY <1>1, <1>3, <1>4, <1>5, <1>6
-----------------------------------------------------------------------------
(* Blocks of the main queue.                                               *)

\* The frame of a block that is no open notice.
LEMMA BlockFrame ==
    ASSUME RestOK, PendingNotForgotten, mainQ # <<>>, mainQ' = Tail(mainQ),
           Head(mainQ) # StateBlock("open"), dataChannel' = dataChannel,
           IsDataChannelOpen => pendingAutoSend' = pendingAutoSend
    PROVE  PendingNotForgotten'
<1>1. CASE pendingAutoSend' /\ IsDataChannelOpen'
  <2>1. pendingAutoSend /\ IsDataChannelOpen
    BY <1>1 DEF IsDataChannelOpen
  <2>2. \E i \in DOMAIN Tail(mainQ) : Tail(mainQ)[i] = StateBlock("open")
    BY <2>1, OpenNotTaken DEF RestOK, PendingNotForgotten
  <2> QED
    BY <2>2 DEF PendingNotForgotten
<1> QED
  BY <1>1 DEF PendingNotForgotten

\* The frame of a block that is no notice of a state at all.
LEMMA FlagFrame ==
    ASSUME mainQ \in Seq(Blocks), FlagCurrent, mainQ # <<>>, mainQ' = Tail(mainQ),
           Head(mainQ).b # "state", UNCHANGED <<dataChannel, peerConnectedFlag>>
    PROVE  FlagCurrent'
<1>1. ASSUME \A i \in DOMAIN Tail(mainQ) : Tail(mainQ)[i].b # "state", NEW i \in DOMAIN mainQ
      PROVE  mainQ[i].b # "state"
  <2>1. CASE i = 1
    BY <2>1
  <2>2. CASE i # 1
    <3>1. i - 1 \in DOMAIN Tail(mainQ) /\ Tail(mainQ)[i - 1] = mainQ[i]
      BY <2>2
    <3> QED
      BY <1>1, <3>1
  <2> QED
    BY <2>1, <2>2
<1> QED
  BY <1>1 DEF FlagCurrent, IsDataChannelOpen

\* applyOnlinePeers up to the table: the selection moves with its peer.
LEMMA DidUpdateOnlinePeersStep ==
    ASSUME IInv, DidUpdateOnlinePeers
    PROVE  IInv'
<1> USE DEF IInv
<1> DEFINE peers == Head(mainQ).peers
           row == RowOf(peers, CurrentSelectedPeerIP)
<1>1. /\ mainQ # <<>> /\ Head(mainQ).b = "peers" /\ mainQ' = Tail(mainQ)
      /\ onlinePeers' = peers /\ selectedPeerRow' = row
      /\ suppressPeerSelectActions' = TRUE /\ restoring' = TRUE /\ request' = None
      /\ UNCHANGED <<selectedFile, sending, peerConnectedFlag, pending, rtc, lastPick>>
  BY DEF DidUpdateOnlinePeers, NextBlock, TakeBlock, NoRequest
<1>2. peers \in Seq(Keys) /\ Tail(mainQ) \in Seq(Blocks)
  BY <1>1, HeadTyped DEF RestOK
<1>3. /\ CurrentSelectedPeerIP \in Keys \cup {None}
      /\ row \in 0..Len(peers)
      /\ row # 0 => peers[row] = CurrentSelectedPeerIP /\ peers[row] \in Keys
  BY <1>2, SelectedIsKey, RowFound
<1> HIDE DEF peers, row
<1>4. ButtonOK' /\ Flags' /\ SuppressOK'
  BY <1>1, ButtonFrame DEF Flags, SuppressOK, pending, rtc
<1>5. ListOK' /\ SelectionIsLastPick'
  <2>1. ListOK'
    BY <1>1, <1>2, <1>3 DEF ListOK
  <2>2. CASE row = 0
    BY <2>1, <2>2, <1>1 DEF SelectionIsLastPick, CurrentSelectedPeerIP
  <2>3. CASE row # 0
    <3>1. CurrentSelectedPeerIP' = CurrentSelectedPeerIP
      BY <2>3, <1>1, <1>3 DEF CurrentSelectedPeerIP
    <3> QED
      BY <2>1, <3>1, <1>1 DEF SelectionIsLastPick
  <2> QED
    BY <2>1, <2>2, <2>3
<1>6. RestOK'
  BY <1>1, <1>2 DEF RestOK, pending, rtc
<1>7. PendingNotForgotten'
  <2>1. Head(mainQ) # StateBlock("open")
    BY <1>1 DEF StateBlock
  <2> QED
    BY <1>1, <2>1, BlockFrame DEF pending, rtc
<1>8. FlagCurrent'
  BY <1>1, FlagFrame DEF RestOK, rtc
<1> QED
  BY <1>4, <1>5, <1>6, <1>7, <1>8

\* What the table calls back while the flag is set changes nothing but the flag.
LEMMA RestoreSelectionStep ==
    ASSUME IInv, RestoreSelection
    PROVE  IInv' /\ request' = None
<1> USE DEF IInv
<1>1. /\ restoring /\ suppressPeerSelectActions' = FALSE /\ restoring' = FALSE
      /\ UNCHANGED <<onlinePeers, selectedFile, sending, peerConnectedFlag, rtc, mainQ, lastPick>>
  BY DEF RestoreSelection
<1>2. suppressPeerSelectActions = TRUE
  BY <1>1 DEF SuppressOK, Flags
<1>3. selectedPeerRow' = selectedPeerRow /\ request' = None /\ UNCHANGED pending
  BY <1>2 DEF RestoreSelection, SelectionDidChange, NoRequest, pending
<1>4. ButtonOK' /\ Flags' /\ SuppressOK'
  BY <1>1, <1>3, ButtonFrame DEF Flags, SuppressOK, pending, rtc
<1>5. ListOK' /\ SelectionIsLastPick'
  BY <1>1, <1>3 DEF ListOK, SelectionIsLastPick, CurrentSelectedPeerIP
<1>6. RestOK' /\ PendingNotForgotten' /\ FlagCurrent'
  BY <1>1, <1>3 DEF RestOK, PendingNotForgotten, FlagCurrent, IsDataChannelOpen, pending, rtc
<1> QED
  BY <1>3, <1>4, <1>5, <1>6

\* A notice of a state: the flag is set from the channel, and the pending send is
\* made, so its notice may go.
LEMMA DataChannelStateDidChangeStep ==
    ASSUME IInv, DataChannelStateDidChange
    PROVE  IInv'
<1> USE DEF IInv
<1>0. CurrentSelectedPeerIP \in Keys \cup {None}
  BY SelectedIsKey
<1>1. /\ mainQ # <<>> /\ Head(mainQ).b = "state" /\ mainQ' = Tail(mainQ)
      /\ peerConnectedFlag' = (dataChannel = "open")
      /\ UNCHANGED <<list, selectedFile, rtc, lastPick>>
  BY DEF DataChannelStateDidChange, NextBlock, TakeBlock, UpdateConnectionState, IsDataChannelOpen
<1>2. /\ SendFileAtURL \/ UNCHANGED sending
      /\ \/ UNCHANGED pending /\ request' = None
            /\ ~(Head(mainQ).state = "open" /\ pendingAutoSend)
         \/ pendingAutoSend' = FALSE /\ pendingPeerIP' = None /\ request' = None
         \/ ~IsDataChannelOpen /\ \E ip \in Keys : Connect(ip)
  BY <1>0 DEF DataChannelStateDidChange, OnSend, NoRequest, SendFileAtURL
<1>3. /\ ListOK' /\ SelectionIsLastPick' /\ SuppressOK'
      /\ suppressPeerSelectActions' \in BOOLEAN /\ restoring' \in BOOLEAN
  BY <1>1, ListFrame
<1>4. ButtonOK' /\ Flags'
  <2>1. pendingAutoSend' \in BOOLEAN
    BY <1>2 DEF Connect, pending, Flags
  <2> QED
    BY <1>1, <1>2, <1>3, <2>1, SendKeepsButton DEF Flags, rtc
<1>5. RestOK'
  <2>1. Tail(mainQ) \in Seq(Blocks)
    BY <1>1, HeadTyped DEF RestOK
  <2> QED
    BY <1>1, <1>2, <2>1 DEF RestOK, Connect, pending, rtc
<1>6. PendingNotForgotten'
  <2>1. CASE UNCHANGED pending /\ Head(mainQ).state # "open"
    <3>1. Head(mainQ) # StateBlock("open")
      BY <2>1 DEF StateBlock
    <3> QED
      BY <1>1, <2>1, <3>1, BlockFrame DEF pending, rtc
  <2>2. CASE UNCHANGED pending /\ ~pendingAutoSend
    BY <2>2 DEF PendingNotForgotten, pending
  <2>3. CASE pendingAutoSend' = FALSE
    BY <2>3 DEF PendingNotForgotten
  <2>4. CASE ~IsDataChannelOpen
    BY <1>1, <2>4 DEF PendingNotForgotten, IsDataChannelOpen, rtc
  <2> QED
    BY <1>2, <2>1, <2>2, <2>3, <2>4
<1>7. FlagCurrent'
  BY <1>1 DEF FlagCurrent, IsDataChannelOpen, rtc
<1> QED
  BY <1>3, <1>4, <1>5, <1>6, <1>7

\* The end of a transfer: handle, isSending and button change together.
LEMMA TransferDidFinishStep ==
    ASSUME IInv, TransferDidFinish
    PROVE  IInv'
<1> USE DEF IInv
<1>1. /\ mainQ # <<>> /\ Head(mainQ).b = "finish" /\ mainQ' = Tail(mainQ)
      /\ UNCHANGED <<list, selectedFile, peerConnectedFlag, pending, rtc, lastPick>>
      /\ request' = None
  BY DEF TransferDidFinish, NextBlock, TakeBlock, NoRequest
<1>2. /\ ListOK' /\ SelectionIsLastPick' /\ SuppressOK'
      /\ suppressPeerSelectActions' \in BOOLEAN /\ restoring' \in BOOLEAN
  BY <1>1, ListFrame
<1>3. ButtonOK' /\ Flags'
  <2>1. /\ sendHandle' = FALSE /\ isSending' = FALSE
        /\ sendEnabled' = (selectedFile = "file" /\ ~FALSE)
    BY DEF TransferDidFinish, SetSendingInProgress, RefreshEnabledState
  <2> QED
    BY <1>1, <1>2, <2>1, Zenon DEF ButtonOK, SendButtonCurrent, Flags, pending, rtc
<1>4. RestOK'
  <2>1. Tail(mainQ) \in Seq(Blocks)
    BY <1>1, HeadTyped DEF RestOK
  <2> QED
    BY <1>1, <2>1 DEF RestOK, pending, rtc
<1>5. PendingNotForgotten'
  <2>1. Head(mainQ) # StateBlock("open")
    BY <1>1 DEF StateBlock
  <2> QED
    BY <1>1, <2>1, BlockFrame DEF pending, rtc
<1>6. FlagCurrent'
  BY <1>1, FlagFrame DEF RestOK, rtc
<1> QED
  BY <1>2, <1>3, <1>4, <1>5, <1>6
-----------------------------------------------------------------------------
(* The socket's queue and WebRTC's thread.                                 *)

\* What a posted block changes is the queue; what it says of the channel, and
\* what the channel then is, must fit.
LEMMA PostStep ==
    ASSUME IInv, NEW x \in Blocks, Post(x), replaced' \in BOOLEAN,
           dataChannel' \in States \cup {"nil"},
           dataChannel' # dataChannel => x.b = "state",
           dataChannel' = "open" => dataChannel = "open" \/ x = StateBlock("open")
    PROVE  IInv'
<1> USE DEF IInv
<1>1. /\ mainQ' = Append(mainQ, x) /\ request' = None
      /\ UNCHANGED <<list, selectedFile, sending, peerConnectedFlag, pending, lastPick>>
  BY DEF Post, NoRequest
<1>2. mainQ \in Seq(Blocks)
  BY DEF RestOK
<1>3. /\ ListOK' /\ SelectionIsLastPick' /\ SuppressOK'
      /\ suppressPeerSelectActions' \in BOOLEAN /\ restoring' \in BOOLEAN
  BY <1>1, ListFrame
<1>4. ButtonOK' /\ Flags'
  BY <1>1, <1>3, ButtonFrame DEF Flags, pending
<1>5. RestOK'
  <2>1. Append(mainQ, x) \in Seq(Blocks)
    BY <1>2
  <2> QED
    BY <1>1, <2>1 DEF RestOK, pending
<1>6. PendingNotForgotten'
  <2>1. CASE pendingAutoSend' /\ IsDataChannelOpen'
    <3>1. pendingAutoSend /\ (IsDataChannelOpen \/ x = StateBlock("open"))
      BY <1>1, <2>1 DEF pending, IsDataChannelOpen
    <3> QED
      BY <1>1, <1>2, <3>1, OpenStays DEF PendingNotForgotten
  <2> QED
    BY <2>1 DEF PendingNotForgotten
<1>7. FlagCurrent'
  <2>1. /\ \A i \in DOMAIN mainQ : i \in DOMAIN mainQ' /\ mainQ'[i] = mainQ[i]
        /\ Len(mainQ) + 1 \in DOMAIN mainQ' /\ mainQ'[Len(mainQ) + 1] = x
    BY <1>1, <1>2
  <2>2. CASE x.b = "state"
    BY <2>1, <2>2 DEF FlagCurrent
  <2>3. CASE x.b # "state"
    BY <1>1, <2>1, <2>3 DEF FlagCurrent, IsDataChannelOpen
  <2> QED
    BY <2>2, <2>3
<1> QED
  BY <1>3, <1>4, <1>5, <1>6, <1>7

\* createOffer: a new channel is not open yet, and the page is not told.
LEMMA CreateChannelStep ==
    ASSUME IInv, CreateChannel
    PROVE  IInv'
<1> USE DEF IInv
<1>1. /\ ListOK' /\ SelectionIsLastPick' /\ SuppressOK'
      /\ suppressPeerSelectActions' \in BOOLEAN /\ restoring' \in BOOLEAN
  BY ListFrame DEF CreateChannel
<1>2. replaced' \in BOOLEAN
  BY DEF CreateChannel
<1>3. ButtonOK' /\ Flags'
  BY <1>1, <1>2, ButtonFrame DEF CreateChannel, Flags, pending
<1>4. RestOK' /\ PendingNotForgotten' /\ FlagCurrent'
  BY DEF CreateChannel, NoRequest, RestOK, States, PendingNotForgotten, FlagCurrent,
         IsDataChannelOpen, pending
<1> QED
  BY <1>1, <1>3, <1>4

\* Whatever the other threads post or change fits what the page relies on.
LEMMA BackgroundStep ==
    ASSUME IInv, Background
    PROVE  IInv'
<1>0. replaced \in BOOLEAN /\ dataChannel \in States \cup {"nil"}
  BY DEF IInv, Flags, RestOK
<1>1. ASSUME NEW peers \in Lists, ReceivePeers(peers) PROVE IInv'
  <2>1. peers \in Seq(Keys)
    BY DEF Lists
  <2>2. PeersBlock(peers) \in Blocks /\ Post(PeersBlock(peers)) /\ UNCHANGED rtc
    BY <1>1, <2>1 DEF PeersBlock, Blocks, ReceivePeers
  <2> QED
    BY <1>0, <2>2, PostStep DEF rtc
<1>2. CASE CreateChannel
  BY <1>2, CreateChannelStep
<1>3. ASSUME NEW state \in {"connecting", "open"}, DidOpenDataChannel(state) PROVE IInv'
  <2>1. /\ StateBlock("open") \in Blocks /\ StateBlock("open").b = "state"
        /\ Post(StateBlock("open"))
        /\ dataChannel' \in States
    BY <1>3 DEF StateBlock, Blocks, States, DidOpenDataChannel
  <2>2. replaced' \in BOOLEAN
    BY <1>3, <1>0 DEF DidOpenDataChannel
  <2> QED
    BY <2>1, <2>2, PostStep
<1>4. ASSUME NEW state \in States, DidChangeState(state) PROVE IInv'
  <2>1. /\ StateBlock(state) \in Blocks /\ StateBlock(state).b = "state"
        /\ Post(StateBlock(state))
        /\ dataChannel' = state /\ replaced' = replaced
    BY <1>4 DEF StateBlock, Blocks, DidChangeState, TellState
  <2> QED
    BY <1>0, <2>1, PostStep
<1>5. ASSUME NEW state \in States, OtherNotice(state) PROVE IInv'
  <2>1. StateBlock(state) \in Blocks /\ Post(StateBlock(state)) /\ UNCHANGED rtc
    BY <1>5 DEF StateBlock, Blocks, OtherNotice
  <2> QED
    BY <1>0, <2>1, PostStep DEF rtc
<1>6. CASE CleanupTransfer
  <2>1. FinishBlock \in Blocks /\ Post(FinishBlock) /\ UNCHANGED rtc
    BY <1>6 DEF Blocks, CleanupTransfer
  <2> QED
    BY <1>0, <2>1, PostStep DEF rtc
<1> QED
  BY <1>1, <1>2, <1>3, <1>4, <1>5, <1>6 DEF Background
-----------------------------------------------------------------------------
(* The invariant.                                                          *)

\* The page as it is first shown satisfies the invariant.
LEMMA InitEstablishes == Init => IInv
<1> SUFFICES ASSUME Init PROVE IInv
  OBVIOUS
<1>1. Flags /\ ListOK /\ RestOK
  <2>1. Flags
    BY DEF Init, Flags
  <2>2. ListOK
    BY DEF Init, ListOK
  <2>3. RestOK
    BY DEF Init, RestOK
  <2> QED
    BY <2>1, <2>2, <2>3
<1>2. ButtonOK
  BY Zenon DEF Init, ButtonOK, SendButtonCurrent
<1>3. SelectionIsLastPick /\ PendingNotForgotten /\ FlagCurrent /\ SuppressOK
  BY DEF Init, SuppressOK, SelectionIsLastPick, CurrentSelectedPeerIP, PendingNotForgotten, FlagCurrent,
         IsDataChannelOpen
<1> QED
  BY <1>1, <1>2, <1>3 DEF IInv

\* A step that changes nothing keeps the invariant.
LEMMA StutterKeeps ==
    ASSUME IInv, UNCHANGED vars
    PROVE  IInv'
<1> USE DEF IInv, vars
<1>1. /\ ListOK' /\ SelectionIsLastPick' /\ SuppressOK'
      /\ suppressPeerSelectActions' \in BOOLEAN /\ restoring' \in BOOLEAN
  BY ListFrame
<1>2. ButtonOK' /\ Flags'
  BY <1>1, ButtonFrame DEF Flags, pending, rtc
<1>3. RestOK' /\ PendingNotForgotten' /\ FlagCurrent'
  BY DEF RestOK, PendingNotForgotten, FlagCurrent, IsDataChannelOpen, pending, rtc
<1> QED
  BY <1>1, <1>2, <1>3

\* Every step keeps the invariant.
LEMMA NextKeeps == IInv /\ [Next]_vars => IInv'
<1> SUFFICES ASSUME IInv, [Next]_vars PROVE IInv'
  OBVIOUS
<1>1. CASE User
  BY <1>1, SelectRowStep, SetSelectedFileStep, OnSendTapStep DEF User
<1>2. CASE MainBlock
  BY <1>2, DidUpdateOnlinePeersStep, RestoreSelectionStep, DataChannelStateDidChangeStep,
     TransferDidFinishStep DEF MainBlock
<1>3. CASE Background
  BY <1>3, BackgroundStep
<1>4. CASE UNCHANGED vars
  BY <1>4, StutterKeeps
<1> QED
  BY <1>1, <1>2, <1>3, <1>4 DEF Next

\* The invariant holds always.
LEMMA InvariantHolds == Spec => []IInv
BY InitEstablishes, NextKeeps, PTL DEF Spec
-----------------------------------------------------------------------------
(* The theorems.                                                           *)

\* Every variable of the page, the container and the queue keeps its type; the
\* selected row is always a row of the list that is shown.
THEOREM TypeCorrect == Spec => []TypeOK
<1>1. IInv => TypeOK
  BY DEF IInv, Flags, ListOK, RestOK, Blocks, TypeOK
<1> QED
  BY <1>1, InvariantHolds, PTL

\* Through every reordering, shortening and replacement of the list by
\* applyOnlinePeers, the selected row shows the peer the user clicked or nothing.
THEOREM SelectionIsTheUsers == Spec => []SelectionIsLastPick
<1>1. IInv => SelectionIsLastPick
  BY DEF IInv
<1> QED
  BY <1>1, InvariantHolds, PTL

\* A send that waits for its channel has its block queued once the channel is
\* open, however long the queue and whatever else is in it.
THEOREM PendingSendRemembered == Spec => []PendingNotForgotten
<1>1. IInv => PendingNotForgotten
  BY DEF IInv
<1> QED
  BY <1>1, InvariantHolds, PTL

\* Once no notice of a state is queued, updateConnectionState has left the page
\* showing the state of the channel in use.
THEOREM FlagCatchesUp == Spec => []FlagCurrent
<1>1. IInv => FlagCurrent
  BY DEF IInv
<1> QED
  BY <1>1, InvariantHolds, PTL

\* The send button is live exactly when a file is chosen and RTCClient sends no
\* other, because the page's isSending always agrees with RTCClient's handle.
THEOREM SendButtonIsCurrent == Spec => []SendButtonCurrent
<1>1. IInv => SendButtonCurrent
  BY DEF IInv, ButtonOK
<1> QED
  BY <1>1, InvariantHolds, PTL

\* Because the flag is set exactly while applyOnlinePeers works in the table, a
\* selection it restores never pairs and a click that should pair always does,
\* whatever lists and clicks came before and whatever the other threads do meanwhile.
THEOREM NoticesAreToldApart == Spec => NoticesToldApart
<1> DEFINE A == /\ restoring \/ restoring' => request' = None
                /\ \A row \in 1..Len(onlinePeers) :
                     SelectRow(row) /\ Connects(onlinePeers[row]) => request' = onlinePeers[row]
<1>1. ASSUME IInv, Next, restoring \/ restoring' PROVE request' = None
  <2>1. CASE User
    BY <1>1, <2>1 DEF User, SelectRow, SetSelectedFile, OnSendTap, MainFree, list
  <2>2. CASE DidUpdateOnlinePeers \/ RestoreSelection
    BY <1>1, <2>2, RestoreSelectionStep DEF DidUpdateOnlinePeers, NoRequest
  <2>3. CASE DataChannelStateDidChange \/ TransferDidFinish
    BY <1>1, <2>3 DEF DataChannelStateDidChange, TransferDidFinish, NextBlock, MainFree, list
  <2>4. CASE Background
    BY <2>4 DEF Background, ReceivePeers, CreateChannel, DidOpenDataChannel, DidChangeState,
       TellState, OtherNotice, CleanupTransfer, Post, NoRequest
  <2> QED
    BY <1>1, <2>1, <2>2, <2>3, <2>4 DEF Next, MainBlock
<1>2. ASSUME IInv, NEW row \in 1..Len(onlinePeers), SelectRow(row), Connects(onlinePeers[row])
      PROVE  request' = onlinePeers[row]
  <2>1. ~suppressPeerSelectActions /\ row # 0
    BY <1>2 DEF IInv, SuppressOK, SelectRow, MainFree, ListOK
  <2> QED
    BY <1>2, <2>1 DEF SelectRow, SelectionDidChange, OnSelectPeerIP, Connect
<1>3. IInv /\ [Next]_vars => [A]_vars
  BY <1>1, <1>2
<1> QED
  BY <1>3, InvariantHolds, PTL DEF Spec, NoticesToldApart
=============================================================================
