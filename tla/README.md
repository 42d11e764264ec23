# A TLA+ verification of the WebRTC file sender

The repository holds a macOS app (`src/s2-prj3-file-trans/webrtc_file_sender`) that sends files
between two machines over a WebRTC data channel, and the Node.js signaling server through which
two apps find each other. This directory models both in TLA+, checks the models with TLC on small
instances, and proves with TLAPS every invariant the runs check, for every value of the constants:
the server for any number of connections, the transfer for any sizes and any number of transfers,
the sending loop's flow control for every choice of its limits, the send page for every set of
devices, and the negotiation for any number of apps, its two session invariants until an app
quits.

Paths below are relative to `src/s2-prj3-file-trans/webrtc_file_sender`; the app's own code is in
`webrtc_file_sender/` under that.

## The system

| Component | State | Operations | Interacts by |
|---|---|---|---|
| Signaling server (`signaling-server.js`) | `clientsByIP`; per socket `_clientIP`, `_pairPartner`, `readyState`; pending timers | connection, `pair_request`, `list_peers`, relay, timer, close | JSON over WebSocket |
| Signaling client and negotiation (`RTCClient.m` 54-430) | `isOfferer`, `peerIP`, `pendingCandidates`, `hasRemoteDescription`, one `RTCPeerConnection` | `receiveSignal`, `createOffer`, ICE and channel callbacks | WebSocket; WebRTC callbacks |
| File transfer (`RTCClient.m` 449-781) | send and receive handles, totals and counters, `incomingFileName`, `transferCancelled` | send, cancel, accept, reject, `ft_*` messages, chunks, sending loop, cleanup | data channel; main queue; file queue |
| Container (`HXAirDropStyleTransferViewController.m`) | `incomingName`, `pendingAutoSend`, `pendingPeerIP` | user actions, delegate callbacks | calls RTCClient; calls the two pages |
| Send page (`HXSendViewController.m`) | `onlinePeers` and the selected row, the chosen file, `isSending`, `peerConnectedFlag`, the send button | click, choose, send, list update, enable | blocks injected by the container |
| Receive page (`HXReceiveViewController.m`) | buttons and receiving panel | enable, show, hide | blocks injected by the container |
| App delegate, packaging script, vendored WebRTC and `ws` | - | - | not modelled |

What is hard here:

* **Server.** Each handler is atomic on Node's event loop, but a socket is CLOSING for a while
  before its `close` event: still registered, still paired, deaf to `send`. The `peer_joined` timer
  acts 200 ms later on what it captured. Addresses can be reused before the old holder closes.
* **Client.** Four threads (socket callbacks, WebRTC's thread, the main thread, the file queue)
  share unlocked properties. Every end of a transfer is a block *queued* on the main thread that
  resets everything, whichever transfer is then current, and control messages carry no transfer id.
  The send page hears of lists, channel states and ends of transfers through the same queue, hence
  late, and of channels that are no longer in use.
* **Flow control.** The sending loop waits on a queue that another thread drains, gives up after 200
  sleeps, then retries a refused chunk 120 times; a cancel or a close may come between any two tests.
* **User.** Panels are not modal, so an answer may come after the question has gone.

What makes each part correct: the server's pairings are exclusive, symmetric and announced, and its
clients' view of session, role and peers agrees with its own; a transfer writes bytes in file order
and none twice, counts what it writes, can always be stopped, ends, and reports success only for a
file that arrived; the queue of unsent bytes stays bounded; the page sends to the device the user
clicked and shows what is so once the notices are through.

## Modules

| Module | Models |
|---|---|
| `Matchmaking` | abstract specification: connections join, match in exclusive pairs, leave |
| `SignalingServer` | `signaling-server.js`, one action per handler, and what `receiveSignal` keeps of its messages; defines the refinement mapping to `Matchmaking` |
| `FileTransfer` | the transfer of `RTCClient.m` in two apps, with the controls of the view controllers that gate it |
| `Delivery` | abstract specification: one file offered, accepted, sent and done, until something disturbs it |
| `Backpressure` | the flow control inside the sending loop of `RTCClient.m` |
| `SendPage` | the send page and the container behind it, in one app |
| `Negotiation` | from a picked peer to an open channel: `receiveSignal`, `createOffer`, the completion handlers, candidates and channels of `RTCClient.m`, and the container's pending send, composed with `SignalingServer` |
| `MCSignalingServer`, `MCFileTransfer`, `MCNegotiation`, `MCSendPage` | symmetry sets for TLC |
| `MatchmakingProofs`, `SignalingServerProofs`, `WireProofs`, `FileTransferProofs`, `DeliveryProofs`, `BackpressureProofs`, `SendPageProofs`, `NegotiationProofs` | theorems and proofs |

Operators marked `mutant` in a comment are deliberate faults, one plausible slip each in the
definition that follows. No specification uses them: substituting one for that definition must
make a named property fail, which shows that the property depends on the code it is about.

### SignalingServer

`readyState`, `clientIP`, `pairPartner`, `clientsByIP` are the server's state; `timers` holds the
pending `setTimeout` callbacks (equal delays, so they fire in order); `wire[c]` is what was sent to
`c` and not yet received; `client[c]` is what `receiveSignal` sets on delivery.

| Action | Code |
|---|---|
| `Connect` | connection handler, 33-42 |
| `PairTargetNotFound`, `PairBusy`, `Pair` | the three ways through `pair_request`, 51-91 |
| `PeerJoinedTimer` | 82-88 |
| `ListPeers`, `Relay` | 93-96, 98-102 |
| `BeginClose` (external: `ws`) | the socket becomes CLOSING |
| `Close` | close handler, 105-121 |
| `Deliver` | `RTCClient receiveSignal`, `RTCClient.m` 77-159 |

Offers, answers and candidates are opaque members of `Payloads`: one in this module's own runs, the
descriptions and candidates of `Negotiation` there. `with`, `from` and `session` are history that
no action's guard reads. A socket is used once: a reconnecting client is a new connection, possibly
under an old key. Messages of a CLOSING socket may still be handled, as `ws` flushes what it had
buffered.

### FileTransfer

Each app has three threads. A user event, a main-queue block and the handling of a control message
are one action each; the sending loop is cut at its I/O (`LoopRead`, `LoopPush`, `LoopCount`) and at
its end (`LoopEnd`), the handling of a binary message between write (`WriteChunk`) and count
(`CountChunk`), and the accept between the line that publishes the destination (`OpenDestination`,
`RTCClient.m` 514-529) and the one that zeroes the count (`AcceptIncomingFile`, 530-532, then
`beginReceiving`), so every other thread can act there; `accepting` keeps the main thread from
anything else meanwhile. A zero written while another thread is between the load and the store of
its `+=` may be lost (`Zeroed`). The other handlers are whole: what another thread could see between
two of their assignments is not modelled. `mainQ` is the main queue, `fileQ` the loops waiting in
`fileQueue`, `chan[p]` the messages under way to `p`. A chunk records its file and bytes; `disk` is
the destination in the order written.

`cleanupTransferWithError` is split as in the code: its callers post a block (`Post`,
`Cleanup(outcome)`), and `CleanupTransfer` is that block with the delegate call it ends in.
Failures are the ones the code handles: an unopenable destination, a write error, a read error or
short file, `sendData` failing 120 times, ICE loss (`IceDown`, then the block `IceDisconnected`), and
the channel closing. `saved`, `current`, `accepted` and `wiped` are history; `wiped` is what the zero
of the last accept took from the count. Left out: `hello`, progress
values and labels, alerts, the send-progress block (labels only), and the wait on `bufferedAmount`,
which changes no transfer state and has the module `Backpressure` to itself.

`ImplementsDelivery` maps the first transfer to `Delivery`: `size` to the size offered, each end to
idle, busy or done by whether it has begun and has its file open, `sent` and `arrived` to the bytes
sent and the bytes on disk. `Disturbed` is what ends the promise: an abort by a user, a fault, or a
second offer. It has to be that wide. Control messages carry no transfer id and every cleanup resets
whatever is current, so after an abort the loop of the old transfer may go on into the new one, and
a second offer that crosses the first one is enough to have an accept answer the wrong file.

### Backpressure

One transfer's loop, `startSendingLoop` 676-735, at the grain `FileTransfer` leaves out: `pc` is the
loop's place, and every test, sleep, read and `sendData` is a step between which the queue drains
(`Drain`), the user cancels or the channel closes. `WaitTest` and `WaitSleeps` are the inner `while`
on `bufferedAmount` with its limit `WaitLimit` (200) and its early exit at the low watermark,
`RetryTest`, `SendData` and `BackoffSleeps` the retry loop with its limit `RetryLimit` (120). The
queue itself is external: it refuses what does not fit, as `data_channel_interface.h` says, and
drains as SCTP pleases. The code comment speaks of waiting until the low watermark is reached. The
`while` also ends as soon as the queue is below the high one, so the low watermark seldom decides;
the model follows the code. `timeouts` and `late` are history: the waits that gave up, and the
sleeps and sends begun after a cancel.

### SendPage

Everything runs on the main thread, one event or block at a time (`restoring` is the time inside
`applyOnlinePeers`, when the table may call back); `mainQ` holds the blocks of the
other threads, which change `dataChannel` at once and tell the page later. Rows count from 1, and
0 is no row.

| Action | Code |
|---|---|
| `SelectRow`, through `SelectionDidChange` and `OnSelectPeerIP` | a click: `tableViewSelectionDidChange`, then the container |
| `SetSelectedFile` | `onChooseFile`, `onChooseFolder`, and the clearing of the choice |
| `OnSendTap`, through `OnSend` and `SendFileAtURL` | the send button |
| `DidUpdateOnlinePeers` | `applyOnlinePeers`, up to the table: the list, the new row, the flag `suppressPeerSelectActions` set |
| `RestoreSelection` | the rest of it: the table selects the row and may report that as a change, the flag cleared |
| `DataChannelStateDidChange` | the container's delegate method, with the send that waited |
| `TransferDidFinish` | the cleanup block and `fileTransferDidFinishWithError` |
| `ReceivePeers`, `CreateChannel`, `DidOpenDataChannel`, `DidChangeState`, `OtherNotice`, `CleanupTransfer` | what `RTCClient` does on its own threads |

`replaced` says that a channel given up for another still calls the delegate, as nothing closes it
or takes the delegate away. `OnSend` prefers `pendingPeerIP` to the row selected since, as the code
does. `HXDropZoneView` is never instantiated and `onTapDeviceCard` is attached to nothing: neither
is modelled, nor is which page is in front.

### Negotiation

The server's variables and actions are those of `SignalingServer`, instantiated; `up[c]` is what an
app has sent and the server not yet handled. In each app the socket's queue handles one message at a
time (`Receive...`), and WebRTC's thread runs the operations asked of the peer connection (`ops`) in
order, with their completion handlers. The two are cut where they meet: the candidate branch between
the test of `hasRemoteDescription` (`ReceiveCandidate`) and the append (`QueueCandidate`), the handler
of `setRemoteDescription` between going through `pendingCandidates` (`FlushPending`) and emptying it
(`FlushEnd`). An append *during* the loop of the handler would raise an exception in Cocoa; that
outcome is not modelled.

| Action | Code |
|---|---|
| `OnSelectPeerIP`, `OnSend` (both `ConnectToPeerIP`) | container 266-300, 395-420; `RTCClient.m` 432-441 |
| `ReceiveNotice`, `ReceivePeerJoined`, `ReceiveDescription`, `ReceiveCandidate`, `QueueCandidate` | `receiveSignal`, `RTCClient.m` 77-223 |
| `CreateOffer`, `CreateAnswer`, `SetLocalDescription`, `SetRemoteDescription` | the nested handlers, 251-323 and 172-190 |
| `FlushPending`, `FlushEnd` | 174-191 and 200-206 |
| `GenerateCandidate`, `DidOpenDataChannel` | 363-379, 386-399, container 469-476 |
| `Quit`, `ChannelLost` (external) | an app goes away; SCTP notices at some time |

The peer connection is external: a serial chain of operations that refuses a description in the
wrong signaling state (the default without implicit rollback), gathers once it has a local
description, and connects when both descriptions fit and one side was given a candidate of the
other. A channel opens at both ends in one step, and the delegate's block runs with it: the only
user action that could come between is refused while a channel is open. `early` and `autoSent` are
history.

## Runs

| Run | Bounds | Shows |
|---|---|---|
| `signaling_safety` | 3 connections, 2 keys, 3 client messages, symmetry | registry, pairing, session, role and peer-list invariants; `OffererLearnsPartner`; `RegistrationStable`; `ImplementsService` |
| `signaling_liveness` | 2 connections, 2 keys, 3 messages | `PairingAnnounced`, `LeaverReleasesPartner` |
| `transfer_safety` | both send, 2 transfers of 2 or 3 bytes in chunks of 2, 1 abort or fault, 1 panel, symmetry | `WrittenInOrder`, `ReceiveAccounting`, `FirstCountWhole`, `Stoppable`; `NoGhostPanel` |
| `transfer_liveness` | 2 transfers of 2 or 3 bytes in chunks of 2, 1 abort | `LoopTerminates`, `CancelTakesEffect`, `TransferCompletes`; `ImplementsDelivery` |
| `backpressure` | watermarks 4 and 1, 11 bytes in chunks of 2, a queue of 8, 2 waits, 2 retries | `BufferBounded`, `RefusedOnlyWhenStalled`, `CancelPrompt`; `LoopEnds` |
| `send_page` | 2 other devices, 3 queued blocks, symmetry | `SelectionIsLastPick`, `PendingNotForgotten`, `FlagCurrent`, `SendButtonCurrent`; `NoticesToldApart` |
| `negotiation_safety` | 3 apps, 2 calls by 2 users, 1 offer and 1 candidate each, 6 client messages, symmetry | `NoEarlyCandidate`, `DescriptionsAgree` |
| `negotiation_liveness` | 2 apps, either calls, 2 candidates each, 1 quits | `NegotiationCompletes` |

Why these bounds: three connections are what a third party or a re-pairing needs, with fewer keys
than connections an address is reused, and three messages allow pair, re-pair and a relayed message.
What the timer of an earlier pairing does to a later one needs the third connection, so it is asked
as an invariant there (`OffererLearnsPartner`: the address an offerer ends up with, once its timers
have fired and its wire is read). `signaling_liveness` adds for one pairing that this end is
reached, for a pair that lasts; to a partner that has gone nothing is promised. Two transfers are
what a late message or block of one needs to act on the next; sizes 2 and 3 with chunks of 2 give a
file of exactly one chunk and one with a partial last chunk. In `backpressure` two waits that give
up, one more chunk each, are what fills the queue of 8 from the watermark of 4, and 11 bytes last
beyond that, so refusals happen; the proofs below cover every other choice. In `send_page` two
devices can be reordered, lose one and get it back, and of three queued blocks one can be out of
date, one be under way and one say the opposite. In a negotiation two apps can race everything that
one pairing holds, a third adds the busy caller and, with a quit, the re-pairing. Two candidates
each matter in `negotiation_liveness`: the pool can lose one on each side, never both, so with one
each the property fails. `MaxRequests` is at least what the apps can send where liveness is checked.
Runs with symmetry check safety only. Deadlock is checked in `send_page`, where the user can always
do something. Elsewhere the system may rest: the connections are used up, the bounded user has done
all it may, or the loop has ended.

Fairness. Server: timers and `close` events run (Node's event loop; `ws` destroys a socket that does
not finish closing), and TCP delivers to a client that reads on (`receiveSignal` re-arms itself).
Negotiation: the server handles what it is sent, the socket's queue and WebRTC's thread keep going,
and WebRTC gathers its candidates and connects when it can.
Client: each of the three threads keeps taking its next block, message or loop step. The sending
loop of `Backpressure` keeps running, but the network need not drain. Users and faults are not fair:
that a transfer completes holds of a user who accepts what is offered, and `TransferCompletes` says
so itself (`WillingUser => ...`).

### Disagreements found

Each of these runs checks what a comment or document says and ends in a counterexample.

* `success_without_delivery`: `RTCClient.h:45` says a nil error means success. The receiver stops a
  transfer; the sender's cleanup zeroes the counters without setting `transferCancelled`; the loop
  finds 0 >= 0, sends `ft_done` and reports success. Of a transfer nobody disturbs it is true:
  `ImplementsDelivery`.
* `candidate_lost`: `webrtc-architecture-talk.md:255` says the pool loses no candidate whatever the
  order. One that is tested before the flag is set and appended after the pool was gone through is
  never added.
* `channels_disagree`: `RTCClient.m:271` says both ends use the same channel. Every `peer_joined`
  makes another channel on the one peer connection, and the timer that sends it looks only at the
  offerer (`signaling-server.js:83`), not at whether the peer is still there. After a peer that quit
  early, the offerer uses the second channel and the answerer the first. The same setting breaks
  `NoEarlyCandidate`, because `hasRemoteDescription` is never reset, and `DescriptionsAgree`, because
  one peer connection then has two offers under way.
* `wrong_receiver`: line 266 of the container says a picked peer is sent the file when the channel
  opens. `pendingAutoSend` is neither cleared by an error nor compared with the peer: the file goes
  to whoever's channel opens.

Three more places where the properties stop, because of what the code does there:

* A sending loop that is still counting the last chunk of one file runs on into the next before that
  is accepted. A chunk of it written and counted between lines 529 and 530 of `RTCClient.m` loses its
  count to the zero of line 530, and the receiver waits on with the whole file on disk. This is
  `wiped` in `ReceiveAccounting`; that it is 0 in a first transfer is `FirstCountWhole`.
* The late `peer_joined` of a device that has meanwhile been paired as an *answerer* overwrites the
  address its role gave it with that of a device that has gone. `OffererLearnsPartner` is therefore
  about offerers; the app does not read the address itself.
* `WrittenInOrder` allows gaps, and chunks of an earlier file in a later one's destination: a stale
  loop's chunks are dropped or written by whatever the receiver has open. That a file is whole is
  `ImplementsDelivery`, of an undisturbed transfer only.

## Proofs

For any sets `Conns` and `Keys` (assumed: `None` is in neither, `MaxRequests` is a natural):

* `TypeCorrect`: `Spec => []TypeOK`, from one typing lemma per message constructor and helper.
* `RegistrySound`, `PairingSound`: `Spec => []RegistryConsistent`, `Spec => []PairingSymmetric`. The
  invariant is `IInv`, their conjunction with `TypeOK`. Symmetry alone is not inductive: that the
  target of a `pair_request` is attached comes from the registry, and that no third socket points at
  either of two free sockets comes from symmetry itself (a socket pointed at either points back or is
  CLOSED).
* `RegistrationPersists`: `Spec => RegistrationStable`, from `IInv`.
* `ServerImplementsService`: `Spec => ImplementsService`. `Connect` maps to `Join`, `Pair` to `Match`,
  `Close` to `Leave`, everything else to a stutter; the mapping takes attached sockets for `online`
  and mutual partners for `pairs`.
* `MatchesAreExclusive` (`MatchmakingProofs`): `Exclusive` is inductive in `Matchmaking`, hence by the
  refinement it holds of the server's pairs.

`WireProofs` goes on, under the same assumptions, to what the clients make of the messages under way:
`SessionsAgree` (`[]SessionAgreement`), `NothingCrosses` (`[]NoCrossTalk`), `RolesDiffer`
(`[]RolesComplementary`), `ListsCurrent` (`[]PeerListCurrent`) and `OfferersLearnPartners`
(`[]OffererLearnsPartner`). The invariant `WInv` speaks of what
a client *will* know once it has read its whole wire, so that a delivery changes nothing in it:

* `Quiet`: a socket that is not OPEN has an empty wire and a client that knows nothing. A new
  connection therefore starts with no old session.
* `SessionsEnd`: the session at the end of the wire is the server's `_pairPartner`.
* `Inside`: every relayed message on the wire comes at a place where the client is in the session
  with its sender. A relay appends at the end, and there `SessionsEnd` and the symmetry of pairings
  in `IInv` say whose session it is; a notice or a new pairing appended later does not change what
  the client believed before it.
* `RolesEnd`, `ListsEnd`: the same for the role and the peer list. Lists differ from the registry
  while a socket is CLOSING, which is registered but no longer listed, so `ListsEnd` holds the list
  between the two.

`OffererLearnsPartner` has an invariant of its own, `AInv`, over `IInv` and `WInv`: the address at the
end of the wire, or that of the last pending timer if there is one, is the partner's. A timer that
fires moves its address from the second place to the first, a pairing arms the timer that is now
last, and the target of a pending timer has connected, so its address is fixed (`TargetsKnown`).

The client's state at a place of the wire is a `CHOOSE` of the last message that sets it, not a fold;
its lemmas say what one more message at either end does to it.

For any watermarks `Low <= High`, chunk size, file size, queue limit and numbers of waits and retries
(sizes and numbers at least 1), `BackpressureProofs` proves `TypeCorrect`, `QueueBounded`
(`[]BufferBounded`), `RefusalsExplained` (`[]RefusedOnlyWhenStalled`) and `CancelIsPrompt`
(`[]CancelPrompt`). The invariant `IInv` adds to them where the loop is:

* `Limits`: a sleep or a send is only begun below its limit, and only while bytes are left, so a
  chunk has at least one byte and the counters stay in range.
* `Bounded`: between the end of a wait and the send there is `Room` for one chunk, unless the wait was
  cut short by a cancel; then the retry test keeps the loop from sending. This is the step the bound
  rests on, and it needs the test of `transferCancelled` in the retry loop.
* `Prompt`: only a sleep or a send that was decided on before the cancel can begin after it.

A refusal by an open channel means that the chunk did not fit although there was `Room`, which is
`RefusedOnlyWhenStalled`.

`DeliveryIsWhole` (`DeliveryProofs`, for any set of sizes): `Delivery` keeps `arrived <= sent <= size`
and lets no end be done early while undisturbed. The invariant `Sound` adds that nothing is counted
before the offer and nothing is received before it. That `FileTransfer` implements `Delivery` is
model-checked, not proved.

For any two peers, any sizes and chunk size of at least 1, and any bounds, `FileTransferProofs` proves
every invariant of the `transfer_safety` run:

* `TransferTypes` (`[]TypeOK`). The invariant `TInv` adds that a loop about to send or to count has a
  chunk and that no file is read past its end. Without the second a length could be negative, and
  with it every counter after that.
* `AlwaysStoppable` (`[]Stoppable`), which is inductive with `TInv`: every action that opens a file
  shows what stops it, and every block that takes the control away closes the file or puts
  another control in its place.
* `CountIsExact` (`[]ReceiveAccounting`): the count, the chunk in hand and what the accept wiped add
  up to the bytes on disk. `CountOK` makes it inductive: an offer that waits for its accept has a
  count of 0 and no chunk in hand, so accepting never starts the new count with bytes of the old
  file; a chunk can be written, and counted, only once the destination is published. The sum of the
  lengths on disk is a recursive function; that appending adds one length is shown by a least
  counterexample (`WFMin` of `WellFoundedInduction`), as the induction theorems with an operator
  parameter cannot be used.
* `FirstCountIsWhole` (`[]FirstCountWhole`). `FirstInv` follows the only offer there is: until it is
  accepted no app reads, holds, sends or counts a chunk (`Still`), and when it has been accepted it
  cannot be accepted again (`Spent`), so the zero of the accept meets a count of zero.
* `WritesInOrder` (`[]WrittenInOrder`). `OrderInv` orders everything that ever left an app: the
  destination, then the channel, then the chunk in the loop's hands, then the read position of the
  open source, all by transfer number and offset. That is why a stale loop does no harm to the order:
  it reads from the one handle that is current, and a later transfer has a larger number.

For any apps, keys and bounds (assumed: `None` is no connection, key, description, candidate or
channel), `NegotiationProofs` proves:

* `NegotiationTypes` (`[]TypeOK`). `TInv` adds that an offer is only created after a channel was made
  and that a peer connection in `have-remote-offer` holds an offer, so that the answer has something
  to answer.
* `NegotiationUsesServer`: `Spec => S!Spec`. Each action of the apps maps to one of the server's
  actions or to a stutter.
* `SessionsInside`: by that refinement the theorems of `SignalingServerProofs` and `WireProofs`, taken
  from an instance `W`, hold in the composition.
* `CandidatesWait` and `DescriptionsMatch`: `Spec => [](leaves = 0 => NoEarlyCandidate)` and `Spec
  => [](leaves = 0 => DescriptionsAgree)`. The invariant `PInv` says that an app without a partner
  has negotiated nothing, and that of two partners one leads (`Leader`) and the other follows: the
  leader has one timer, announcement or channel in all, and each side makes exactly one description
  (`TheOffer`, `TheAnswer`), the only one that its socket, its operations and its peer's wire may
  carry. `hasRemoteDescription` is then set only while the partner's description is in place, and
  every candidate in the pool or under way is of that partner, so neither the direct branch nor the
  flush adds one early. `leaves = 0` cannot be dropped: after a quit the survivor is paired again
  while its peer connection keeps the old description, and both properties are false
  (`channels_disagree`).

For any set of devices and any bounds (assumed: `None` is no device), `SendPageProofs` proves every
property of the `send_page` run: `TypeCorrect`, `SelectionIsTheUsers`, `PendingSendRemembered`,
`FlagCatchesUp`, `SendButtonIsCurrent`, and the action property `NoticesAreToldApart`. The invariant is
the conjunction of the first five with two facts more. The page's `isSending` agrees with
RTCClient's handle: without it a choice of a file, which refreshes the button from `isSending`
alone, could enable it during a transfer. And `suppressPeerSelectActions` is set exactly inside
`applyOnlinePeers` (`SuppressOK`), so the table's notices of a click and of a restored row, which are
the same call, are told apart both ways. Each part leans on a different piece of code: the
selection on the search by address in `applyOnlinePeers`, the pending send on connecting only while
no channel is open and on every opening being told, the flag on `updateConnectionState` asking the
channel instead of believing the notice.

Only model-checked: the action property `NoGhostPanel`, the refinement `ImplementsDelivery`, and
`PairingAnnounced`, `LeaverReleasesPartner`, `LoopTerminates`, `CancelTakesEffect`,
`TransferCompletes`, `LoopEnds` and `NegotiationCompletes`, which are liveness under fairness and out
of TLAPS's reach.

## Plan

The components that keep state are modelled, and every invariant of a passing run is proved. Left to
prove are the two safety properties of an undisturbed first transfer, from one invariant: the
receiver's main queue holds its progress blocks before its cleanups (`NoGhostPanel`), and the bytes
on disk, on the channel, in the loop's hands and not yet read add up to the size, with `ft_done` behind
all chunks (`ImplementsDelivery`).

## Not modelled

* Layout, labels, alerts, progress values, navigation between the pages, the acknowledgement of a
  refresh, and `hello`: no state depends on them.
* The contents of SDP and ICE messages.
* A failing WebSocket: a failed receive only re-arms itself, and nothing reconnects, so
  an app whose socket fails only falls silent. To the server that is a socket that closes, which is
  modelled; to the app it is a server that never answers.
* `AppDelegate.m` builds one window and one container, and the packaging script is a linear build.
* `src/s1`: exercises in building with GN and Ninja, unrelated to the app.
* The vendored WebRTC headers under `include/` and the vendored `ws`. They are third-party code, and
  far longer than the app and the server together. Of WebRTC only the headers are here: the
  implementation is a binary framework, so there is no code of it to translate. What this code uses
  of them (the order of a peer connection's operations, the limit of a channel's queue, a socket's
  CLOSING state) is modelled and marked external.
