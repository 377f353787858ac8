# A TLA+ model of AirClip

AirClip moves clips between an iPhone and a Windows PC on one LAN. This
directory models its protocol core and the applications that drive it,
model-checks them with TLC, shows two of them to implement abstract
specifications, and proves the invariants of all its modules with TLAPS for every
value of their constants.

## The system

| Component | Where | State | Operations |
|---|---|---|---|
| AEAD channel | `crates/airclip-core/src/crypto.rs` | a key and a counter per direction | `seal`, `open` |
| Key agreement, SAS | `crypto.rs` | identity and ephemeral key pairs | `dh`, `derive_session_keys`, `keyed_mac`, `sas_input`, `sas_emoji` |
| Staged-clip ring | `stage.rs` | the last clips copied on the PC | `push`, `list`, `get`, `clear` |
| Session | `session.rs` | role, state, pause flag, channel | `start_phone`, `on_frame`, `push_clip`, `request_*`, `send_*` |
| Phone client | `client.rs` | socket and session | `open`, `beam`, `stage_list`, `stage_item`, `begin_pairing`, `confirm` |
| Pairing | `pairing.rs` | one state machine per role, the pairing URL | `on_frame`, `confirm_sas`, `reject_sas`, `to_url`, `parse` |
| CoreHandle | `ffi.rs` | identity, peers, hints, pending exchange | `start_pairing`, `confirm_sas`, `cancel_pairing`, `forget_peer`, `*_await` |
| Frame codec, CBOR maps | `frame.rs`, `cbor.rs` | a stream's buffer | `encode`, `decode`, `from_value` |
| Discovery | `discovery.rs` | none; mDNS | TXT records, `truncate_name` |
| Agent server | `apps/windows/src/server.rs` | peers, pairing offer, pause flag, ring, limiter | accept loop, one task per connection, event channel |
| Keystore | `keystore.rs` | identity and pairings files | `upsert_pairing`, `save_pairings` |
| Agent shell | `main.rs` | main thread, event pump, staging thread | menu commands, `AgentEvent`s |
| Clipboard | `clipboard.rs` | reader thread, own-write guards | `spawn_watcher`, `get_text`, `set_text` |
| Tray, window, toasts | `tray.rs`, `pairing_window.rs`, `toast.rs` | menu, status, view | clicks, `set_status`, `run`, `toast_preview` |
| iOS app | `apps/ios/AirClip` | pairing phase, peers | screens calling CoreHandle |

How they interact. The phone opens a TCP connection per operation. The PC's
accept loop asks the rate limiter and spawns a task; the first frame makes it a
pairing or a session. All tasks run on a multi-threaded runtime and share the
agent's state through separate mutexes (`stage`, `peers`, `pairing`, `paused`,
the limiter), the keystore's files without any, and an unbounded event channel
that the shell's pump empties: it sets the tray's status and the window's view and
writes clips to the clipboard. The clipboard's reader thread passes what was
copied to a staging thread, which pushes it into the ring. The tray thread turns
clicks into commands for the main thread, which the pairing window blocks while it
is open. On the phone, blocking calls of CoreHandle run on detached tasks while
the user goes on using the screen.

What is hard: an answer that arrives after its call timed out; a write that fails
after its effect took place; a flag, a list, an offer or a sequence number read
before an await and used after it; two tasks rewriting one file; a user who
cancels, rescans or taps while a call is blocked; frames lost, repeated,
reordered, cut or damaged; restarts and lost identities; counters, names, buffers
and windows at their ends. `PROJECT.json` lists these as hazards, each at its line.

What makes each part correct:

- channel: no nonce twice under a key; nothing accepted twice, out of order or
  under another type; no refused frame may block the genuine ones after it;
- handshake: both ends agree on who the peer is and on the keys; the PC accepts
  only what a paired phone made recently; every session has keys of its own;
- framing: what goes in comes out, once and in order, and a receiver's buffer is
  bounded whatever it is sent;
- ring: exactly the newest acceptable clips;
- session: an acknowledged clip arrived, a refused one never does, none arrives
  twice, or in a session that read its frame while paused; every request is
  answered; every task ends;
- pairing: the PC stores a phone only if its user confirmed the code of that
  exchange, both sides having computed it from the same values; what was
  confirmed gets stored; the user can reach every exchange that waits;
- limiter: bounded admission over any span, if not the documented bound; a ban
  that was waited out is over;
- agent: what was copied last is staged; the clipboard is released; menu and tray
  tell the truth, and a click takes effect.

## Modules

`AeadChannel` - two ends of `crypto.rs::AeadChannel`. `tx`/`rx` are the two
`Direction`s of each end; `sealed[e]` is every frame end `e` has sealed, and any
of them may be given to the peer any number of times, in any order, under any
frame type and any counter (`Open`), or damaged (`OpenDamaged`): the transport is
arbitrary. A frame decrypts exactly when key, counter and type are those it was
sealed with. The counter's width is the constant `MaxCtr`.

`Handshake` - `start_phone` (`Open`), `on_hello` (`OnHello`, `OnHelloRefused`) and
`on_hello_ack` (`OnHelloAck`) with every check they make. Keys are symbolic: a
Diffie-Hellman value is the set of the two key pairs, a MAC or a derived key the
record of what it is computed from. Any HELLO or HELLO_ACK sent so far may be
delivered on any connection, again, late, or with one field altered. Phones'
clocks may be ahead of the PC's; identities are lost and made anew, pairings are
made, the agent restarts.

`Wire` and `FrameFifo` - one direction of a `Framed` stream. `Send` is
`FrameCodec::encode`; `Read`, `TakeFrame`, `Refuse` and `End` are the turns of
`Framed::next` around `decode`, over bytes that arrive in pieces of any size.
A connection ends in two ways, either of which may lose what is on its way: the
peer closes it (`PeerCloses`), or it is reset (`Breaks`), and then `next` fails
with an io error once what has arrived is read, be the buffer empty or not.
Base, magic and field widths are constants. `FrameFifo` is what it promises: a
queue of frames that may end. `ImplementsFifo` is the refinement; `got` maps to the
frames taken, `st` to whether the queue is over.

`Formats` - the conversions as operators, with what each is for as a property of
its input: cutting a name to a byte limit, TXT records, the pairing URL and its
hosts, payload maps, the emoji's bits, previews and their XML escaping. There is
nothing to step through: the state is one input, chosen at the start. A conversion
that goes through a text character by character is a recursive function of how
many it has read. A URL is its bytes, but that a run of unreserved characters the
code does not look into (a key, a scheme, a public key in base64) is one word.
`QrParse` finds scheme, authority, query and fragment as `Url::parse` does, and
then makes the checks of `pairing.rs` in their order. `UrlEncode` escapes each byte
outside the 66 unreserved ones, whatever it stands for; names are UTF-8 throughout,
so what the lossy decoding does with other bytes is left out. `LocalHosts` drops
loopback and IPv4 link-local interfaces, as `local_hosts` does, and keeps every
IPv6 address, fe80 ones with them. `NoXml` are the characters XML 1.0 forbids:
`xml_escape` passes them on and the reader (`ReadChar`) refuses the text.

`StageOps`, `StageRing` - the operations of `stage.rs` as operators on a
sequence, and the ring as a state machine with the history of accepted clips.
`Session` uses the same operators for the agent's ring; `Clipboard` extends
`StageRing`.

`Session` - `phone[c]` is the phone's `Connection` (phase, session state, the call
in progress), `task[c]` the PC's task in `run_session`, `toPc`/`toPhone` the two
streams. `PhoneOpen`, `PhoneHelloAck`, `PhoneOpenFails` are `Connection::open`;
`PhoneBeam`, `PhoneStageList`, `PhoneStageItem` the first halves of the calls;
`PhoneReceive` one turn of their reply loops (`OnReply` says what each makes of a
frame); `PhoneEof`, `PhoneReset`, `PhoneTimeout` the ways `recv_frame` returns
without a frame. `Reads` is the head of `run_session`'s loop: the task takes its
next frame in hand (`turn`) and copies the agent's pause flag into the session
(`sessPaused`), and the flag's lock is released. The handler of the frame, with the
events it emits and its replies, is a step of its own (`Handles`, in the `Pc...`
actions), so that the user may pause, and other tasks run, between the two.
`ok = FALSE` is a failed write, which leaves
through `?`. Of HELLO's checks, the subject of `Handshake`, only the verdict is
kept. PING and PONG have no sender and are left out. `done` and `events` are
histories.

`BeamDelivery` - what beaming promises its user, without connections or frames:
a clip is delivered at most once or lost; "Ok" is said only of a delivered clip,
"refused" only of one that never will be; only what was let in before a pause is
delivered after it.
`Session!ImplementsDelivery` is the refinement: a clip is under way while its
CLIP_PUSH is on a stream whose task still reads, let in while a session that saw
the agent unpaused has it in hand (`LettingIn`), delivered when `ClipArrived` is
emitted, acked or refused when `beam` has returned so. A delivery carries its place
among the events, so that deliveries are a set and each is later than those before.

`Pairing` - `core[p]` is a phone's CoreHandle with the app's pairing phase,
`link[c]` its side of connection `c`, `task[c]` the PC's `run_pairing`. A token is
the number of the window that made it; a code is the record it is computed from
(`Basis`). `StartPairing`, `Dial`, `PhoneAck`, `PhoneShow`, `StartFails` are
`start_pairing`, split where it blocks and where it drops its lock; `ConfirmSend`
and `ConfirmStore` are `confirm_sas`. `PairReqAccepted/Refused/NoWindow`,
`PcConfirm` and `PcMismatch` are `PcPairing`'s handlers; `PcLoad`, `PcWrite`,
`PcRename` are `upsert_pairing`, split at its file operations; `PcComplete` is the
rest of `Completed` (publishing the list, closing the window and announcing touch
independent state and are one step). App and agent may stop and start again at any
moment, keeping only their files. The user is not assumed to compare codes well:
any code on screen may be confirmed.

`RateLimiter` - `allow`, as the accept loop calls it, per address: the connection is
dropped (`Drop`), served (`Admit`) or begins a ban (`StartBan`), while a clock
passes (`Tick`). It shares the run `wire`, as what stands at the door of
the same network, and runs there from an initial state of its own.

`Clipboard` - the reader thread (`ReaderTick`, `ReaderDrain`: the 100 ms of
coalescing; `ReaderSeq`: the comparison with the guard; `ReaderFormat`,
`ReaderOpen`, `ReaderRead`: `get_text`), the staging thread (`Stage`) and
`set_text` (`Writer...`), each split at every Win32 call between which another
application can act. The Windows clipboard (one text or none, a sequence number,
at most one opener) is external.

`Shell` - the tray thread (`Click`, `TrayWakes`) and the main thread
(`MainOpenPairing`, `MainSetPaused`, `MainSetAutostart`, `MainQuit`,
`WindowCloses`), with the two queues between them.

`Agent` - `Clipboard` and `Shell` composed by the event pump (`Pump...`). The
server is its environment: sessions come and go, pairings proceed, and clips arrive
at any time, also just after a pause, since a session looks at its own copy of the
flag.
Sessions may end unannounced (`silent`), as `Session` shows they do.

`MC...` modules give the constants of the instances. Operators whose names end in
`_Something` next to the definition they vary are deliberate defects (mutants):
each property is known to fail when one of them replaces the definition.

## Runs

| Run | Shows |
|---|---|
| `aead_channel` | Counters 0..2 (so both the last value and exhaustion occur), two frame types, one plaintext. `NonceNeverReused`, `OpenedInOrder`, `OpenedAuthentic`, `NeverWedged`. |
| `handshake` | Two phones, two connections, a replay window of one and a clock that passes it, phones' clocks right or ahead of the window, three pairings, restarts, lost identities or altered frames. `PhoneAgrees`, `PcAuthentic`, `KeysFresh`. It also passes with four such events. |
| `wire` | Two frames of the sizes that matter (empty, with a payload that looks like a header, the largest, one too large) cut in every way, closed and reset at every point, and foreign bytes of six kinds: `ForeignContained`, `FailsForAReason`, `ImplementsFifo`. Other initial states are the inputs of `Formats` (names of up to two bytes from those a URL gives a meaning to, every set of interfaces, maps of up to three pairs, digests, texts of up to four characters, a forbidden one among them): `WireFormats` (`NameCut`, `HintIsAdvertised`, `ScanYieldsOffer`, `MapOrderFree`) and `ScreenFormats` (`EmojiTellApart`, `ToastReadable`). One more starts `RateLimiter`: two addresses, limit 2, window 2, ban 3, seven moments: `SpanAtMostTwice`, `BanEnds`. |
| `session` | One connection, two calls on it (the second meets the first one's late answers), clips at and above the limit, a ring of two and three copies (so ids are evicted between list and get), one damaged frame, any pausing. `BeamAcked`, `EventsInOrder`, `StageAnswersTrue` (`ListIsCurrent`, `GoneIsTrue`), `PauseHolds`, `ImplementsDelivery`; under fairness `RequestsAnswered` and `TasksEnd`. |
| `pairing` | Two phones, two connections, two windows, a clock that passes the lifetime of a token, one fault (altered frame, failing file operation, restart of the agent), at most two windows, ticks and faults together, and any scanning, tapping, cancelling and stopping of the app. The phones are interchangeable, so the first connection is taken to be one phone's. `ConfirmedByUser`, `StoredConfirmed`, `PendingIsTheWaitingOne`, `CodesAgree`, `ConfirmsWhatIsShown`, `HintsKnownGood`; under fairness `ConfirmedGetsStored`. |
| `pairing_token` | Violated: "Token is single-use" - each connection has its own copy of the offer. |
| `pairing_persist` | Violated: "pairing persists across restarts on both sides" - two tasks rewrite the pairings file at once. |
| `rate_limiter` | Violated: "≥ 20 unauthenticated connection attempts/min from one address → drop for 5 min" (`PROTOCOL.md:225`). Windows begin with a connection and forget the one before, so a minute across the edge of two admits up to twice the limit; and within a window it is the 21st connection that is dropped, not the 20th. |
| `agent` | A ring of two, texts empty, at and above the limit, two attempts to open the clipboard, two sessions, and three copies, clips, clicks, faults or server events in any order: `KeepsNewest`, `SettledIsStaged`, `MenuAgrees`, `ConnectedIsTrue`; under fairness `CopyGetsStaged`, `LockReleased`, `PauseTakesEffect`. |
| `agent_status` | Violated: what `tray.rs` says of its statuses - after the first pairing the tray still says that no pairing exists. |
| `agent_own` | Violated: "the update it provokes is ignored" - `set_text` records its write in a guard the watcher does not have. With one guard for both the property holds. |
| `agent_pause` | Violated: "`clear()` runs on Pause/Quit" - nothing calls it. |

Each run checks the type invariant of its modules, except that `TypeOK` of
`Handshake` and `Wire` is there for the reader only.

The bounds are small, and chosen so that each limit is passed: more copies than
the ring holds, more calls than answers in time, a clock beyond a token's
lifetime, a replay window and a ban, counters beyond the last, a frame beyond the
largest. One connection is enough for `session`: tasks share only the pause flag
and the ring, which its user changes at any moment, and the theorems about
`Session` are for any number of connections.

Some properties have a premise, because without it they fail:

- `ListIsCurrent` and `GoneIsTrue`: no earlier call on the Connection timed out.
  A STAGE_LIST carries nothing that ties it to its request, so on a `Connection`
  used again the late answer of one call is taken for that of the next. CoreHandle
  opens a Connection per call.
- `ConfirmsWhatIsShown` and `HintsKnownGood`: the user did not leave the pairing
  screen during a call (`left`). `cancel_pairing` does not stop a `start_pairing`
  under way, which then replaces the pending exchange under the code on screen,
  and a later scan replaces the addresses of an earlier one.
- `ConnectedIsTrue`: no session ended through `?`, which announces nothing.
- `ConfirmedGetsStored`: no fault, and no other phone's pairing at the same time
  (the subject of `pairing_persist`).

Behaviours the models show that no document or comment rules out, so that there is
no property against them: completing an exchange of an earlier window closes the
window that is open now (`PcComplete`); PAIR_CONFIRM is not acknowledged, so the
phone may store a pairing the PC could not (`ConfirmStore`); a clip is
acknowledged before it is written to the clipboard, which may fail
(`WriterFails`); a clip whose frame was read before a pause arrives after it
(`PcClipPush`); the toast of a clip with a control character is not well-formed XML,
against which `toast.rs:27-28` promises nothing, so none is shown (`ToastReadable`
is about the other clips); and the pairing window shows the latest event of any
exchange (`PumpPairing`).

Deadlock is not checked where a behaviour may end: in `agent` the user quits, in
`wire` both ends close, in `handshake` the budget of events and the clock run out.

Fairness. `Session!FairSpec` assumes weak fairness of the PC task's reads
(`PcRuns`), of the phone's reading of an answer or an end of stream that is there,
and of the end of the handshake: the runtimes poll what is ready. Nothing is
assumed of timeouts (`PhoneTimeout`, `PcIdle`), users, or the network's faults; so
`RequestsAnswered` says that no call depends on its timeout to return.
`Pairing!FairSpec` assumes weak fairness of the PC's tasks, and nothing of the
phone: a confirmation that was sent needs no more of it. `Agent!FairAgent` assumes
it of the reader, staging and main threads and of the pump, each of which blocks
only on its own channel; nothing is assumed of the user, the phones or other
applications, not even that they release the clipboard (the retries are finite),
nor that the tray thread is ever woken. `Wire!Spec` assumes that the task that
owns the stream goes on calling `next`.

## Proofs

All for arbitrary constants under the named assumptions of the modules
(`MaxCtrAssumption`, `HandshakeAssumption`, `PairingAssumption`, `StageAssumption`,
`LensAssumption`, `SessionAssumption`, `LimiterAssumption`, `RetriesAssumption`,
`AutostartAssumption`, `AgentAssumption`, `WireAssumption`, `FormatsAssumption`):
bounds are naturals, sets are of the right kind, and of the code's numbers only
that a ban is no shorter than the window it punishes, that the clipboard is tried
at least once, that the largest frame length fits the length field and that a byte
tells at least two values apart. `FormatsAssumption` says what kind of input each
conversion has: characters have a positive width, the pairs of a TXT record arrive
in some order of all of them, names in a pairing URL are bytes, an address contains
no ",", and the characters XML forbids are none of those `xml_escape` writes. Every
safety invariant the runs check is a theorem.

`AeadChannelProofs`. `NonceNeverReused` is not inductive: it needs that the frames
an end has sealed carry exactly the counters below its `tx` counter, which is why a
new frame's counter is fresh. `OpenedInOrder` needs that the receiver's counter is
that of the last accepted frame, and `NeverWedged` that it is always one the peer
has already used. `ChannelInvariant` proves these together; `NoncesUnique`,
`NoReplay`, `OnlyThePeer` and `ChannelStaysOpen` follow. The keys of the two
directions differ (`KeysOfPeers`), which is what keeps the two senders' nonces
apart.

`HandshakeProofs`. The network may replay and alter, so the invariant is about what
is on it: every HELLO there was made by a phone's session over that session's own
values (`HelloInv`), every HELLO_ACK by an accepted session of the PC (`AckInv`).
An accepted MAC is then that of one of these, and since equal MACs and equal
Diffie-Hellman values were computed from equal keys (`KeyInjective` and the lemmas
after it) the fields agree. `TaskKeys` says what the PC's keys were derived from;
`KeysFresh` follows because each contains the task's own ephemeral key, also for a
HELLO that was accepted twice.

`PairingProofs`. The invariant looks at one connection at a time (`Good`): what the
phone's side, the task and the frames between them say of each other. A
PAIR_CONFIRM over a basis exists only once the user has tapped in the exchange with
that basis (`FramesOk`), and a task completes only on such a frame (`TaskOk`), which
gives `UserConfirmed`; every list of phones, including the ones a task has loaded or
written but not renamed yet, names only phones confirmed so (`SavedInv`,
`StoredOnlyConfirmed`). While nothing was altered all bases are those of the QR
(`ConnAgrees`, `CodesMatch`). `PendingInv` ties the pending exchange to the link that
waits; `ScreenInv`, for a user who has not left the screen during a call, says that
there is one call at a time and that the screen shows it, which is what
`ConfirmedWhatWasShown` and `HintsAreKnownGood` need.

`AgentProofs`, first part: the ring. `KeepsNewest` says the ring is a suffix of
the history; it is inductive with the type invariant. The two cases of a push,
onto a full ring and onto one with room, are lemmas. The clamped depth
(`RingDepthPositive`) is where a depth of zero would break it.

`RateLimiterProofs`. `BanEnds` rests on `BanOutlivesWindow`: a ban ends no earlier
than the window in which it began (because `Ban >= Window`), so the first
connection after it starts a new window (`ExpiredBanRolls`); and a counter above
the limit belongs to a ban, which also bounds the counter. `SpanBounded` needs to
know how many of the admissions counted in a span the current window accounts for
(`Served`), and that the rest are older than it (`OlderThanWindow`).

`SessionProofs`. `BeamAcked` needs the acknowledgements under way: `AcksArrived`
says that every CLIP_ACK in a stream to the phone names a clip the PC has handed
on. It holds because `on_clip_push` emits before it sends, and it is kept by every
other step because events are only ever appended (`EventsGrow`, `ArrivedStays`).
Each way a step can change a stream to the phone or the calls returned is a lemma
(`AcksTail`, `AcksAppend`, `DoneReturned`); each action's proof picks one.
`PauseIsRespected` proves the action property `PauseHolds`. The one step that
announces a clip is that of a session which let it in (`StepAnnounces`). That no
session joins these while the agent is paused needs `TurnInv`: a task that has a
frame in hand serves its connection, and that frame is still the first of its
stream. So every step leaves the turns as they are, ends one, or is `Reads`, which
takes the flag as it is (`Continues`, `PhoneTurn`, `PcTurn`).
`EventsOrdered` needs that the state of a task tells which events there can be of
its connection (`TaskTells`). `StageAnswersAreTrue` needs that on a connection
where no call timed out at most one frame is under way, and that it belongs to the
call in progress (`OneUnderWay`): this is where the premise of the property is
used, and without it the invariant fails as the property does. `RingInv` says that
ids are consecutive copies, so that an id once evicted never comes back.

The second part of `SessionProofs`: Session implements `BeamDelivery`. The
invariant `DInv` holds of each connection: calls number their clips upwards
(`Numbered`); the clips on the way to the PC were sent, in that order
(`PushesRise`), and come after all that have arrived (`ArrivedEarlier`), which is
why an arrival is never a second one; and while an ERROR is under way the clip of
the call that will read it has not arrived and never will (`ErrorIsLast`), which
is why a refusal is true. Every action at a connection is one of five kinds of
step (`StepKind`: quiet, arrival, refusal, a call returns, a call sends), and the
refinement and the invariant are proved once per kind (`KindDelivers`): a quiet
step or a refusal is the service's `Lose`, an arrival its `Deliver`, a return its
`Ack`, `Refuse` or nothing, a request its `Beam`, or nothing when the PC's task is
gone already. `Reads`, which begins a turn, is apart: it is the service's `LetIn`
when it finds a clip and the agent not paused. An arrival takes its clip off the
ones let in (`InLetIn`), and no other step adds to them.

`AgentProofs`, second part. Every step of the agent is a step at the clipboard or
leaves it alone (`ClipMoves`), and likewise for the user interface (`ShellMoves`),
so each part has an invariant of its own. `SettledIsStaged` is about what the user
copied. Its invariant `ReadInv` says more, because of the finding of `agent_own`:
when the reader is idle with no update pending and the last read did not fail, the
last text it handed on, or the newest staged one, is what the clipboard holds; it
also says that the watcher's guard is never given a number, which is why no update
is skipped. `CmdsInv`: the last command of each kind under way asks for what the
menu shows. `TrayInv`: Connected is the last status sent only if a session is
alive or the news of its end is still in the queue or in the pump's hands.
`AgentRing` shows that the agent's threads use the ring as `StageRing` does, so
its theorems hold here too.

`WireProofs`. Numbers in a header are recursive functions of their bytes, and the
installed induction theorems take an operator, so the module starts with induction
and recursion over sets, from the least element of a set of naturals (`Least`,
`Induction`, `Recursion`). `LengthRoundTrip` is the length field: what
`to_le_bytes` writes `from_le_bytes` reads, for any base and width and every
number that fits. `EncodedHeader` and `EncodedFrame` follow: what `encode` put,
`decode` takes for one whole frame with nothing wrong, whatever comes after it.
`ForeignIsContained` needs no more than `GotSmall`, since it holds of any bytes.
For the others the invariant is `SInv`: while no more frames were taken than sent,
the bytes buffered, on the wire or lost with the connection are the encoded frames
not yet taken, and behind them what a foreign peer sent (`Coming`). One lemma says
how each kind of step moves a frame along (`ComingSend`, `ComingCut`,
`ComingTake`). `FramesComeInOrder`, `FailsOnlyForAReason` and `StepsOfFifo` come
from it; the last is the refinement `ImplementsFifo` without its fairness: the
codec starts as a `FrameFifo` does, and each of its steps is one of `FrameFifo` or
leaves it alone.

`FormatsProofs`. Each conversion folds over its text, so it is first shown what one
more character makes of its result (`FoldedAppend`, and `EscapeGrows`, `ScanGrows`,
`EncodeGrows`, `DecodeGrows`, `SplitGrows`, `KeepGrows` from it); texts of any
length follow by `SeqInduction`, itself from the induction of `WireProofs`. The
round trips are `XmlRoundTrip`, `UrlRoundTrip` (for any bytes) and `SplitOfJoin`
(for parts without the separator); an encoded text holds none of the bytes that
would end a field, the query or the URL. On these rest, step by step, what the
phone reads of the host list (`HostsAre`), of each field (`FieldRead`) and of the
query (`UrlRead`), and that scheme, authority and query are cut from the URL where
they were put together (`SidesOfCut`, `UrlCut`, `UrlParsed`); a text without a
scheme is refused (`NoScheme`). `EndsAtBoundary` says that the search of
`truncate_name` ends at the last character boundary that fits; `LastOfOne` that a
key which occurs once is found wherever it stands, which makes records and maps
independent of their order; `SameEmoji` reads the emoji as digits of the digest,
for any number of bits each.
`WireFormatsAreRead` and `ScreensTellTheTruth` join them: what one device writes
the other reads, and what a user is shown says what it stands for, for texts, maps,
lists of addresses and limits of any size. They say nothing of inputs outside
`FormatsAssumption`.

Proving changed five modules where a definition had no meaning, or another one,
outside the checked instance: the reply table of `Session` (`OnReply`) had
overlapping cases, of which TLC takes the first and TLA+ any; `Clipboard` started
with a text of exactly the limit's length, which need not be among the lengths; the
event queue of `Agent` had no set its events came from; `Wire` and `Formats` were
written with folds, and `Formats` did not say what its inputs are. The checked
behaviours are the same but for the text the clipboard holds at the start.
`BeamDelivery` keeps its deliveries as a set with their places rather than as a
sequence for the same reason: a sequence filtered by a predicate is recursive.

Only model-checked: liveness, which fairness puts outside the prover's reach. These
are `RequestsAnswered`, `TasksEnd`, `ConfirmedGetsStored`, `CopyGetsStaged`,
`LockReleased`, `PauseTakesEffect`, and of `ImplementsFifo` that a frame is
eventually taken or the connection over. The type invariant of each module is
proved as well.

## Not modelled

X25519, HKDF, BLAKE3 and ChaCha20-Poly1305 themselves (results are equal exactly
when computed from equal values); the bytes of CBOR (ciborium) and of stored
records; registering and browsing with the mDNS library; DPAPI and the iOS
keychain; drawing, icons, wording and logging; the single-instance mutex; the
simulated peer, which only drives the client; generated bindings. Each side's
clock is taken to be monotonic. Stage ids and clip ids are taken to be unique (64
random bits).

## Plan

1. An abstract store that `Pairing`'s file steps implement when tasks do not
   overlap.
