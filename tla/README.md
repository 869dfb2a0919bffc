# Formal models of the decentralized messenger

TLA+ models of the messenger in this repository, checked with TLC on small instances, and
theorems about them proved with TLAPS for every value of their constants. Each module is a
translation of the code it names; `PROJECT.json` maps every definition to its lines.
Paths below are relative to the repository's root.

## 1. The system

| Part | Code | State | Operations |
|---|---|---|---|
| Rate limiter | `relay/src/ratelimit/mod.rs` | a bucket (tokens, start of window) per identity | `check` |
| Store-and-forward | `relay/src/store.rs` | one slot per recipient: envelope, expiry | `store`, `pickup`, `purge` |
| WebSocket bridge | `relay/src/ws.rs` (server), `relay/src/pow/` | connections, active challenges, limiter, two stores | `challenge`, `publish_prekey`, `lookup_prekey`, `send_envelope`, `pickup_envelope` |
| Rust relay client | `relay/src/ws.rs` (`WsRelayClient`) | one stream | the four operations, `close` |
| Relay process | `relay/src/main.rs`, `lib.rs`, accept loops of `ws.rs` | options, bound ports, bridge | start, listen, bind, accept, stop |
| Prekey pool | `core/crypto/src/prekey.rs` | available records, consumed ids, next id | `take_one_time`, `replenish_to_target` |
| Ratchet session | `core/crypto/src/ratchet_session.rs`, `double_ratchet.rs`, `session.rs` | libsignal's store, own prekeys | `new_bob`, `publish_bundle`, `new_alice`, `encrypt`, `decrypt` |
| Group session | `core/protocol/src/group.rs` | roster, chain key | `add_member`, `remove_member`, `rotate_sender_key`, `encrypt_as`, `decrypt_as` |
| Device fan-out | `core/protocol/src/fanout.rs` | three tables of linked devices | `establish`, `encrypt_to_all`, `decrypt_as`, `remove_device` |
| Devices and bundles | `core/crypto/src/lib.rs`, `prekey.rs`, `core/transport/src/dht.rs` | signed device list, signed prekeys, DHT records | `add_device`, `generate`, `publish`, `lookup`, `decode_and_verify_bundle` |
| Encrypted store, backup | `core/storage` | an SQLCipher file; a container format | `open`, `put_*`, `get_*`; `export`, `import` |
| Online delivery | `core/transport/src/online.rs` | registry of connected peers | `mark_peer_*`, `peer_status`, `deliver` |
| Transport, Tor switch | `core/transport/src/lib.rs`, `privacy.rs` | privacy config, transport of the swarm | `build_swarm*`, dial, listen |
| Desktop verification | `clients/desktop-tauri/src-tauri/src/verify.rs` | state per view, expected number per thread | `new`, `verify_safety_number` |
| Web relay transport | `clients/web/src/relay_transport.ts` | one socket, one pending request | five operations, `close` |
| Web relay connection | `clients/web/src/useRelayConnection.tsx` | status, receiver session, retry timer | effect, retry, change of url |
| Direct conversation | `clients/web/src/Conversation.tsx` | history, sessions, poll in flight | receive loop, `send` |
| Group view | `clients/web/src/GroupConversation.tsx` | wasm handle, member lists, history | create, add, remove, send, reload |
| Verification | `clients/web/src/SafetyNumberVerification.tsx` | verified mark, saved record | effects, verify, unverify |
| Identity, storage gate | `clients/web/src/identity.ts`, `storage_key.ts`, `storage.ts` | storage key, identity record | load or generate |
| Password store, backup panel | `clients/web/src/browser_storage.ts`, `BackupPanel.tsx`, `backup.ts` | salt, encrypted values | open, set, get, export, import |
| Device linking | `clients/web/src/device_linking.ts`, `DeviceLinking.tsx` | linking phase, remote key, number | show, scan, confirm |
| Bindings | `core/bindings` | session and group handles | `create_receiver_session`, `establish_session_from_bundle`, `encrypt_message`, ... |

How they interact. A client publishes a prekey bundle at a relay and picks up envelopes
from it; both go through the web transport to the bridge, which asks the limiter, redeems
a proof-of-work challenge and enters one of its two stores. A sender looks the bundle up,
starts a ratchet session from it and sends envelopes to the recipient's slot. The group
view drives group sessions through wasm handles. History, marks, identity and members are
kept in the browser through `StorageGate` and `BrowserStorage`.

What is hard to get right, and hard to test:

- tasks of the bridge that read the clock, wait for a lock and then use what they read;
- one pending request per transport, shared by a receive loop and `send`, on sockets whose
  events arrive after they were replaced;
- React effects that see the state of an earlier render, and continuations that go on after
  an `await` with what they captured before it;
- reads and writes of one browser record that end in any order, in several tabs;
- calls that fail half way, after a key was ratcheted or a challenge used up;
- counters at their limit, byte-sized counts and lengths, and decoders fed damaged bytes;
- processes that stop between two statements, callers that drop a future;
- a check and the use of what it checked, with a proxy, a peer or a port that goes in between;
- answers of a DHT that may be old, another owner's, or put together from parts.

`PROJECT.json` lists these as hazards, each at its line, with the properties about it. Where the
code does go wrong there, the property either fails, as a run that ends in a violation, or it
excepts the situation by a flag and catches the same damage only when it comes about in another
way; the hazard's note says which.

## 2. Modules

**Relay.**
`TokenBuckets`: the buckets, with `Admit` and `Exceeded`, the two outcomes of `check`.
`RateLimiter`: a caller of them whose clock never goes back (the contract in the code's
documentation).
`StoreSlots`: the map of a store, and what each method does to it under the mutex.
`RelayStore`: threads that use it and read the clock before they take the mutex. This is
also the *abstract specification* of the stores of the bridge.
`WsRelay`: a task per connection, cut into the steps between which another task can run;
`pc[c]` is the step. It instantiates `TokenBuckets` (with a clock read earlier, so not
monotonic at the lock) and `StoreSlots` (twice).
`WsStores`: the refinement mapping under which each of the two stores is a `RelayStore`.
`RelayProcess`: processes on one host that start, bind, accept, stop and start again; the
bridge's state is made once per accept loop, and named after the start that made it.

**Web client, over the relay.**
`RelayTransport`: the class, its operations and the browser's sockets. `micro` is the queue
of continuations: an event of a socket is handled only when it is empty.
`RelayConnection`: runs of the effect (generations) with their loops, publish attempts that
arrive late, and the receive loop that takes the session over. A bundle is named after the
session that can decrypt for it.
`Conversation`: receive loop and `send` over an instance of `RelayTransport`.

**Web client, local state.**
`History`, `Verification`, `LocalIdentity`, `BrowserBackup`, `DeviceLinking`,
`GroupConversation`: each has the state of its component or class, the record in the
browser's storage, and the reads and writes under way (counted: they end in any order).
In `History` several tabs share one record; `behind` is the set of tabs that may lack what it
has, `unsaved` that of tabs with a message no effect saves. In `BrowserBackup` an installation
keeps its password in localStorage, cannot (`denied`), or loses it (`cleared`). In
`GroupConversation`, which has one tab, the sender's identity is given by the parent component
(`given`) or generated by the mount: the first chain key of a group is a function of it.
`DesktopVerification`: the views of the desktop shell and the thread-local that they share.

**Core.**
`GroupSession`: chain keys are named by root and step, so that "the same key" is equality. Root 0
is derived from the sender's public key, so anybody can compute it (`Derives`).
`PreKeyPool`: ids with their width; additions wrap as in a release build.
`RatchetSession`: receivers and senders behind the handles of the WebAssembly binding, a wire
that repeats, reorders and relabels; what libsignal does is in `Accepts` (external).
`DeviceDirectory`: device lists, signed prekeys, and a DHT that answers a lookup with anything
that can be put together from what exists. Signatures are external: they are records of who
signed what.
`OnlineDelivery`: calls cut where `online.rs` releases its mutex; `during` is what the
connection layer said of the peer while the call was under way.
`PrivateTransport`: the Tor switch with a proxy that comes and goes; `wire` is every contact
with the network.
`Fanout`: three tables, and ciphertexts the caller keeps across fan-outs.
`CoreStore`: `open` statement by statement, by several processes.
`RelayClient`: round trips whose replies carry no request id, dropped futures.
`Core`: the machines of the core that share no state (pool, fan-out, ratchet sessions, store,
relay client) side by side, without the formats, so that proofs can use it.
`Codecs`: encoders and decoders over sequences of scaled bytes; recursive, TLC only.

**For TLC.** `MC*` modules give constants small values and symmetry. `MCWebRelay`,
`MCNetwork`, `MCWebState` and `MCCore` put parts that share no state side by side: `focus`,
chosen initially, names the part that moves. Every behaviour of every part is explored; no
product of independent parts is, and none is needed since no property relates two of them.

**Proofs.** `RateLimiterProofs` and `RelayStoreProofs` extend the module they are about;
`WsRelayProofs` extends `WsStores`, `CoreProofs` extends `Core`, and `NetworkProofs`,
`WebRelayProofs`, `WebStateProofs` and `ConversationProofs` extend the `MC` module of their
parts, whose constants are still arbitrary there: only the `.cfg` gives them values. `Fanout`
prefixes the names `Init`, `Next`, `Spec` and `TypeOK` because `Core` extends it beside
`PreKeyPool`.

Variables that are not in the code record history for the properties: `granted` and
`refused`, `calledAt` and `fate`, `sent` and `captured`, `drawn` and `handed`, `opened` and
`removed`, `during`, `wire`, `inputs`; and flags such as `raced`, `cleared`, `foreign`, `overlap`,
`behind`, `unsaved`, `stale`, `cancelled`, `mixed`, which name
the situation in which a promise is known not to hold (section 6). Operators whose comment
starts with "Mutant" are deliberately wrong variants of the definition that follows: with
one of them in its place, a property of the run must fail. No specification uses them.

## 3. Runs

States are distinct states. Every run explores its whole bounded state space.

| Run | States | Question and answer |
|---|---|---|
| `ratelimiter` | 180,555 | With a clock that never goes back: at most two budgets per window length (`SlidingBudget`); a refusal means a whole budget was granted in the last window, and `retry_after` ends exactly when the oldest of these leaves it (`RefusalJustified`). |
| `relaystore` | 3,829 | Threads that store, pick up and purge: an envelope is in one slot or gone (`OnePlace`), and its time to live is exact although it is computed before the mutex (`TTLExact`). |
| `wsrelay` | 365,154 | Two connections: every stored payload used up a challenge of its own (`PaidOnce`), is delivered at most once (`AtMostOnce`), an error means nothing was stored (`FailClosed`), limiter windows never overlap although `now` may be stale (`WindowsDisjoint`), both stores implement `RelayStore` (`StoresRefined`), the handling of a request comes to an end, whatever other connections wait for (`EveryRequestAnswered`). |
| `transport` | 292,697 | Operations awaited one after the other on one transport: each gets its own answer (`OwnReply`, which also says that no connection is leaked) and every operation is settled (`OpSettles`). Overlapping runs of the hook's effect: status, session and warning agree (`StatusHonest`); a client that is not connected goes on trying (`KeepsTrying`). |
| `stale_session` | violation | "drop any receiver session from a previous relay": the receive loop keeps it. Section 6. |
| `conversation` | 1,244,658 | Receive loop and `send` on one transport: an envelope is rendered at most once and only if it decrypts, and pickups do not overlap (`RenderedOnce`). |
| `conversation_live` | violation | "the loop retries on the next interval" does not hold: section 6. |
| `network` | 463,556 | Group sessions: no message key is used twice (`KeysUsedOnce`); from the first rotation on only members read (`ReadersAreMembers`), and all of them do (`MembersRead`). Directory: linked devices and bundles are those of their owner, and no published bundle is refused (`FromTheirOwner`). Delivery: what a call answers was so during the call (`AnswersWereTrue`). Tor switch: nothing reaches the network but through the proxy, however the proxy comes and goes (`NeverClearnet`). Processes: a bridge runs where and as long as it was asked for, with one state per address (`BridgeAsAsked`). |
| `web_state` | 996,880 | With two tabs, saved history grows (`HistoryGrows`) and is what is shown (`ShownIsSaved`); marks, in the browser and on the desktop, are for keys the user verified (`VerifiedByUser`); the address is stored and stable (`AddressStable`); what was set can be read while the password is kept (`ReadBack`); a device links with the one compared (`LinkedToCompared`); messages go to the members shown, under keys not used before (`RosterShown`). Each up to the situations of section 6. |
| `verification_carried`, `backup_elsewhere` | violation | Two statements of the repository that do not hold: section 6. |
| `core` | 520,985 | A prekey id is not handed out again (`NeverHandedAgain`); a message is returned once, as from its sender, on the receiver whose key its sender was shown (`SentToMeOnce`), and refused for two reasons only (`RefusedForAReason`); a removed device is out (`RemovedIsOut`); an opened store is whole (`OpenStoreIsWhole`); Ok means stored (`OkIsStored`); decoders agree (`DecodersAgree`), invert their encoders and refuse parts (`ReadsWhatWasWritten`); three proof-of-work tests are one (`WorkIsLeadingZeros`). |

Invariants of `WsRelay`, `RelayTransport`, `RelayConnection`, `Conversation` and the parts of
`MCNetwork` include the module's `TypeOK`, so that the theorems about them prove it too. The
typing of `RateLimiter`, `RelayStore`, `GroupSession` and `PreKeyPool` is proved on its own;
`TypeOK` of `MCWebState` and `CoreTypeOK` of `MCCore` are checked by their runs.

### Bounds, and why they are enough

- *Limiter*: capacity 2 and window 2 on a clock up to 5: two full windows and the boundary
  between them, with a partly used bucket on both sides.
- *Store*: three envelopes and two recipients: an overwrite, and a pickup of another slot;
  TTL 1 on a clock to 3 reaches the instants before, at and after the expiry.
- *Bridge*: two connections, two payloads, two challenges and one identity, which is where
  tasks meet; the time to live is 0, so that one tick expires an entry.
- *Transport*: one operation of each kind (a write has two legs) and four sockets: each may
  lose a socket and there is one to spare. *Conversation*: three polls, a lookup and a write
  on two sockets: enough for a poll to be overwritten and for the next one to be due.
- *Connection*: three runs of the effect and five attempts with a burst of two: each run
  passes from the burst to the slow cadence.
- *Group session*: two members, a limit of two and three pushes reach the limit, a
  duplicate entry and a re-addition; two rotations, two messages.
- *Directory*: two identities and two prekeys: an owner and another, an old bundle and a new
  one; two linked devices reach a duplicate. *Delivery*: two peers and two calls. *Tor
  switch*: three dials, so that the proxy goes and comes back between them. *Processes*: two
  processes, one bridge port and three starts: a port in use, and a restart after it is freed.
- *Web state*: two tabs, two messages, three mounts and two writes on their way: a tab that was
  overtaken by another, and writes that end in the other order. Two conversations and two keys.
  Two installations, one of them with two tabs, one item, three passwords and two salts: a
  password that is lost, or drawn by each tab. Two devices and a stranger. Three groups made or
  rotations and two messages: a group that is made again of one identity and repeats a key. On
  the desktop two threads, two views and four inputs.
- *Core*: 12 ids with 14 key pairs, so that the counter passes the end of the type; two
  receivers and two senders with two messages each; two devices, two fan-outs; two
  processes with two keys; four requests (two writes). In `Codecs` a byte is 0..15 and all
  lengths are one byte, so overlong lengths and every truncation of every sample occur.

### Deadlock and fairness

Deadlock is checked for `wsrelay`, whose `Next` says when the system may rest. In the others
the system may really stop: all bounded inputs are used up.

Weak fairness only, and only of steps the program or the runtime takes by itself:

- `WsRelay`: each task's handler (`Handle(c)`) up to its reply: tokio polls every ready task,
  and a `Mutex` is held for one step. The reply is not fair: `ws.send(..).await` (`ws.rs:519`)
  has no timeout and waits until the peer reads. Clients are not fair: they need not send
  anything, nor read what is sent to them.
- `RelayTransport`, `Conversation`: the queue of continuations; `Submit`, the end of the
  proof-of-work search; for each socket `Progress`: it opens, fails, delivers or closes.
  The code sets no timeout, so a peer that is silent for ever is excluded by this. The receive
  loop's continuation after its pickup is fair; timers and users are not.
- `RelayConnection`: a timer that was set fires, a publish ends one way or the other
  (`OpSettles` is why), and the interval of the receive loop goes off.

## 4. Proofs

All are checked by TLAPS (SMT, Zenon, LS4). Each proves `Init => I`, `I /\ [Next]_vars => I'`
for an inductive invariant `I` with one lemma or step per action, and derives its theorems.

| Module | Theorems | Inductive invariant, and why it is needed |
|---|---|---|
| `RateLimiterProofs` | `Typing`, `BudgetHolds`, `RefusalsHold`, `RetryHolds` | The properties speak of the log of grants, the code only of tokens and start. `WindowInLog`: the log entry that opened the window is found by counting back the tokens spent. `PreviousWindow`: a grant a full budget older was made a window earlier. `RefusalWindow`: where the last refusal lies. |
| `RelayStoreProofs` | `Typing`, `OnePlaceHolds`, `LeavesOnceHolds`, `TTLExactHolds` | `CallsFresh`: what a thread waiting for the mutex holds is in no slot and no other thread's hands. `ExpiryKnown`: the expiry is that of the recorded call. |
| `WsRelayProofs` | `ChallengesAreSingleUse` (`PaidOnce`), `DeliveredAtMostOnce` (`AtMostOnce`), `RequestsFailClosed` (`FailClosed`), `WindowsNeverOverlap` (`WindowsDisjoint`), `StoresAreRelayStores` (`StoresRefined`) | A payload has one owner at a time: the one task whose request carried it (`OneCarrier`, `PayloadInv`), then one slot (`BoxInv`), then one response (`ResponseInv`). A challenge is active or paid for one payload (`PaidInv`). Numbers not given out are untouched (`UnusedInv`). |
| `NetworkProofs`, group sessions | `Typing`, `KeysUsedOnceHolds`, `ReadersAreMembersHolds`, `MembersReadHolds` | `SentBehind`: keys used under this root are behind the session's. `CapturedHere`: who copied a key of this root is still a member. After a rotation the root is not 0, the one that is no secret. `RosterExact`, `WireExact`: the vector and the wrappers are the members. |
| `NetworkProofs`, directory | `OwnersHold` | `SignedByOwner`: a prekey signature was made by the one that generated the key pair; without it a signature that verifies says nothing of the owner. `OwnBundle`: what is stored or was published is its owner's own bundle, so none is refused. |
| `NetworkProofs`, delivery | `AnswersHold` | `RegistryIsMark`: the registry is what the connection layer last said. `UnderWay`: a call that has not answered has seen the current mark, and one in its round trip has seen its peer connected, although the registry is not read again. |
| `NetworkProofs`, Tor switch | `TorIsKept` | The transport of the swarm fits the configuration, and dials wait only in a swarm that has the proxy: what has reached the network so far says nothing of what may come. |
| `NetworkProofs`, processes | `BridgesAreAsAsked` | `PortInv`: the holder of a port runs and was asked to serve it. `LoopInv`: an accept loop runs in a process that asked for one and holds its port. |
| `CoreProofs`, prekey pool | `PoolTypes`, `PoolUniqueIds`, `PoolNeverHandedAgain` | All ids drawn are below the counter; pool and handed-out records were drawn. A refill forgets the consumed ids, so nothing weaker keeps them out. |
| `CoreProofs`, fan-out | `FanoutTablesAgree`, `FanoutRemovedIsOut` | A removed device is in no table, and no ciphertext is of a later fan-out or call. |
| `CoreProofs`, ratchet | `SentToMeOnceHolds`, `RefusedForAReasonHolds` | The properties speak of what was returned, `decrypt` looks at the receiver's store. `ReceiverStore`: a session is with a sender that used this bundle and of which something was returned, an address is bound to its own identity, and the one-time prekey is gone only for a session. `ReceiverReturned`: a message was returned exactly if its key is used up. |
| `CoreProofs`, relay client | `OkMeansStored` | `OneFrame`: until a call is dropped, one frame is under way at most, the request of the call in progress or the reply to it; replies carry no id, so nothing else tells whose they are. |
| `CoreProofs`, store | `OpenStoresAreWhole` | What a process has got through `open` is in the file, and its key is the file's from the first query on. |
| `WebRelayProofs`, transport | `RepliesAreOwn` (`OwnReply`) | `OneActive`: callers that await each other leave one operation active, so only its continuation is queued (`Queued`). `Wiring`: a socket that connects or is open is `this.ws`; one that connects is awaited, so nobody replaces it. `Framed`: the only frame on its way is the pending request, and none is between an error event and its close event. |
| `WebRelayProofs`, connection | `StatusIsHonest` (`StatusHonest`) | `Agreement` of status, session and warning, and that what is on the wire are publishes of sessions already made: a late success is the current run's or is ignored. |
| `ConversationProofs` | `EnvelopesRenderedOnce` (`RenderedOnce`) | `PollsOne`: the active pickup is the one `pollInFlightRef` stands for. It needs that only a call makes an operation active: continuations are queued once and can run (`Queue`), and `this.pending` waits (`PendingWaits`). `Rendered`: what was shown is in `seenEnvelopesRef`. |
| `WebStateProofs` | `SavedStaysSaved` (`HistoryGrows`), `ScreenIsSaved`, `MarksAreTheUsers`, `AddressIsStable`, `RestoredIsReadable`, `LinksAreCompared`, `RosterIsShown` | History: without overlap one write is under way at most (`Alone`), and a tab that is not behind has read or written all of the record, so that its next write extends it (`TabInv`: `WasRead`, `Holds`, `Extends`; `Blank`, `Saved` for what is unsaved). Marks: records read, kept and on their way are for verified keys (`Found`, `Kept`, `OnTheWay`). Desktop (`Follows`): the state is what the numbers entered so far make of it. Identity: one tab writes, and only a first record. Backup: the open tabs of an installation that keeps its password have that password and its one salt (`KeysKept`, `SaltsKept`), and every record and backup of it is under both (`OwnRecords`); passwords that are not kept are drawn by one tab each (`KeysApart`). Linking: the number shown is that of the own and the scanned key. Group view: keys used are behind the handle's or of the first chain of an identity used again (`Behind`, `Repeats`), and the roots of handles were made (`Drawn`). |

Assumptions. All are named, stand in the module that declares the constants and are evaluated
by a run: bounds are natural numbers and "nothing" is none of the values it stands beside
(`LimiterAssumption`, `StoreAssumption`, `WsAssumption`, `CallAssumption`, `GroupAssumption`,
`NetworkAssumption`, `CoreAssumption`, `TransportAssumption`, `WebAssumption`); a target fits
in the id type (`PoolAssumption`); the retry burst has an attempt (`ConnectionAssumption`);
finitely many operations are called, and writes and lookups are some of them
(`ConversationAssumption`). `WebAssumption` also says that demo members are no peers, and
`NetworkAssumption` that processes are no ports. `RepliesAreOwn` has the hypothesis
`Sequential`: callers await one operation before the next, as those of the hook do. It is
needed: two operations on one transport share `this.pending` (`conversation_live`, section 6).
`EnvelopesRenderedOnce` holds with and without it.

`LeavesOnce`, `RetryIsEnough`, `UniqueIds` and `TablesAgree` are established by proof alone.
Through `StoresAreRelayStores` the theorems about `RelayStore` hold of both stores of the
bridge.

Only model-checked:

- `EveryRequestAnswered`, `OpSettles` and `KeepsTrying`: liveness, which needs fairness and
  `ENABLED`, beyond the prover; and the four runs that end in a violation.
- `DecodersAgree`, `ReadsWhatWasWritten` and `WorkIsLeadingZeros`: `Codecs` is recursive, and
  what a recursive definition computes for every input needs induction over data.
- `TypeOK` of `MCWebState`: the proofs use weaker types, without the bounds on chain keys.
  `CoreTypeOK` also types the variables of `Codecs`, which no proof can reach.

## 5. What is not modelled

- Cryptography. A ciphertext is a record of what it was made from, and opens for the holder
  of the right key; hashes do not collide, fresh values are new. libsignal's handling of a
  message is an assumption of `RatchetSession`; so are signatures in `DeviceDirectory` and
  fingerprints in `DesktopVerification`.
- libp2p: the circuit relay protocol, Kademlia's routing and replication, TCP and QUIC. What
  the code asks of them (listen, put, get, dial) is in `RelayProcess`, `DeviceDirectory` and
  `PrivateTransport`; swarm events are only logged by the code.
- Error types and their texts (`error.rs`, `Display` implementations), logging, command-line
  parsing, conversions of arguments in the bindings, markup of both clients (`ui.rs`, the JSX).
  They have no state, and no property here tells their outcomes apart.
- Desktop commands and `main`: one call of the core each. `metadata.rs` is a function that
  returns a text; `build.rs`, the audit documents and their tests, the wire specification's
  schemas and the placeholders of the other clients hold no code of the running system.
- Generating identity keys: one call of libsignal each. Sealing them is in `Codecs`.
- Bundles whose unsigned fields (registration id, device id, prekey ids) were changed:
  `RatchetSession` has bundles that are cut, or come with another identity or signature.
- A ratchet receiver that answers its sender, and messages skipped beyond libsignal's limits:
  no code of the repository does the first, and the second is libsignal's.

## 6. Where code and text disagree

Four of these are runs that end in a violation:

- `stale_session`: `pollOnce` copies the hook's session only while it has none
  (`Conversation.tsx:180`). After a change of the url the hook publishes the bundle of a new
  session, and the loop goes on with the old one (`useRelayConnection.tsx:81` says that the
  session is dropped so that this does not happen).
- `conversation_live`: `send` overwrites `this.pending` while a pickup waits for its answer.
  The pickup's promise is never settled, `pollInFlightRef` stays set, and no poll runs again
  (`clients/web/src/Conversation.tsx:225` says that the loop retries).
- `verification_carried`: when peer or key change in place, the persist effect of that render
  writes the old mark under the new key
  (`clients/web/src/SafetyNumberVerification.tsx:32`: never carried forward).
- `backup_elsewhere`: a browser backup holds values encrypted under a key and salt that are
  not in it, so another installation cannot read them (`PLAN.md:109`: import on any client).

The others limit what the properties promise, or were seen while modelling; the flags in
parentheses are those the properties exclude:

- *Relay.* The comment on `Bucket` has a window expire "once `now > start + window_secs`"
  (`ratelimit/mod.rs:74`), `check` resets it already at `start + window_secs` (line 130), and
  `RefusalJustified` follows `check`. `lookup_prekey` removes the bundle, although a comment calls it a read
  (`ws.rs:384`). A second envelope for a recipient replaces the first before its time to live
  ends (`store.rs:42`). `now` is not monotonic at the limiter, against its contract
  (`ratelimit/mod.rs:110`); `WindowsDisjoint` is what remains true. `truncate_id` cuts at
  byte 8, which may be inside a character: the task panics (`ws.rs:295`; the model ends the
  connection). Challenges that are never redeemed are kept for ever (`ws.rs:79`). The module
  comment says that both paths share a store; `serve_listener` makes its own. An error of
  `accept` ends the bridge while the process goes on without it (`ws.rs:567`); `BridgeAsAsked`
  excludes such a process. `Challenge::new` documents a panic "in debug builds"
  (`pow/mod.rs:79`), but its `assert!` is in release builds too.
- *Rust relay client.* After a dropped call the late reply is read as the answer to the next
  request, and a publish can return Ok before anything was stored (`cancelled`).
- *Web transport.* A socket in its closing handshake is replaced, and its late close event
  rejects the request sent on the new one (`peerCloses`). `close()` during a connection
  attempt leaves the caller unsettled (`Abandoned`).
- *Connection.* A publish that failed for the client may reach the relay after a
  later one and replace its bundle (`useRelayConnection.tsx:109`).
- *History.* Each tab writes its own whole history (`Conversation.tsx:149`) and never reads the
  record again, so the tab that writes last removes what another has saved since; a failed load
  of the group's messages lets the next message overwrite them (`behind`). Writes that overlap
  may end in the other order (`overlap`). What is appended before the load ends is overwritten
  by it, or not saved before the next message (`unsaved`). A message picked up while the view is
  unmounted is lost.
- *Group view.* A reload lists saved peers that the new handle does not have (`lost`);
  `addPeer` ends with the handle it began with and undoes what changed meanwhile (`stale`).
  `group_create` is a function of the sender's identity (`group.rs:154`): a group made again of
  the identity that the parent gives, as after a reload, repeats its first keys up to the next
  removal (`made`), although `group_encrypt` says that none repeat. `App.tsx:201` gives no
  identity; the mount generates one, and nothing repeats. Two tabs overwrite one another's member
  list as they do histories; this view is modelled with one.
- *Group session.* The first chain key is derived from the sender's public key alone
  (`group.rs:154`): until the first removal or rotation anybody can compute the message keys, and
  `ReadersAreMembers` then speaks of the wrappers only.
- *Identity, backup.* Two tabs that start at once each make an identity, or a salt (`raced`).
  Where localStorage is unavailable each opening draws another password
  (`storage_key.ts:55`), so what is set is read by that opening only, and after the password is
  lost nothing set before is (`denied`, `cleared`); `ReadBack` says that this fails closed.
- *Linking.* The displaying device never shows a safety number, although
  `device_linking.ts:7` says that both do.
- *Desktop.* `verify_safety_number` compares with the number last given to `new` on the thread
  it runs on, not with the one "the state was created with" (`verify.rs:35`; `mixed`).
  `RestoreError::Tampered` is never produced (`backup.rs:18`): damage is IncompleteBackup or
  WrongPassphrase.
- *Transport.* `deliver` does not look at the registry again after its round trip, which is an
  echo: `TimedOut` is not reached and `SessionClosed` never made (`online.rs:29`).
- *Core.* A `DeviceSet` takes a device twice. Prekey ids repeat once u32 is used up, and a refill resets `consumed`
  (`prekey.rs:239` says never; `wrapped`). A receiver's bundle serves one session: its
  one-time prekey is gone after the first. `Store::open` reports any failure of its first
  query as InvalidKey (`lib.rs:110`). A backup whose salt or nonce was altered gives
  DecryptionFailed, not Tampered (`backup.rs:30`). The base64 decoder accepts `=` inside a
  group (`ws.rs:219`), which is why `ReadsWhatWasWritten` does not ask it to refuse. The QR
  decoder takes hexadecimal digits of either case, the encoder writes lower case
  (`device_qr.rs:78`), and libsignal's record parser takes more than its encoder writes
  (`prekey.rs:385`): the property is stated up to both. `solve_challenge` panics on a challenge
  that is shorter than its context length says (`ws.rs:780`).

## 7. Plan

Done: the modules of section 2. What could follow:

1. Compositions: `Conversation` with `History` (an envelope picked up and lost on unmount);
   `RelayClient` and `RelayTransport` over `WsRelay` instead of their reduced relays;
   `GroupConversation` over `GroupSession` as a refinement; `DeviceDirectory` with `Fanout`.
2. Proofs: the typing of the parts of `MCWebState` with their bounds; `OwnReply` for callers
   that do not await each other, once requests carry an id.
