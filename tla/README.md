# TLA+ models of the jito relayer

This directory holds TLA+ models of the concurrent parts of the relayer
(`src/`), TLC configurations that model-check them on small instances, and
TLAPS proofs of safety properties of the relayer event loop, the slot
pipeline, the fetch stage, the auth service, the staked-nodes updater and
shutdown, for every value of the constants. `PROJECT.json` lists the runs, mutants, findings and hazards,
and maps every modelled definition to the source lines it translates.

## The system and how its parts interact

The relayer sits between a block engine and validators:

- **TPU and fetch stage** (`core/src/tpu.rs`, `core/src/fetch_stage.rs`). The
  QUIC servers put packet batches into bounded channels. The forwarder thread
  of the fetch stage moves batches from the `tpu_forwards` channel into the
  `tpu` channel that sigverify drains.
- **Relayer event loop** (`relayer/src/relayer.rs`). It receives the delayed
  packet batches, filters them (discard flag, decoding, OFAC), and fans them
  out to the subscribed validators that lead a slot of the lookahead window.
  The fan-out uses `try_send` into bounded per-subscriber channels. The loop
  also sends heartbeats and drops closed subscribers, and drops everyone while
  unhealthy.
- **Leader-schedule cache** (`relayer/src/schedule_cache.rs`). A refresh
  thread replaces it every 10 s with the current epoch's schedule, built from
  two RPCs (`get_epoch_info`, then `get_leader_schedule(None)`). The slot arm
  reads it.
- **Slot pipeline**. The load balancer (`rpc/src/load_balancer.rs`) runs one
  subscription thread per RPC server. Each thread publishes a slot when it is a
  new maximum (`fetch_max`). The health manager (`relayer/src/health_manager.rs`)
  forwards those slots to the relayer and sets the health flag from their age.
- **Authentication** (`relayer/src/auth_service.rs`,
  `relayer/src/auth_challenges.rs`). Concurrent RPC tasks create challenges in
  a mutex-protected store, mint token pairs from them, and refresh access
  tokens. A separate task expires old challenges.
- **OFAC lookup-table cache** (`core/src/ofac.rs`, `transaction-relayer/src/main.rs`).
  A refresher thread keeps a map of address-lookup tables up to date. The
  filter resolves a transaction's lookups against that map while the refresh
  runs.
- **Shutdown**. Every long-running thread polls one shared `exit` flag
  (`graceful_panic`, `core/src/lib.rs`). SIGTERM or Ctrl-C sets it
  (`shutdown_signal`), and so does the panic hook, which then sleeps 5 s and
  calls `process::exit(1)`. `main` joins the health manager among others and
  returns with status 0.
- **Staked-nodes updater** (`core/src/staked_nodes_updater_service.rs`). It
  periodically rebuilds the identity-to-stake map that the QUIC servers use
  for QoS.

## Modules

| Module | Models | State | Actions |
|---|---|---|---|
| `Relayer` | the event loop, `subscribe_packets`, the schedule cache | `subs` (packet_subscriptions), `queue`/`rxOpen`/`owner` per subscriber channel, the slot/subscription/delay channels, `highestSlot`, `slotLeaders`, `schedule`, `health` | `SlotArm`, `PacketArm` (forward_packets with its filter and `try_send` fan-out), `SubscriptionArm`, `HeartbeatArm`, `SubscribePackets`, `UpdateLeaderCache`, and environment actions for the validators, the forwarder and health |
| `ForwardPacketsLemmas` | lemmas about the filter, chunking and `try_send` helpers of `forward_packets` in `Relayer` | | |
| `RelayerProofs` | theorems about `Relayer` | | |
| `SlotPipeline` | the load-balancer threads, the health manager, the relayer's slot arm | per-server `pc`/`pending`, `serverToSlot`, `highest` (the AtomicU64), the two bounded channels, the health manager's `hmSlot`/`hmAge`/`hmBlocked`, `health` | `Connect`, `Recv`, `Send`, `RecvFails`, `Wake` per server, then `HmRecv`, `HmForward`, `HmTick`, `Elapse`, `RelayerSlotArm` |
| `SlotPipelineProofs` | theorems about `SlotPipeline` | | |
| `AuthService` | the three RPC handlers and the expiry task | `store` (IP → challenge), `now`, `task` (each in-flight request with its program counter), issued tokens | each handler is split at every lock of the store: `ChallengeLen`/`ChallengeGet`/`ChallengePush`, `TokensMint`/`TokensRemove`, `RefreshAccessToken`, `RemoveAllExpired`, `Tick` |
| `AuthServiceProofs` | theorems about `AuthService` | | |
| `LookupTableCache` | `is_tx_ofac_related` and the lookup-table refresher | `chain`, `cache`, the refresher's `rpc`/`fetched`/`todo`/`newPubkeys` | `RefreshFetch`, `RefreshEntry(t)` (decode failure or upsert), `RefreshRetain`, and `ChainStep(t)` (create, extend or close a table) |
| `LookupTableCacheProofs` | theorems about `LookupTableCache` | | |
| `FetchStage` | the forwarder thread | the two channels, `pc`, `collected`, `num` | `RecvFirst`, `TryRecv`, `DrainEmpty`, `SendOne`, plus the QUIC servers and sigverify as environment |
| `ForwardQueue` | what the fetch stage promises: an in-order queue of batch ids | `pending`, `delivered` | `Accept(i)`, `Deliver` |
| `FetchStageProofs` | theorems about `FetchStage`, including its refinement of `ForwardQueue` | | |
| `Shutdown` | the exit flag across the load-balancer threads, the health manager, the event loop, the panic hook and `main` | per-thread program counters `lb`, `hm`, `rl`, `main`; the two slot channels as lengths; the tick flags; the forwarder; the exit status `code` | `LbTop`, `LbConnectFails`, `LbRecv`, `LbSend`, `LbSleep` per server; `HmTop`, `HmTick`, `HmRecv`, `HmRecvClosed`, `HmSend`, `PanicHookExit`; `RlTop`, `RlSlot`, `RlSlotClosed`, `RlPacket`, `RlPacketClosed`, `RlTick`; `Signal`, `MainJoin`, `ForwarderExits`, `Elapse` |
| `ShutdownProofs` | theorems about `Shutdown` | | |
| `StakedNodesUpdater` | the updater thread | `cluster`, `shared`, `due` | `Refresh`, `RefreshFails`, `Elapse`, `ClusterChange` |
| `StakedNodesUpdaterProofs` | theorems about `StakedNodesUpdater` | | |

Every `MC_*.tla` module fixes small model values for the constants. The `.cfg`
files give the numeric bounds.

Data is abstracted to what the properties distinguish:

- packets are model values, with sets naming the discarded, undecodable and
  OFAC-related ones;
- tokens are their claims;
- time is a counter, or half-periods of the health check, or the flag `due`.

Every handler is kept whole, with its guards, error paths and trailing
updates.

## Runs

Passing runs:

- `relayer_safety` (`MC_Relayer.cfg`, FairSpec) checks three properties.
  - `TypeOK` keeps every subscriber queue within its capacity.
  - `ForwardedPacketsAdmissible`: no discarded or OFAC-related packet reaches
    a validator. `Undecodable` is empty in this instance, so the
    undecodable case is covered by the proof only.
  - `ClosedEventuallyRemoved`: a dropped stream leaves `packet_subscriptions`.

  The bounds are 2 validators, 2 channels (`c1`, `c2`), slots 0..1 with 2
  slots per epoch and a lookahead of 2 (schedule slots 0..3), subscriber
  queues of 2, and channel bounds of 1. The one input batch has a discarded
  packet, a denied one and a packet that survives twice into two chunks.
  With these, the window at slot 1 crosses into an epoch the cache does not
  hold, a refresh can race the epoch turn, a queue can fill, and a validator
  can resubscribe on a new channel.
- `slot_pipeline` checks three properties.
  - `NoSlotPublishedTwice`.
  - `NewMaxEventuallyPublished`.
  - `StaleEventuallyUnhealthy`: if no slot arrives for a threshold, health
    eventually turns Unhealthy, even when the health manager is blocked on a
    full channel.

  The bounds are 2 servers, slots 0..3, channel bounds 2 and 1, and 3
  half-periods. These are enough for the two threads' sends to cross and for
  both channels to fill.
- `auth_safety` checks two properties.
  - `TokensOnlyForAuthorized`.
  - `AccessBoundedByRefresh`: no access token outlives every refresh token its
    holder had.

  The instance has 2 IPs, 2 pubkeys (one authorized), 2 concurrent tasks,
  capacity 1 and time 0..2.
- `lookup_cache` checks two properties.
  - `FilterMatchesSpec`: the early-returning walk of
    `is_tx_ofac_related` agrees with the set-based definition of spec 4.D, on
    every cache state including mid-refresh ones.
  - `EventuallyCurrent`: once the chain stops changing, the cache converges
    to the open tables.

  The instance has 2 tables of length up to 2, 4 chain steps, and one decode
  failure. The transactions have 0 to 2 lookups with in- and out-of-range
  indexes.
- `fetch_stage` checks two properties besides `TypeOK`.
  - `ForwardedInOrder`: no forwarded batch is lost, duplicated or reordered.
  - `ForwardedEventuallySent`: a collected batch reaches `tpu` even when no
    later batch arrives.

  That the forwarder implements `ForwardQueue` is proved
  (`RefinesForwardQueue`, below) rather than run: its safety half is a
  theorem, and its fairness half says what `ForwardedEventuallySent` says.

  The instance has batches of 1 or 2 packets, limit 2 and 6 batches, so the
  early break and a full `tpu` channel both happen. Deadlock is not checked:
  once the environment's batches run out, every thread blocks in `recv`, as
  the real one does when no traffic arrives.
- `shutdown` (`MC_Shutdown.cfg`, FairSpec) checks two properties besides
  `TypeOK`.
  - `NoPanicWhileServing`: the health manager's `expect()` panics happen only
    after the operator's signal.
  - `ShutdownTerminates`: once `exit` is set, the process ends. The health
    manager, which `main` joins, never waits for ever. A send to an event
    loop that has returned fails at once.

  The instance has 2 servers and channel bounds of 1. With these, one thread
  can stop while the other still sends, and both sends can block.
- `staked_nodes` checks `EventuallyCurrent`, the stake map converging despite
  failed fetches. The answers include an identity with two vote accounts and
  an unparsable key.

Violation runs each record a disagreement between the code and the spec;
`PROJECT.json` "findings" explains each one:

- `relayer_open_served`: a Closed `try_send` `break`s the whole fan-out.
- `relayer_mass_drop`: a subscription that passed the health check lands
  after the unhealthy mass drop.
- `slot_published_increasing`: `fetch_max` and `send` are not atomic, so the
  published slots can go backwards.
- `lookup_retain_undecodable`: a live table that fails to deserialize is
  dropped from the cache. This needs a decode failure of an account owned by
  the lookup-table program, which is rare.
- `shutdown_exit_code`: a SIGTERM or Ctrl-C shutdown can end with status 1.
  The load-balancer threads stop within about 1.1 s and drop their slot
  senders. If the health manager's next tick is not yet due, its `recv`
  fails, `expect()` panics, and the panic hook exits with 1 after 5 s, while
  `main` still waits in `health_manager.join()`. The spec says status 0 on
  a clean shutdown.

The modules state seven more properties that TLC finds violated. None of them
is a listed run. To reproduce one, copy the passing run's cfg and replace its
INVARIANT and PROPERTY lines with the property (for an action property, use
SPECIFICATION Spec).

- `DeliveredOnlyToLeaders` (spec 7, line 198): a refresh that straddles an
  epoch turn caches the next epoch's leaders at this epoch's slots, so a
  batch reaches a validator that leads no slot of the window (see
  Proofs, Relayer).
- `HealthyOnlyAfterSlot`: the node is Healthy before any slot arrives,
  although the comment at `health_manager.rs:86` says it starts unhealthy.
- `StoreWithinCapacity`: the check-then-push race lets the store exceed its
  capacity.
- `MintedOnlyFromLiveChallenge`: an expired challenge that has not been swept
  yet still mints tokens.
- `CollectedWithinLimit`: one drain of the fetch stage collects more than
  1024 packets.
- `StakeIsNodeTotal`: an identity's stake is the stake of its last vote
  account.
- `LiveChallengeNotLost`: `remove(ip)` deletes a concurrent request's new
  challenge.

`PROJECT.json` "hazards" lists these seven.

Every property of a passing run has a mutant in `PROJECT.json`: a plausible
bug in a mapped definition that TLC finds violating that property.

## Fairness

All fairness is weak and is put on loops that run forever:

- the relayer's `select!` arms;
- the load-balancer threads;
- the health manager's loop and ticker;
- the forwarder;
- sigverify's consumer;
- the refresher and updater threads.

Time keeps passing (`Elapse`). In `Shutdown`, every step of the
load-balancer threads, the health manager, the event loop, the panic hook
and `main`'s join is weakly fair, and the tickers keep firing. This is what
the code's `tick` timers and blocking calls give. The operator's signal, the
forwarder's exit and packet arrivals have no fairness.

Two liveness runs also assume that an RPC call eventually succeeds:
`RefreshFetch` in `LookupTableCache`, and `Refresh` in `StakedNodesUpdater`.
Failures are therefore bounded (`MaxDecodeErrors`, `MaxErrors`). A node that
never answers keeps the old map forever, and no property claims otherwise.

The environment (validators, chain changes, slot events, health changes) has
no fairness.

## Proofs

### Relayer

`RelayerProofs.tla` proves three theorems with TLAPS for every value of the
constants satisfying `ConstAssumption`:

- `TypeCorrect`: `Spec => []TypeOK`. It rests on lemmas about the helpers of
  `forward_packets`: `Survivors` returns a sequence of packets, and `Take`,
  `Chunks` and `Deliver` keep every queue a sequence of messages within
  `QueueCap`.
- `DeliveredOnlyToScheduledThm`: `Spec => DeliveredOnlyToScheduled`, an
  action property: a batch goes only to a validator that leads a slot of the
  window at `highest_slot`, either by that slot's epoch schedule or at the
  same slot index one epoch later (`ScheduledFor`). The second case is real.
  `update_leader_cache` reads `get_epoch_info` and then
  `get_leader_schedule(None)` in two RPCs. When the epoch turns between
  them, the next epoch's schedule is shifted by this epoch's offset
  (`UpdateLeaderCache(e, e + 1)`). The stricter statement of spec 7 (line
  198), `DeliveredOnlyToLeaders`, is therefore false. TLC finds it violated
  on `MC_Relayer` by refresh, slot 1, subscribe `v1`, batch: `v1` gets a
  batch for the window {1, 2} that `v2` leads.
  `DeliveredOnlyToScheduled` has no run: with two validators, every window of
  the TLC instance names both as `ScheduledFor`.
  The property is not inductive by itself. The proof uses
  `IInv = TypeOK /\ ScheduleSound /\ LeadersSound /\ OwnerSound /\ SubQSound`:
  - each schedule cache entry is `ScheduledFor` its slot;
  - `slot_leaders` are `ScheduledFor` a slot of the window at `highest_slot`;
  - the sender stored for a pubkey, and every sender still in the
    subscription channel, was created by a `SubscribePackets` call of that
    pubkey.

  The last two conjuncts are needed because a subscription is applied by a
  later step than the one that creates it. In the refresh case, the cached
  index `f * SlotsPerEpoch + r` is `s` when `f = e` and
  `s + SlotsPerEpoch` when `f = e + 1`. `IInv` is shown initial and
  preserved by every action, and each packet step then appends only to
  channels of pubkeys in `slotLeaders`.
- `ForwardedPacketsAdmissibleThm`: `Spec => []ForwardedPacketsAdmissible`.
  The inductive invariant is `TypeOK` together with the invariant itself,
  which is `QueueOk` of every channel (`AdmissibleIsQueueOk`). `TypeOK` is
  needed because `Deliver` only keeps a channel well formed when it holds
  messages and is within `QueueCap`. Each action then keeps every channel
  well formed:
  - the packet arm delivers a prefix of the chunks of the filtered batch;
  - the heartbeat arm appends a message that is not a batch;
  - the validator pops from the front or drops the whole channel.

`ForwardPacketsLemmas.tla` holds the lemmas about `forward_packets`'s
helpers.

- The filter is modelled as the recursive function `kept` inside
  `Survivors`, and not as `SelectSeq`. The prover cannot unfold
  `SelectSeq`, and the library's induction theorems take an operator
  parameter, so neither route reaches it.
  - `KeptExists` shows that the function exists, by building it for each
    prefix of the batch.
  - `KeptAdmissible` shows that every entry holds only admissible packets.
  - Both argue by the least failing index. `NatLeastElement`, derived from
    `WFMin` and the well-foundedness of `<` on `Nat`, supplies that index.
- `ChunkBounds` and `ChunksAdmissible` show that every chunk of
  `packets.chunks(size)` is a batch of 1 to `BatchSize` admissible packets.
- `TakeOk`, `ConcatOk` and `DeliverOk` show that a bounded `try_send` of
  well-formed messages keeps a channel well formed.

### Fetch stage

`FetchStageProofs.tla` proves three theorems for every packet limit and
channel bound satisfying `FetchStageAssumption`:

- `FetchTypeCorrect`: `Spec => []TypeOK`. `TypeOK` alone is not inductive.
  The proof strengthens it with `IdleEmpty`: while the thread waits in its
  blocking `recv`, nothing is collected.
- `ForwardedInOrderThm`: `Spec => []ForwardedInOrder`. The inductive fact is
  `OrderInv`: the ids sent, followed by the pending ids `Pend` (collected,
  then still queued), are exactly the ids put in. Each action is shown to
  move ids between these parts without changing the concatenation. Lemmas
  about `IdsOf` over `Append`, `Tail` and the `forwarded` mark carry it.
- `RefinesForwardQueue`: `Spec => FQ!Spec`. Each step of the forwarder is a
  stutter, an `Accept` or a `Deliver` of `ForwardQueue`. That the pending
  head is eventually delivered (the fairness of `FQ!FairSpec`) is left to
  TLC, as `ForwardedEventuallySent`.

### Shutdown

`ShutdownProofs.tla` proves `ShutdownTypeCorrect` and
`NoPanicWhileServingThm`, for every non-empty set of servers and every
channel bound. The inductive invariant `BeforeSignal` says two things:

- while `exit` is clear, no subscription thread, event loop or forwarder has
  ended, and the health manager has neither panicked nor returned;
- once `exit` is set, `main` is joining.

A panic needs a producer that has ended. That needs `exit`, and `exit` is
set only by the signal. The rule needs at least one server
(`ShutdownAssumption`). With none, nothing ever holds a slot sender.

### Slot pipeline

`SlotPipelineProofs.tla` proves two theorems for every set of servers,
largest slot and channel bounds satisfying `SlotPipelineAssumption`:

- `SlotTypeCorrect`: `Spec => []TypeOK`. Both slot channels stay within
  their bounds.
- `NoSlotPublishedTwiceThm`: `Spec => NoSlotPublishedTwice`, an action
  property. No step puts into the load balancer's channel a slot that was
  sent before.

`NoSlotPublishedTwice` speaks of one step, but the slot a thread sends was
chosen by an earlier `Recv` step. Other threads may have sent slots in
between. The proof therefore uses an inductive invariant over the threads
that are about to send (`Sending`):

- `PublishedBelowHighest`: every slot sent is at most `highest_slot`;
- `PendingFresh`: the slot each such thread holds is at most `highest_slot`
  and has not been sent;
- `PendingDistinct`: no two such threads hold the same slot.

A thread only enters `send` with a slot strictly above the old
`highest_slot`, so all three are preserved by `Recv`. A `Send` removes its
own slot from the pending ones. The other pending slots differ from it, so
they stay unsent. The lemma `NoRepeatStep` then shows that the only step that
lengthens the channel appends a pending slot. The invariant does not order
the pending slots, and it cannot. Two threads can hold slots `v < w` and send
them in the order `w`, `v`. That is the violation the run
`slot_published_increasing` finds.

### Auth service

`AuthServiceProofs.tla` proves three theorems for every set of ids, store
capacity and TTLs satisfying `AuthAssumption`. The assumption asks for
non-empty `Ips` and `Pubkeys`, because an idle task holds `CHOOSE`n
placeholders from them. It also asks for `RefreshTtl >= 1`: the code's
refresh token lives longer than one tick.

- `AuthTypeCorrect`: `Spec => []TypeOK`.
- `TokensOnlyForAuthorizedThm`: `Spec => []TokensOnlyForAuthorized`.
- `AccessBoundedByRefreshThm`: `Spec => []AccessBoundedByRefresh`.

All three follow from one inductive invariant,
`IInv = TypeOK /\ StoreAuthorized /\ TokensOnlyForAuthorized /\ AccessBoundedByRefresh`.
`StoreAuthorized` says that every challenge in the store belongs to an
authorized pubkey. It is needed because the authorization check happens in
`generate_auth_challenge` (the push), while `generate_auth_tokens` (the
mint) only looks the challenge up in the store. A token is authorized only
because the challenge it consumes was checked when it was pushed.

`AccessBoundedByRefresh` is preserved by a mint, which creates an access token
and a refresh token together, and by `refresh_access_token`. That handler
checks `now < exp` on the presented refresh token, which stays in `refresh`.

Each handler step updates one field of a task record (`[task EXCEPT ![t].pc = ...]`).
The lemmas `SetPc` and `SetPcSnap` state once that such an update keeps the
task typed.

### Staked-nodes updater

`StakedNodesUpdaterProofs.tla` proves `StakedTypeCorrect`:
`Spec => []TypeOK`. It holds for every set of identities and every set of
RPC answers satisfying `StakedNodesAssumption`. The map swapped into
`StakedNodes` has only identities that parsed, and each has a natural stake.

`TypeOK` is inductive as it stands. Only a `Refresh` changes the map, and
the lemma `BuildStakeMapType` covers the map it builds:

- `filter_map` drops `BadKey`;
- `collect()` keeps the stake of each identity's last vote account.

`BuildStakeMap` names that account with `CHOOSE`. The lemma
`LastIndexExists` shows that the account exists. A non-empty set of indexes
has a largest element, found as the least distance to the end of the answer.
That least element comes from `WFMin` and `NatLessThanWellFounded` of the
`WellFoundedInduction` module. Neither takes an operator parameter.

### Lookup-table cache

`LookupTableCacheProofs.tla` proves two theorems for every set of tables,
keys and transactions satisfying `LookupTableAssumption`:

- `LookupTypeCorrect`: `Spec => []TypeOK`. `TypeOK` is not inductive by
  itself, because an upsert copies `fetched[t]` into the cache. The
  inductive invariant adds `FetchedOk`: every account of the fetch is an
  address list. TLC checked `FetchedOk` on the `lookup_cache` instance
  before the proof was written.
- `FilterMatchesSpecThm`: `Spec => []FilterMatchesSpec`. It follows from
  `LookupTypeCorrect` and `FilterSpec`, which holds on every cache whose
  entries are address lists, mid-refresh caches included:
  `IsTxOfacRelated(tx, c)` holds exactly when `Reached(tx, c)` meets the
  OFAC set.

The loops of `ofac.rs` return at the first hit. Each is modelled with
`FirstHit`, a recursive function `found` over the prefix length.

- `FoundExists` shows that `found` exists.
- `FoundIsAny` shows, by least counterexample, that `found[n]` says whether
  one of the first `n` tests passes.
- `FirstHitIsAny` combines the two.
- `StaticKeysSpec`, `ScanSpec` and `WalkSpec` apply this to the three loops.
- `RangeConcat` covers `writable_indexes.iter().chain(readonly_indexes)`.

### What stays with TLC

Three kinds of result stay with TLC, because the provers cannot reach them:

- liveness under fairness (the `Eventually*` properties, `EventuallyCurrent`
  included), since the provers do not handle ENABLED;
- facts that need induction over data through an operator parameter. The
  filter of `forward_packets` and the loops of `ofac.rs` are written as
  recursive functions, not RECURSIVE operators or `SelectSeq`, so that
  their proofs can argue by least counterexample instead.
- the violations (`PublishedIncreasing`, `CleanExitCode` and the others),
  which are counterexamples and not theorems.

Every safety invariant that a passing run checks has a theorem:
`ForwardedPacketsAdmissible`, `NoSlotPublishedTwice`,
`TokensOnlyForAuthorized`, `AccessBoundedByRefresh`, `FilterMatchesSpec`,
`ForwardedInOrder`, `NoPanicWhileServing` and each module's `TypeOK`. The
liveness properties of the runs (`ClosedEventuallyRemoved`,
`NewMaxEventuallyPublished`, `StaleEventuallyUnhealthy`, `EventuallyCurrent`,
`ForwardedEventuallySent`, `ShutdownTerminates`) are checked by TLC only.
`DeliveredOnlyToScheduled` is the other way round: it is proved, and no run
checks it.

## Not modelled

- The packet forwarder/delay thread, `auth_interceptor` and the block-engine
  client. Their sources are not in this repository. The forwarder's output
  enters `Relayer` as `BatchArrives`.
- QUIC and sigverify internals. They are library code.
- Argument parsing, socket and key set-up. This is sequential start-up code.
- Shutdown of the threads outside the slot pipeline (TPU, leader cache,
  refresher, block engine). `Shutdown` takes the joins of these to return.
- Metrics, and the read-only `get_tpu_configs` and `rpc_client`. They change
  nothing the properties observe.
- `ValidatorAutherImpl`, which is the constant `Authorized`.
