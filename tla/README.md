# A TLA+ development for sui-pq

This directory holds TLA+ models of the parts of this repository that have
state and a protocol, the TLC configurations that check them on small
instances, and proofs, checked by TLAPS, of what holds for every instance.

Run, in this directory, `tlc -config MCPqGuard.cfg MCPqGuard` (and likewise for
every `.cfg`, with the module named in `PROJECT.json`) and
`tlapm M.tla` for M among `DataTheorems`, `PqGuardProofs`, `PqAccountsProofs`,
`IndexerProofs`, `DevMachineProofs`, `SignaturesProofs`, `LiteAgreement` and
`SignaturesAgreement` (the last three take ten minutes or more each).

## 1. The system

sui-pq is a workspace of Move packages, TypeScript packages, two Next.js
applications, a CLI and scripts. Its centre is post-quantum (PQ) authorization
on Sui: an on-chain identity holds a hash-based public key, and a signature
under that key unlocks an action in the course of an ordinary transaction.

| Component | State it keeps | Operations | Interacts with |
|---|---|---|---|
| `move/pq_guard` | `PqIdentity` objects: owner, scheme, key, nonce | `register`, `rotate`, `unlock`, `consume` | the verifiers (calls); gated modules, by the `PqAuthorized` witness |
| `move/pq_vault` | shared `Vault`: owner, `balance` field, `Balance` pool | `open`, `deposit`, `withdraw` | takes a witness of pq_guard; coins of the transaction |
| `move/wots`, `move/slh_dsa`, `move/slh_dsa_128s` and their TypeScript references | none (pure) | keygen, sign, verify, in two languages | called by pq_guard and by clients |
| `packages/pqc` sponsor, `apps/cli` sponsor server | requests and handlers in flight | `submit`, `POST /sponsor`, `sponsorPqOperation` | a full node, the ledger, lossy HTTP |
| `apps/web` PQ page | keys and ids in localStorage, forms | register, unlock, attest, sign, drip, start a node | full node, wallet, the server's routes |
| `scripts/pq-unlock-*` | a run | register, unlock, read back; dry run | full node |
| `move/pq_attestation`, `packages/pqc` attestation | owned attestations, event log | build, `register`, `revoke`, verify by scanning | verifiers that read events and objects |
| `packages/pqc` hybrid and zkLogin wrap | envelopes | sign, verify | attestations bind the key |
| native signing: `demos/localnet-pq/pq-signer.ts`, `local-validator.ts`, the patch | accounts at hash-based addresses | sign, check before sending, admit | the patched validator |
| `packages/sponsored-tx` | two signatures on one transaction | build, execute | gas of another address |
| `move/seal_demo`, Seal key servers | allowlist, cap; a server's view of it | create, add, remove, `seal_approve` | a full node that lags |
| `packages/indexer` | a cursor store, polling loops | `startPolling`, stop, load/save | RPC node, an event handler of the application |
| `apps/web` localnet and faucet routes | a state file with a pid | `GET`, `POST`, `DELETE`; `POST` | child processes, ports 9000 and 9123 |
| `scripts/server.sh` | pid files | start, stop, restart, open | child processes |
| `demos/localnet-pq` programs | rows of outcomes, ids in variables | scenarios of calls, one after the other | faucet, full node, the packages they publish; accounts that other runs share |
| client wrappers, small Move examples | none | one call each | third-party services |

What is hard in it:

* **Protocol state against off-chain signatures.** Holders sign messages
  off-chain, at nonces they read earlier; transactions reach the ledger in any
  order, some abort half-way. Nothing in the signed bytes names the identity.
* **Transactions that roll back.** A programmable transaction (PTB) runs many
  commands on private copies of objects and commits all or nothing.
* **Lost answers, retries and stale reads.** A client of the sponsor may never
  hear what became of its request; full nodes answer from a state that lags;
  several programs share one wallet, hence one gas coin and one nonce.
* **Public parts recombined.** Keys, signatures, payloads and envelopes are
  public. Whether one stands for a holder is decided by comparisons spread over
  a registry that stores anything, verifiers off chain and validators.
* **Two programs for one function.** The verifiers exist in Move and in
  TypeScript, written differently, and clients check with one what the chain
  checks with the other.
* **Await points.** The polling loop and the route handlers interleave with
  other calls of themselves, with crashes, and with slow or failing peers.
* **Restarts with persistent state.** The cursor store, the state file and the
  pid file outlive the process that wrote them.

What makes each component correct:

* pq_guard: a signature has effect at most once; nonces count authorizations;
  an identity changes only in its owner's transactions; what is used was signed.
* pq_vault: no SUI is created or lost; the `balance` field is the pool; what
  leaves a vault left on a signature for that vault and amount, in its owner's
  transaction.
* clients of pq_guard: what they are told is true, a failure is final, the
  nonce read back explains itself.
* signature schemes: verify accepts what sign makes, and nothing else under
  ideal hashing; both verifiers of a scheme accept the same.
* attestations, envelopes, native accounts: what verifies was made by the holder
  it names, for that owner, nonce, tag, bytes and intent; checks made before
  sending agree with those made after.
* registry and allowlists: events tell the state; key servers serve the list.
* indexer: no event is lost, order is kept, little is repeated, every event is
  delivered while somebody polls.
* demos: a row that passes is true of the chain, one that fails is due to a call
  that failed, the exit code tells of all of them.
* localnet and faucet routes, server script: a node or server that was started
  can be stopped; stopping stops it; requests are answered; nobody is paid twice.

## 2. The modules

| Module | Models | State ↔ code |
|---|---|---|
| `OneTimeAuth` | the promise: an authorization that was signed is used at most once | abstract |
| `PqGuard` | `pq_guard.move` under transactions | `ledger.identity[i]` = the `PqIdentity` with id `i`; `held` = witnesses among the results of the PTB; `work` = its copies of the objects |
| `PqVault` | `vault.move` composed with `PqGuard` | `bank.vault[v]` = the `Vault` (`balance` the u64 field, `pool` the `Balance<SUI>`); `coins` = `Coin<SUI>` results of the PTB |
| `PqPipeline` | what clients rely on: a full node that lags, transactions on versions | `version[a]` = the versions of what `a` owns; `effects[t]` = the status of a submitted transaction; `created[t]` = the identity that one created; `node` = what the full node answers from |
| `PqSponsor` | `submit`, `sponsorPqOperation`, the HTTP server | `client[c]` = a caller of `submit`; `handler[<<c, n>>]` = the handler of its `n`-th attempt, at an await |
| `PqForms` | the register and unlock forms of the page | `form[f].pc` = the await the form is at; `.out` = the nonce it shows |
| `PqScripts` | `pq-unlock-testnet.ts`, `pq-unlock-dryrun.ts` | `script[p].pc` = where a run is |
| `PqClients` | the three together over one ledger, node and wallet | all of the above |
| `PqSchemes` | `schemes.ts`, `signing.ts` over ideal signatures | operators; a key is its holder, scheme and length |
| `PqAttestation` | `attestation.ts`, `move-tx.ts`, the page's form, `registry.move` | `attestations` = live objects with owner and holder; `log` = events |
| `PqCoSign` | `hybrid.ts`, `zk-login-wrap.ts` | operators on envelopes |
| `PqNative` | `pq-signer.ts`, `pq-sign.ts`, `local-validator.ts`, `slh_dsa_authenticator.rs` | operators on signature blobs |
| `Allowlist` | `allowlist.move` and the key servers that ask it | `lists`, `changes` = events, `view[s]` = what a server's node has executed |
| `PqAccounts` | holders of keys who use the four together, and `sponsored-tx` | `signed`, `cosigned`, `vouched` = what was made and is public; `gas[a]` = the version of the gas coin |
| `Indexer` | `startPolling` of `packages/indexer` | `poller[p].pc` = the await `tick` is at; `cursor` = the store's entry |
| `Localnet` | `POST` and `DELETE` of the localnet route | `file` = the pid in `STATE_FILE`; `request[r].pc` = the await the handler is at |
| `DevMachine` | `server.sh` around `Localnet`, the faucet route, those who ask for funds | `pidfile` = `web.pid`; `web[w]` = the life of a pnpm, `child[w]` that of the dev server below it; `drip[d]` = a request for funds |
| `Wots` | `wots.move` and the signer of `wots-ref.ts` | operators; a value is an N-byte string read as a number |
| `HashTree` | the trees of both SLH-DSA variants | built by the signer (`Levels`), climbed by the verifier (`Climb`) |
| `SlhDsaLite` | `slh_dsa.move` and the signer of `slh-dsa-ref.ts` | operators over `Wots` and `HashTree` |
| `SlhDsaLiteRef` | the verifiers of `wots-ref.ts` and `slh-dsa-ref.ts` | operators, folds where the code loops |
| `SlhDsa128s` | `sha2_128s.move`, against a signer after FIPS 205 | operators over `HashTree` |
| `SlhDsa128sRef` | the verifier of `slh-dsa-128s-ref.ts` | operators with one mutable address and a running position, as in the code |
| `Signatures` | signer, channel and verifiers around the three schemes | `signed` = what the signer made; `message`, `signature` = what arrives |
| `DemoScripts` | the programs of `demos/localnet-pq`: scenarios, their calls, what their lines say | data; a call is the ids it reads and what it changes on the chain |
| `Demos` | runs of the programs on one localnet, with `Matrix` and its exit code | `demo[p].step` = the call a run is at; `.known` = ids in variables; `.rows` = the matrix; `has[p]` = what is on the chain by its calls |
| `DataTheorems` | facts about sums, powers, quotients, recursive functions, folds, sequences and trees | |
| `PqGuardProofs`, `PqAccountsProofs`, `IndexerProofs`, `DevMachineProofs`, `SignaturesProofs` | theorems about the module named; `PqGuardProofs` has those of `PqVault` and `PqClients` too, `DevMachineProofs` those of `Localnet` and `Demos` | |
| `LiteAgreement`, `SignaturesAgreement` | theorems about `SlhDsaLiteRef` and `SlhDsa128sRef` beside the Move verifiers | |
| `MC*` | instances for TLC | |

Compositions: `PqVault` EXTENDS `PqGuard` (a vault transaction is a guard
transaction whose commands also move coins). `PqPipeline` EXTENDS `PqGuard` and
runs one transaction per step; `PqSponsor`, `PqForms` and `PqScripts` EXTEND it
and `PqClients` joins them. `PqAccounts` EXTENDS `PqNative` (hence `PqCoSign` and
`PqSchemes`), `PqAttestation` and `Allowlist`. `DevMachine` EXTENDS `Localnet`.
`PqGuard` INSTANCEs `OneTimeAuth` with the committed use counts as `uses`.

Operators whose comment begins with "Faulty:" are wrong variants of the
operator that follows. No action uses them; putting one in place of its
neighbour makes the property listed beside it in `PROJECT.json` fail, which
shows that the property depends on that piece of code.

### PqGuard

One action per Move function, plus `Begin`, `Commit` and `Abort` for the
transaction around them and `Sign` for the holder. Assertions of the code are
guards; `Abort` stands for every failure, and is always possible, so a failure
after any command is covered. Sui executes transactions on one object one
after the other, so one transaction at a time loses nothing; what does
interleave is signing, which may happen at any moment and for any nonce.

Decisions worth knowing:

* Signatures are ideal: `VerifyPq` accepts exactly the message the key's holder
  signed. The schemes themselves are the subject of `Signatures`.
* The message is `(sender, nonce, action digest)` under a key, as
  `unlock_message_bytes` builds it from fixed-width fields. The header of
  `pq_guard.move` (10-15) describes a BCS encoding with an identity id, hashed
  with SHA-256; the code signs the raw bytes and leaves the id out, as its own
  comment at 109-119 says. The model follows the code.
* `unlock` takes an owned object by mutable reference and asserts no owner: it
  is object ownership that keeps others out. `Inputs` states that rule, and that
  objects created earlier in the same transaction are not inputs of it
  (`register` transfers the identity away).
* `KeyPolicy` says how holders choose keys, since the code compares a new key
  with nothing. `"fresh"` follows the comment of `rotate` (:96), `"onePerIdentity"`
  the comment of `unlock_message_bytes` (:117-119), `"any"` neither.
* `nonce + 1` aborts at the largest u64. `U64Max` is small in TLC's runs so that
  the abort is reached.

### PqVault

`withdraw` compares `auth.sender` and `auth.action_digest`, never
`auth.identity_id`: a witness of any identity of the owner will do. The coin is
a result of the transaction; `TransferCoin` lets it go anywhere. Gas is left
out. The digest is an injective record of (vault, recipient, amount), as SHA-256
over fixed-width fields is taken to be.

### PqPipeline and the clients of pq_guard

Sui itself is not in the repository; `PqPipeline` states what the programs rely
on. Every transaction of an address takes a gas coin of it, so one counter per
address stands for the versions of what it owns: of two transactions built at
one version one executes, and an aborted one executes too. The full node answers
from a state it has caught up to, at any distance. A transaction that registers
compares its key with nothing, as `register` does not: the page registers its
cached key again on every click and the script the key of its seed, so one key
may come to several identities. No `KeyPolicy` restrains the clients. What a
transaction created is in its effects (`created`), from which page and script
take the id.

* `PqSponsor`: one action per piece of `submit`, of the HTTP handler and of
  `sponsorPqOperation` between awaits. A request or an answer may be lost
  (`Throw`), the server may restart, the caller may submit the same request again
  or, after a "failure", sign at the nonce it then reads. `Closed` are the
  calls whose results may be dropped: the sponsor's PTB is unlock and call, so
  one that returns a coin always aborts. `?? 'failure'` (sponsor.ts:137) is for
  a response without effects; `showEffects` is set, so every executed transaction
  has a status (`StatusOf`).
* `PqForms`, `PqScripts`: a click or a run, await by await; everything may reject.
* The three share one wallet in the run, the case in which they get in each
  other's way.

### PqAccounts and what it is made of

Hashes are injective, signatures ideal; a hash, a signature or a key is the
record of what it was made from, with its length where a length is checked.
Everything signed is public. `Blobs`, `Hybrids` and `Wraps` are all envelopes that
can be put together from public parts, wrong keys and flags included; the
properties quantify over them instead of keeping them in the state.

The registry stores what it is given. `PqAttestation` therefore keeps, for
history, the `holder` of the object next to the `owner` field, and
`verifyAttestation` is applied to what a scan of the chain finds. Nonce and tag
are sequences, so that cutting them differently is possible.

`Allowlist`: a key server evaluates `seal_approve` on the state of its own node,
`view[s]`, which trails the chain by any number of events. Whoever asks for the
shares of an identity builds the call and names a list in it; `seal_approve` looks
at that list and not at the identity, so `sealApprovePasses` takes both and
`Released` is over every list the server's node has. An identity is taken to
consist of the id of one list, as the Seal demo builds it.

### Indexer

An iteration of `tick` is `Head`, `Load`, `Query`, one `Handle` per event,
`Save`, `Wake`: one action for what runs between two awaits. `Fail` is a
rejection that nothing catches, `Crash` the end of the process, which takes an
in-memory store with it. Several pollers may share a key, since `stop()` only
sets a flag that the loop reads at its head. Pages are ascending; an empty page
returns no cursor or the cursor of the request.

### Localnet and DevMachine

An action is what a handler, a script or a process does between two awaits or
shell commands. `Trouble` lists what the environment may do (overlap, slow,
foreign, parent), so one module answers both what holds in calm weather and what
holds always. The nodes and their state file outlive the dev server (`detached`,
`unref`); `DevMachine` lets the dev server end at any moment. `web.pid` holds
pnpm's pid, and the process that listens is below it: pnpm ends when that one
has, and before it only with "parent". `stop` signals pnpm and its direct children
(server.sh:112-113) and waits for pnpm alone; the server is taken to be a direct
child. One script runs at a time; two starts at once can each find no server.
Pids are not reused. The faucet is part of the node: it may pay after the route,
or a demo, stopped waiting.

### Demos

A program is a list of scenarios, a scenario a list of remote calls; what is
computed in the process (keys, signatures, digests) is no step. A call may be
refused, may take effect with its answer lost (`AnswerLost`, `CallFails`, at most
`MaxFaults` of both), and is refused when another run has spent the gas coin it
was built on: two runs of `pq-exhaustive` derive the same account from the same
label, and everything the CLI publishes is paid by its active address. A call
that throws makes the row of its scenario a failure, or ends the run when it is
in the setup. What a run changes on the chain is counted per run, since its
recipients and objects are its own.

### Signatures

The schemes are pure, so they are operators; `Signatures` puts them between a
signer and a verifier, with a channel that changes one part of a signature, its
length, or the message. All parameters (bytes of a hash, bits of a digit, heights,
layers, trees) are constants, as the code names them, and the hash is a constant
operator on sequences of numbers: the fields of the address and the parts of the
input are elements of the sequence, and the byte layout is abstracted.

* The run uses a small permutation-based hash with sixteen-bit values. It says
  nothing of cryptographic strength; it tells apart the inputs that occur, which
  is what addresses, offsets and orders need.
* Where signer and on-chain verifier compute the same (splitting a digest,
  promoting an index, hashing a chain) one definition stands for both programs,
  and is mapped to one of them. The TypeScript verifiers are written separately,
  in the way their code goes about it, down to the bits of a digest and the steps
  of a chain, and `Agree` compares them with the Move ones on everything that
  arrives.
* The signer of 128s is a dependency, `@noble/post-quantum`. It is written here
  after FIPS 205 and marked external: the run shows that the verifiers agree
  with that reading. Clients sign with the empty context; other contexts are
  there for `verify_with_context`, which is public.
* With hashes of two bytes `Mgf1` needs more than one block; in the code thirty
  bytes fit in one. The verifiers compute on longer values than TLC can; indices
  stay within u32 and u64 in the code (at most 54 bits).

## 3. The runs

| Run | Instance | Distinct states | Shows |
|---|---|---|---|
| `guard` | 2 addresses, 2 ids, 3 keys of both lengths, 7 messages, u64 = 0..2, 3 commands a transaction, fresh keys | 251 200 | single use, nonce accounting, evolution of identities, refinement of `OneTimeAuth`, the inductive invariant |
| `guard_rotate_back` | the same with `onePerIdentity` | to the counterexample | rotating back to an earlier key revives its signatures |
| `vault` | 1 vault, 2 addresses, 4 signatures, 2 SUI | 612 582 | the inductive invariant, conservation, solvency, drawn exactly as signed, owner only |
| `vault_recipient` | the same | to the counterexample | the transaction, not the signature, decides who gets the coin |
| `clients` | one wallet, one key, two identities; a user with 2 attempts, a form with one click, a run of a script; 3 calls | 1 433 771 | what clients are told is true, failure is final, the nonce read back, each signature serves an identity once |
| `accounts` | a native account, a wallet, a co-signing key, a page key, a key server, two allowlists; effort 5 | 164 117 | attestations, events, envelopes, checks before sending; key servers serve the list a call names, as far as their node has got |
| `signatures` | 2-byte values, base 4, 2 layers of 4 leaves, 3 FORS trees of 4 or 8 leaves; 85 signed messages | 8 280 | round trip, rejection of what changed, agreement of the two languages, the checksum's purpose |
| `indexer` | 2 pollers, page of 2, 4 events, durable store | 33 463 | nothing lost, order, at most one page repeated, cursor monotone, delivery, the end of stopped pollers |
| `localnet_restart` | 2 requests, 2 nodes, 2 dev servers, 2 scripts, nothing late | to the counterexample | a restart while a node comes up orphans it |
| `machine` | 2 requests, 2 nodes, 2 dev servers, 2 scripts, 1 drip; requests overlap, nodes and servers are slow or foreign | 958 320 | every request is answered; a lone node and a dev server below its pnpm are not lost track of; told of funds only when paid, paid once |
| `server_parent` | 2 dev servers, 2 scripts, pnpm may end first | to the counterexample | a dev server that runs and that stop does not find |
| `demos` | 6 pairs of programs, one call that fails by itself | 140 321 | rows and exit codes tell the truth, every run exits |

Why the bounds are enough to be interesting:

* `guard` has two alternatives for one nonce, a run of nonces up to overflow, a
  second key to rotate to, the same key under another sender, and transactions
  long enough for register-then-unlock across transactions, unlock-rotate and
  double unlock in one.
* `vault` has enough SUI for one of the two alternatives and the follow-up, but
  not for a double draw.
* `clients` has a call that succeeds, one that always aborts, one off the
  allowlist, and `consume`; a user who loses an answer and tries again, while a
  form and a script on the same wallet spend the nonce it read. User and script
  sign the same message, and form and script may each register the one key, so
  that a signature is used on two identities. The theorems cover any number of each.
* `accounts` bounds what is signed: an own transaction costs 1, a signature
  beside the sender's 3, a binding 2, a co-signed envelope 2 and the signature
  that comes with it. Five pays for vouch, register, co-sign; for vouch,
  register, transfer, revoke; for two transactions and a misplaced signature.
  Only `create` may have another payer, which is where a sponsor matters. A second
  list costs 1, which leaves enough to add to and take from either; `ServersFollow`
  looks at every combination of identity and list.
* `signatures`: `N` = 2 makes two digest blocks, base 4 a checksum that carries;
  every leaf of the LITE trees signs.
* `indexer` has pages that are full, short and empty, and a poller that is
  stopped while its successor on the same key runs.
* `demos` pairs the programs that meet at an account or at the address of the
  CLI, and runs every program at least once; one call that fails by itself can
  be any call, and those it makes fail follow.
* `machine` has two nodes for two POSTs that overlap, a DELETE whose node does not
  exit in time, a second server to lose, and scripts that restart the server under
  the handlers. A third of each adds to what a theorem says for all of them.

In `vault` the ids of identities, in `localnet_restart` scripts and requests are
symmetric (no definition tells them apart; no liveness is checked there).

`CHECK_DEADLOCK FALSE` is set where calls, requests, clicks, scenarios and signatures
are finite in number and the system stops when they are used up: every run but those
of `PqGuard` and `PqVault`, which never stop.

Fairness. `Indexer`: weak fairness of every poller's loop: the JavaScript event
loop runs continuations, timers fire, and a call that does not reject comes
back. It promises neither events nor starts, and `Fail` and `Crash` remain
possible, which `Delivery` grants. `Localnet` and `DevMachine`: weak fairness of
every handler, for the same reason and because every wait of the route has a
deadline, as long as the dev server runs; nodes need not come up or exit,
scripts need not be run, and a handler whose server ends counts as lost. `Demos`:
weak fairness of the runs' steps together, none of a failure: a call comes back
or is given up (polls have an end), and a run takes finitely many. `PqClients`
and `PqAccounts` state no fairness and no liveness: nothing in the code tries
again by itself.

## 4. The proofs

All constants are arbitrary, under the ASSUME of the modules that declare them
(`GuardAssumption`, `VaultAssumption`, `IndexerAssumption`, `LocalnetAssumption`,
`DevMachineAssumption`, `DemosAssumption`, `AccountsAssumption`,
`SignaturesAssumption`, and the four of the clients), which TLC evaluates at every
run. What a theorem needs beyond them is in its ASSUME. Every run property about
safety has its theorem, but for those listed at the end of this section.

`PqGuardProofs`, sections 1 to 5. `TypeCorrect` holds for every key policy. The
others assume `KeyPolicy = "fresh"` and rest on `GuardInv`, inductive for the
committed ledger and for the copy of the transaction in progress:

* an identity's key is bound to it, and a key is bound once by an owner
  (`KeysBound`, `BoundOnce`): this is what ties a signature to an identity,
  since the message does not;
* a used signature lies below the nonce of the identity that has its key
  (`UsedBelowNonce`), is alone at its nonce (`OneAtNonce`), and every nonce below
  the current one was used (`NoncesUsed`); so what verifies at the current nonce
  is unused (`VerifiedIsUnused`), and one more use keeps `UsedOnce`;
* the copy extends the ledger (`WorkExtends`), so a commit is one step of
  `OneTimeAuth!Spend` and an abort changes nothing.

`SingleUse` alone is not inductive: nothing in it says that the nonce has passed
the signature. Without the assumption it is false, as `guard_rotate_back` shows.
From `GuardInv` follow `SingleUseHolds`, `NonceCountsUsesHolds`,
`IdentityEvolvesHolds` and `GuardImplementsOneTimeAuth`.

`IndexerProofs`. What a poller holds between awaits is a snapshot of a cursor
up to which everything had been handled, and `handled` only grows (`Snapshot`);
without overlap and on a durable store the snapshot is still the stored cursor
(`Exclusive`). Hence `NothingLostHolds` and `InOrderHolds` for any overlap, and
`OnePageRepeatedHolds` and `CursorAdvancesHolds` under their stated conditions.

`PqClients` (`PqGuardProofs`, sections 11 to 16), for any number of users, tabs,
scripts and attempts, and whoever registers which key how often: no `KeyPolicy` is
assumed. What a program believes was true when it learnt it; the
proof is that no step of any other program takes it back. Every step moves the
pipeline forward (`Forward`): identities keep key and owner, nonces and uses grow,
a known status stays. The invariant has a part per module, each stated in terms
that such a step cannot undo:

* `PipelineInv`: the ledger, on which nonces below the current one were used and a
  signature was used at most once for each identity with its key and owner that is
  beyond its nonce (`UsesInv`); the node is behind it (`NodeBehind`); what each
  transaction's status means (`Histories`): one that is pending may
  still be in time, one that failed lost its nonce or its version for good or
  cannot succeed at all, one that succeeded has left the nonce of its identity
  behind; and one signature unlocks one identity once (`OneSuccess`), since a second
  transaction that does would find that identity's nonce advanced;
* `SponsorInv`, `FormsInv`, `ScriptsInv`: a handler's answer is the status of a
  transaction made for its request, what a client was told is the answer of one
  of its handlers, what a form shows and a script compares was read after its
  transaction executed.

Hence `SuccessIsTrueHolds`, `FailureIsFinalHolds`, `NonceReadBackHolds`,
`UsedOncePerIdentityHolds` and the type invariant `ClientsTypeCorrect`. That a
signature is used once at all, as in `PqGuard` with fresh keys, does not hold here.

`PqVault` (`PqGuardProofs`, sections 6 to 10). The commands of `vault.move` are
functions of the bank record; what each does to one vault, one wallet and the coins
is a lemma about that record, and so is what that does to the sums. `VaultInv` is a
run's invariant too. `Conserved` alone is not inductive: a withdrawal takes from the
pool what it checked against the balance field, so `Balanced` is needed; an abort
returns to the committed bank, so the copy and the bank each have their equation
and `AtRest` says when they meet; a coin is spent once because coins of different
commands differ (`Results`). `VaultAssumption` has finitely many addresses, vaults
and signatures, as sums need. From it `SolventHolds`, `ConservedHolds`,
`VaultAccountsHolds`, `OnlyOwnerDrawsHolds` and `VaultTypeCorrect`, whatever holders
do with their keys. `DrawnAsSignedHolds` assumes `KeyPolicy = "fresh"` and rests on
`DrawInv`: `GuardInv`, and a witness that is held stands for a signature that was
used and has drawn nothing, and for no other witness's signature.

`DevMachineProofs`, sections 1 to 3. For any number of requests, nodes, servers and
scripts:

* `LoneNodeKeptHolds` holds whatever goes wrong. Its invariant (`TrackInv`) adds
  that a DELETE which waits has signalled its process: the file it clears is either
  that process's, or another was spawned since;
* `NoOrphanHolds` is for requests one at a time and nodes in time, and rests on
  `RouteInv` (`RouteInvariance`): a process between its birth and its end has a
  handler waiting for it or the port, and the file names it;
* `ServerKeptHolds` assumes that no pnpm ends before its server ("parent" is not in
  `Trouble`), and nothing else but one script at a time; its invariant (`ServerInv`)
  adds that a server that runs has its pnpm above it, so that a pid file that names
  nobody alive is stale indeed, and that a script which has cleared the file finds
  it empty still. Without the assumption it is false, as `server_parent` shows;
* `FaucetToldHolds` holds whatever goes wrong: a node that may still pay has not
  paid yet (`DripInv`).

`Demos` (`DevMachineProofs`, sections 4 to 10), for any number of runs, any mix of
programs and any number of calls that fail. The proof has two halves.

* `WellMade` says what a program must be like, of its text alone: the setup changes
  nothing; a scenario says no more than its calls add up to (`Total`, a table of
  partial sums); it compares only what no earlier scenario touches and what it has
  added so far itself, and then none of its calls may fail unnoticed; every id it
  reads is one of its own, of the scenario it is nested in, or of a root, a scenario
  that reads none; only the negative control has a call that is to abort.
  `ProgramsMade` proves it of all nine programs, scenario by scenario. TLC checks
  the same formula on the scripts at no cost, and found what the first versions of it
  had wrong.
* `RunInv` holds at every step of a run of a well made program (`DemoInv`, for all
  runs). The properties alone are not inductive: that a row is true needs how much
  there is at the call a run is at (`AmountInv`); that a failure has a cause needs
  which ids are in variables (`KnownInv`) and that what was passed over was passed
  over after a failure (`RowsInv`). Some things are taken from again (`spent`, the
  NFT that is transferred away): of those nothing is claimed. One run reaches
  another only through the gas coins of a shared account, that is, by making
  transactions stale, which nothing in `RunInv` depends on (`OneRun`).

Hence `RowsTrueHolds`, `FailureIsDueHolds` and `ExitToldHolds`. On the way
`ComparesKeeps` shows that a comparison always finds what it expects, so that a run
that fails has a call that failed.

`PqAccountsProofs`, for any keys, labels, servers and number of lists, rests on
`AccountsInv`. The properties alone are not inductive: that an attestation verifies
says nothing of the next registration unless every call anyone can make is
accounted for (`TxInv`), and a server that catches up agrees with the list only if
list and events agreed at every earlier length (`ListInv`, `ViewInv`).
`ServersFollowHolds` says whom the gate lets pass, list by list, and with that who
gets the shares of an identity: the members of any list. Signatures
being records of what was signed, `CoSigned` and `PreflightAgrees` are about the
comparisons the code makes: each envelope that passes is taken apart into those.

`SignaturesProofs`, for every size of hashes, digits and trees that
`SignaturesAssumption` allows.

* `NoChainDominatesHolds`, for every hash: if no digit of one digest were above that
  of another, the first sum of digits would be smaller or the digests the same, so
  the first checksum would be the greater one; but a number none of whose digits is
  above another's is not greater. It fails if the checksum is shifted wrongly,
  which is what the mutant does.
* `RoundTripHolds`: all three verifiers accept what their signers make, for every
  message, key and leaf. Its hypothesis `HashFits` says that the hash has N bytes
  whatever it is given; it speaks of all values at once, so TLC cannot evaluate it,
  and WOTS alone does without (`WotsRoundTripHolds`). A chain climbed to a digit and
  on from there is the whole chain; from a leaf its path leads to the root
  (`PathReachesRoot`); the root of each layer is what the next one signs; after D
  layers no bits of the index are left, so that the last root is the public key; a
  signature is cut where it was put together. FORS needs no argument of its own:
  signer and verifier both hash the roots that the signature leads to.
* `WotsRejectsHolds`: a WOTS signature of which a part or the length was changed, or
  that arrives with another digest, is refused, for every hash, unless there is an
  `Accident`: on what arrived the verifier's climb goes from a value that is not the
  chain's to one that is, or a chain of the key holds one value twice. (Of a wrong
  length there is none: that is refused whatever the hash returns.) Otherwise an
  accepting verifier was on the key's own chains all the way down
  (`DownTheChain`), so what it accepts are the chain's values at the digits of the
  digest that arrived. An altered part is none of these; another digest has a digit
  below the signed one (`NoChainDominates`), so the signed part would stand at two
  places of its chain. `TouchedInv` adds to the history invariant that the channel
  changes the message or the signature, not both. No accident occurs with the run's
  hash, for any of its WOTS signatures, so there the hypothesis excludes nothing.

`LiteAgreement` and `SignaturesAgreement`: `AgreeHolds`, under `HashFits`. The
verifiers in Move and in TypeScript are two programs: the reference is written as
loops over a running state (a read position, one address buffer overwritten word by
word, an index that is halved, tree and leaf carried from layer to layer), and the
definitions of the Move verifiers say what is computed at each position. There is one
induction per loop: after `j` rounds the state is the one that the position
determines, and the words in the buffer are those that the other program puts
together anew, so both hash the same words. From the parts to the whole: digits and
checksum, a chain, a one-time public key, a path, a layer, the hypertree, a forest,
the digest, the verifiers; `LiteAgreement` for WOTS and LITE, `SignaturesAgreement`
for 128s. The lemmas take whatever arrives: only the number of parts of a signature
is assumed, which both verifiers test first. The theorem is about everything a
behaviour can bring to the verifiers, altered, cut, lengthened or under another key.

`DataTheorems` holds the induction these proofs need. The library's induction rules
take a predicate as a parameter, which the installed provers cannot instantiate.
Here induction is used as a fact about sets: a nonempty set of counterexamples has a
minimal member (`WFMin` with the well-foundedness of numbers or of finite sets), or
a set that holds `lo` and the successors of its members holds `lo .. hi` (`Upward`).
That is enough for sums over finite sets, for what recursive functions compute, for
trees, and for folds: the fold of a loop is the last entry of the table of its rounds
(`FoldTable`).

Only model-checked:

* `Rejects` for LITE and 128s, and for WOTS that no `Accident` occurs: that an altered
  signature is refused rests on the hash having no collisions where it matters. It
  is false of some hashes of N bytes, a constant one for instance, and an injective
  hash of longer inputs does not exist, so no assumption on `Sha` that the code
  justifies gives it. The run checks it for one hash.
* all liveness (`Delivery`, `StopEnds`, `Answered`, `RunsEnd`): fairness needs
  `ENABLED`, which the prover does not handle;
* what the runs that expect a violation refute.

## 5. Where code and words differ

`PROJECT.json` lists under "findings", each with the run that shows it:

* `rotate` accepts an earlier key and resets the nonce, against "after one use it
  can never be replayed" (`guard_rotate_back`);
* `withdraw` signs the recipient but does not send to it (`vault_recipient`);
* a restart of the dev server may orphan a node (`localnet_restart`);
* the pid file is not that of the running dev server but of pnpm, and a server that
  outlives it cannot be stopped by the script (`server_parent`).

Met while modelling, without a run of their own; the models follow the code:

* Two POSTs that overlap both find the port closed and spawn two nodes, of which
  one is orphaned, against "idempotent" (route.ts:5). `NoOrphan` fails so when
  `Trouble` is `{"overlap"}`.
* DELETE answers `stopped` after five seconds whatever the process does, and drops
  its record (route.ts:189-194); that needs `"slow"`.
* Clicking register twice binds one cached key to two identities (page.tsx:1325-1338,
  1358-1373), against the convention at pq_guard.move:117-119, so that a signature
  is valid for both. `UsedOncePerIdentity` is what is left of single use.
* `seal_approve` does not look at the identity (allowlist.move:53-55): a member of
  any list gets the shares of every identity, against its comment (:51-52) and
  identity.ts:11-14. `ServersFollow` states what does hold.
* `docs/post-quantum.md:105` allows `vault::withdraw` at the sponsor, whose PTB
  has no place for the coin it returns, so that it always aborts (`Closed`).
* The page shows "PQ-verify passed on-chain" whatever the effects say
  (page.tsx:1592), and "drip confirmed" after three seconds; `stopLocalnet` does
  not look at the answer.
* The page attests a LITE key and signature under the scheme byte of 128S, framed
  differently from `attestation.ts`, so that `verifyAttestation` refuses what
  page.tsx:1250-1251 says anyone can re-verify.
* `local-validator.ts:5-7` says that the patched validator takes SLH-DSA-LITE
  blobs under flag 0x07; its authenticator takes 32 + 7856 bytes only. The page
  (:742) tells the user that such a blob would be accepted.
* The script's complaint that the nonce did not advance by 1 can be raised by
  another program on the same identity (`NonceReadBack`).
* A client told "failure" that signs again may be served twice if the "success"
  of an earlier attempt was lost.
* `create` of the allowlist emits no event.
* `hybridVerify` takes the PQ key from the envelope, so its callers have to pin it;
  `hybridSign` and `pqWrapZkLoginTx` sign the same digest, so one PQ signature
  serves in both envelopes.
* `verifyAttestation` throws, and does not answer, for schemes the library does
  not expose; an attestation sent away can be revoked by neither owner nor
  holder until it comes back.
* `slh-dsa-ref.ts` splits a signature without checking its total length;
  `wots-ref.ts` answers false where Move aborts.
* `submit` builds its body with `JSON.stringify`, which throws on bigint
  arguments.
* The faucet route clears its timeout before it reads the body. Demos that reuse
  a labelled account see an old balance and go on before the new payment.
* The row `pq-guard-neg` of the demos passes on any error (run.ts:179-181), so also
  when its transaction never reached the chain (`RowsTrue` grants it); the row
  `indexer` of run.ts passes whatever the query returns, and the balance `pq-vault`
  compares with (run.ts:309-314) is at least that after the faucet's payment.
* `executeTx` of sdk-core does not look at the status in the effects.
* server.sh:111 speaks of the process group; only pnpm and its direct children are
  signalled, and only pnpm is waited for.

## 6. Not modelled, and the plan

Not modelled: wire formats and vectors (tests and the NIST vectors cover them),
`packHybrid`, React views and the tutorial, key derivation (from mnemonics too),
single calls of third-party services (client wrappers, `fetchRecent`,
`gqlQuery`), Seal's encryption and thresholds, the local mimics of Walrus and
Seal, small Move examples of one assignment each, the wiring of the
authenticator into the patched validator (a third-party program), the Lean and
F* developments, gas amounts.

Two scripts at once are not modelled in `DevMachine`, and `ServerKeptHolds` is for
one at a time.
