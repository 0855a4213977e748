# TLA+ specifications of symbol-bootstrap

symbol-bootstrap generates and runs Symbol nodes and networks: from a preset it
makes keys, certificates, voting key files, node configuration and a nemesis
block in a *target folder*, writes a `docker-compose.yml`, starts the containers
and announces the transactions that link the nodes' keys. It is a set of
commands, each a process of its own, that share nothing but the target folder
and the network. There is no lock and no transaction on the folder: most of what
is hard about the program is what a command finds there after others were
killed, repeated, run with other presets, or run when the network had moved on.

All source paths below are relative to the repository; `service/X` stands for
`src/service/X.ts`.

## 1. Inventory

| Part | State it keeps | Operations | Talks to | What makes it correct |
|---|---|---|---|---|
| Voting key files (`service/VotingService`, `VotingUtils`, `VotingKeyFileProvider`, command `updateVotingKeys`) | `private_key_tree<i>.dat` of every node, the `voting` lists in `addresses.yml` | look at the files, create the next one, list them | called per node by `config` and `updateVotingKeys`; epoch from `RemoteNodeService`; `link` reads the list | no two files share an epoch; none is overwritten; no epoch ahead without a key; no more files in use than can be linked; the list names files that exist |
| Link and unlink (`service/LinkService`) | none of its own; reads `addresses.yml` and the account | create unlink and link transactions, with prompts | `AnnounceService`, REST | what it announces is accepted; no key lost without a successor; repeating it is harmless |
| Container start script (`config/docker/server/start.sh`) | flag files in the data folder shared by server and broker | boot, wait, recover, launch, monitor, give way | the other container's script, docker's restart policy, catapult's lock files | never run on unrecovered data; recovery alone on the data; both come back |
| Configuration (`service/ConfigService`, `AddressesService`, `ConfigLoader`, `NemgenService`) | `preset.yml`, `addresses.yml`, `nodes/`, `gateways/`, `nemesis/` | `config` with `--reset`, `--upgrade`, custom presets | certificate, voting, nemgen services; openssl and nemgen in docker | what completes is consistent, what is stopped is never a mix; keys survive upgrades; chain data belongs to the seed, the seed to the nodes |
| Compose, run, clean, reset (`service/ComposeService`, `RunService`, `BootstrapService`, commands) | `docker/docker-compose.yml`, node data | `compose`, `run`, `start`, `stop`, `clean`, `resetData` | docker | what is started is what was configured |
| Certificates (`service/CertificateService`, command `renewCertificates`) | `cert/` of a node, its `metadata.yml`, the gateway's copy | create, keep, renew, read expiration | `config`, `healthCheck`, openssl | metadata never describes other files; copies are current |
| Announcing (`service/AnnounceService`) | none | simple, aggregate complete, aggregate bonded with hash lock, choice of cosigner | REST, websocket listener, `Link`/`ModifyMultisig` services | all nodes served; a hash lock not wasted; enough signers |
| Multisig modification (`service/ModifyMultisigService`) | none | validate and create a modification | `AnnounceService` | thresholds stay reachable |
| Nemesis balances (`service/AddressesService` 106-215) | numbers in the preset | distribute, correct by the remainder | `config` | the supply is conserved, and what was asked for is given |
| Keys at rest (`service/CryptoUtils`, `YamlUtils`, `BootstrapAccountResolver`, commands `encrypt`, `decrypt`) | private keys in the yml files, and their password | generate, encrypt, decrypt, remove by security mode, ask again | every command | no key is needed that is stored nowhere; encrypted keys stay encrypted; no stored key is lost |
| Polling (`service/AsyncUtils`, `RunService.healthCheck`) | time left | check, sleep, check again | docker, ports, REST | never gives up early, ends in time |
| Preset merge (`service/ConfigLoader`) | none | merge, expand `repeat` | `config` | pure functions |
| Remote nodes (`service/RemoteNodeService`) | none | best node, epoch, statistics | REST servers | falls back when nobody answers |
| Wizard, migrations, reports, templates, zip, docker wrappers, verification | files of one step | input and output | - | not candidates for a model |

What interacts with what: `config` calls certificates, voting keys, nemesis and
writes both yml files, `preset.yml` last; `updateVotingKeys` rewrites
`addresses.yml`; `link` turns `addresses.yml` and the account on the chain into
transactions; `compose` reads `preset.yml`; `run` starts containers whose scripts
then coordinate by themselves through flag files.

The hard behaviours, which `PROJECT.json` lists line by line as hazards:

* commands killed between any two writes, and run again with other options;
* nodes handled concurrently (`Promise.all`) while one of them throws;
* data read once (account, epoch, preset) and used after prompts or other commands;
* two shell scripts testing and removing flag files at once, with containers
  killed, stopped and restarted;
* limits and boundaries: three voting keys, two retries, equal lifetimes, the
  clock's millisecond.

## 2. Modules

| Module | Models | State and actions |
|---|---|---|
| `VotingKeys` | `VotingService.run` for every node, from both commands, with the choice of the epoch (`RemoteNodeService.resolveCurrentFinalizationEpoch`) | `folder[n]` maps file indexes to epoch ranges (a truncated file is `Torn`), `yml[n]` is what `addresses.yml` lists. `StartCommand`, then per node `CheckFiles` (everything up to the first `await`), `OpenFile`, `FillFile`, `ReloadFiles`, then `Complete` or `Abort`. The network advances; every REST node answers with an epoch up to `Lag` behind, or not at all; `updateVotingKeys` may be given the epoch (`TypedEpochs`); the user adds and deletes files of the nodes in `ByHand` |
| `VotingCoverage` | what the files promise a node, without files, indexes, commands or crashes | `covered[n]`, the epochs with a key, which grow by whole lifetimes; implemented by `VotingKeys` (`AppendsLifetimes == Coverage!Spec`) |
| `LinkKeys` | `LinkTransactionGenericFactory` of `LinkService` and the account | one action per loop iteration of the code (`VisitLinked`, `VisitFile`, `VisitFileToUnlink`), prompts as choices, `Apply` or `Reject` by the network's rules. `known` is the epoch of the run: the network's when it started, or `lastKnownNetworkEpoch` of the preset |
| `KeyLinks` | what a run of `link` promises the owner of the account, without transactions, limits or prompts | `account`, `files`, `epoch` and `changes`, those of somebody else: `Run` replaces links and adds some, or removes own ones, at once; everything else leaves the account alone or is not the program's. Implemented by `LinkKeys` (`ChangesAsPromised == Promise!Spec`) |
| `StartScript` | `start.sh` of server and broker | a label per statement that reads or changes a flag; `errexit` is bash's `set -e`, which `try` turns off for good; docker's `on-failure:2` |
| `ConfigTarget` | the target folder under every command that changes it | one variable per kind of file; `pc` is the position of the running command, `stage[n]` of a node in a `Promise.all`; `Abort` at every label. `ResetCut`, `Clean`, `ResetData` and `CleanUpCut` may stop when a part is deleted. `network` is what the folder is for: the custom presets and the nemesis seeds that its commands may ask for, each command with any of them |
| `Poll` | `AsyncUtils.poll` | `millis` wraps as `Date.getMilliseconds()` does, `remaining` is the `totalPollingTime` of the recursive call |
| `HealthCheck` | `RunService.healthCheck` and `runOneCheck`, with `Poll` as the polling loop | `listed` is what `docker ps` said in this check, `answer[p]` what port `p` (and the REST gateway behind it) said; one action per request, in any order, then `EndCheck` is `Poll`'s `AnswerUp` or `AnswerDown`. `steady` is the time from which the network is up for good; before it every request may be answered either way |
| `Announce` | `AnnounceService.announce` with what `link` and `modifyMultisig` supply, the accounts and the chain | `pc` and `node` are the position in the loop over the nodes; one action per call that reads, asks or announces: `VisitNode`, `CreateTransactions`, `EnterCosigner`, `Sign`, `ConfirmLock`, `ConfirmAggregate`, `LockConfirmed`/`LockFails`, `AggregateTaken`/`Refused`/`Fails`. `info` is `multisigAccountInfo`, `plan` the signed transaction and its hash; `troubled` and `declined` record what happened to a node. Others change the accounts, the deadline passes, the user presses Ctrl-C |
| `Certificates` | `CertificateService.run` for all nodes, from `config` and `renewCertificates` | `ca[n]`, `crt[n]`, `full[n]`, `metadata[n]` are the files of `nodes/<n>/cert`; `stage[n]` is the position of the call for `n`: `Examine` (metadata and expiration date), `DeleteFolder`, then the statements of the openssl script that write a file others read (`MakeCa`, `OpenCrt`, `FillCrt`, `OpenFull`, `FillFull`), then `metadata.yml`, opened (which empties it) and filled. `Abort` at every stage; `cut[n]` records what it left half-way |
| `Addresses` | private keys on disk: `AddressesService` and `ConfigurationUtils` (generate, keep, replace, merge), `CryptoUtils` and `YamlUtils` (drop by mode, encrypt), `BootstrapAccountResolver` (prompt), under `config`, `updateVotingKeys`, `renewCertificates`, `encrypt`, `decrypt` and edits of the custom preset | `customFile`, `addresses`, `preset`, `cert` are the files; `memory`, `account` and `pc` the running command, from `StartConfig` (all up to the first prompt or write) through `DistributeBalances`, `GenerateCertificates`, `GenerateNodes`, `GenerateNemesis` to the two files, each opened (which empties it) and filled. `asked` are the keys just prompted for, `seen` the generated keys that were ever on disk |
| `NemesisBalances` | `processNemesisBalances` for one mosaic | operators on a request (supply, harvester's limit, accounts, fixed amounts, nodes): `Distribution` is what the code gives, `AsAsked` what the preset asks |
| `MC...` | instances | constants that a `.cfg` cannot write |
| `VotingKeysProofs`, `LinkKeysProofs`, `StartScriptProofs`, `PollProofs`, `AnnounceProofs`, `CertificatesProofs`, `AddressesProofs`, `ConfigTargetProofs` | theorems | section 4 |

The modules are separate because the code is: they share the target folder, but
each part of it is read and written by one of them. Where one relies on another
it says so: `ConfigTarget` takes the certificate files of a node for one, which
`Certificates` opens up, and its yml files and keys for whole, which `Addresses` opens up (the
files may be emptied by a kill, a key may be public only); `LinkKeys` takes from
`VotingKeys!DisjointFiles` that the voting files of a node do not overlap; `ConfigTarget` leaves voting files to `VotingKeys`.

Definitions named as "mutant" in a comment are faulty variants of the definition
that follows them. No specification uses them; they are there to show that each
property fails when the code is wrong in a plausible way.

### Abstractions

* A file is what later steps can tell about it: a voting file its epochs, a
  certificate the key it was made for, a configuration folder the key it was
  generated from, a seed the keys it links. Template contents are left out.
* A node of `ConfigTarget` has a key of each of three kinds: "main" stands for the
  main and the transport key, which every node has; the remote and the VRF key are
  there if the roles of its preset call for them (`AddressesService.ts:265-284`), which
  the model gives as a set of kinds. A preset provides keys with their private keys.
* The nemesis in `ConfigTarget` is a seed folder, known by a number, or created
  with remote and VRF link transactions. Those of voting keys, and the ones that a
  preset provides in `nemesis.transactions`, are left out, and a seed folder is
  copied in one step.
* A yml file is written in one step in `ConfigTarget` and `VotingKeys`; in
  `Addresses` and `Certificates` it is opened, which empties it, and then filled. A text file cut off
  in the middle, which does not parse or parses short, is not modelled.
* In `Addresses` one node stands for all, since `resolveNodeAccounts` resolves each
  node by itself, and a key pair is a number: an account is the number where its
  public key is known and where its private key is. AES is a library: a file has a
  password or none.
* `NemesisBalances` is one mosaic, since the code's loop body uses nothing of the
  other mosaics. Amounts are not negative (`sum` refuses those).
* A command that throws and a command that is killed are the same `Abort`.
* `deleteFolder` is cut off in the order of the directory, which Node.js sorts.
* In `Certificates` a command that is killed takes its openssl script with it.
  What a renewed certificate is signed with, and that a running node reads only
  `node.full.crt.pem`, is external.
* One command runs at a time on a target folder. The code has no lock against
  two, and no model says what two would do.
* In `LinkKeys` unlink transactions are applied before link transactions, as
  `AnnounceService` and `createTransactions` order them, and the transactions of
  a run are accepted or refused together.
* `Announce` does not look into the transactions: how many there are (none, one
  or more) is what decides on their kind. What the network accepts (signatures,
  payer, lock, deadline) is external, and every call may also fail for another
  reason, before or after it took effect.
* In `Announce` a failed read of a multisig account looks like an ordinary
  account, as in `getMultisigAccount`; properties that cannot hold then are about
  nodes that are not `troubled`. The fee is the computed one, not `--maxFee`. A
  cosigner is not itself a multisig account.

## 3. Model checking

| Run | Question | Bounds and why they are enough | Result |
|---|---|---|---|
| `voting_keys` | do commands that are killed anywhere, work with an old epoch or pause keep the files in order, and implement `VotingCoverage`? | two voting nodes, of which one also has files added and deleted by hand, and one node that does not vote, lifetime and future lifetime 3 (the boundary that the code accepts), four epochs, REST nodes up to one epoch behind: room for a file that expires beside two later ones. (All other lifetimes are proved.) | holds |
| `voting_keys_overwrite` | is a file that the user put there ever overwritten? | one voting node, two manual files under indexes that leave gaps | **violated**: finding 1 |
| `link_keys` | is what `link` announces accepted, enough, harmless when repeated, and does the account change as `KeyLinks` promises? | seven links: own and foreign remote key, three own voting files, two foreign voting keys, which cross the same file, so that it overlaps two linked keys, and with the others make a fourth; two epochs, so that a file expires and the preset's epoch is an old one; one foreign change | holds |
| `start_script` | is data always recovered before a launch, do flags tell the truth, do both come back? | docker's two retries, three crashes, so that it may give up on a container, and one stop | holds |
| `start_script_recovery` | has recovery the data to itself? | one crash | **violated**: finding 2 |
| `announce` | are locks used, refusals respected, nodes independent, signatures and fees enough? | two nodes, a provider, three cosigners; no multisig account, two that share cosigners, or provider and one node; empty and unknown balances; both kinds of modification; one change by somebody else, at any time | holds |
| `announce_modify` | is a modification validated against the account it modifies? | as above, nobody else changes anything | **violated**: finding 4 |
| `health_check` | is a network that comes up in time reported as running, and does the check end? | a second of 3 ms, interval 4, timeout 12, checks up to 4: every phase of the wrap, checks longer than a second, polls of several checks, and a timeout that reaches the bound of `SteadyIsNoticed`; a database without ports, a node, a gateway; every `steady`; `MaxNow` is never reached | holds |
| `poll_timeout` | does polling end in time? | as above, timeout 10, any answers | **violated**: finding 3 |
| `config_target` | is a completed config consistent and a stopped one never a mix, do keys survive, does `start` boot what it configured, does chain data belong to the seed, the seed to the nodes? | three networks: `Growing` goes from one node to two (the second with a provided key) and back, and between a nemesis of its own and a seed folder; `Private` changes the roles, the provided key and the exclusion from the nemesis of its two nodes, with four generated keys: a failed first attempt and a second one; `Adopting` is given another seed folder, or none, by any upgrade | holds |
| `certificates` | do metadata, authority and certificates stay together through kills, renewals and changing keys? | two nodes, alike (symmetry), two keys so that old ones come back, three days: a certificate of day 0 is due on day 1, and its authority has expired on day 2 | holds |
| `addresses` | are prompts answerable, do encrypted keys stay encrypted and stored keys stored, can a completed folder be upgraded, are balances as asked? | main, transport and VRF key and the nemesis signer; six custom presets in all four modes, with no key, a public or a private one or both, and of a node that harvests or does not; two user's key pairs, two passwords, two commands that generate keys (a first attempt and another); 48 requests of small supplies with zero, fixed, generated and shared amounts, of which some cannot be met | holds |

`CHECK_DEADLOCK FALSE` only for `Poll` and `HealthCheck`, where polling ends, and for `Announce`,
where the command ends.

### Fairness

Only three specifications of the program state it. `StartScript!FairSpec`: weak fairness of
`Script(a)`, that is, of the two scripts' own steps, of docker's restart of a
container that failed and of an answer by `catapult.recovery`; each of them
proceeds whenever it can, without anybody's help. Crashes, stops and `up` are not
fair. `ComesBack` is stated for behaviours with no more crashes than retries in which no
container is left stopped: a user's stop, or an application ending with status 0,
is not undone by docker.
`Poll!FairSpec` and `HealthCheck!FairHealthSpec`: time passes, a timer fires, a
request is answered or fails in the end (`isReachable` has a timeout, HTTP requests and
`docker ps` are answered by the operating system); the user's interrupt is not fair.

### Findings

1. `VotingService.ts:87` names the new file by the number of files. With a file
   under a higher index, which `:69` provides for, an update later replaces a
   readable file and its keys are gone.
2. `start.sh:47-51` waits for the other's recovery and does not look again before
   it launches or recovers: `catapult.recovery` can run beside the other
   application, on the same data.
3. `AsyncUtils.ts:48` measures a check with the millisecond *within the second*.
   A check of whole seconds counts as nothing, and polling outlasts `--timeout`.
   It never gives up early (proved) and always ends (checked).
4. `AnnounceService.ts:210` gives the factory the announcer as the main account.
   With `--serviceProviderPublicKey`, `modifyMultisig` reads and validates the
   provider's multisig account (`ModifyMultisigService.ts:102`), and what it then
   announces modifies the node's.

## 4. Proofs

Every theorem holds for all constants that satisfy the module's `ASSUME`s:

* `VotingAssumption`: lifetimes are natural numbers and the future lifetime is at
  most the lifetime, which `VotingService.ts:58` enforces.
* `LinkAssumption`: the links are finite in number, a voting key is valid for at
  least an epoch, the node's keys are those of its files, one of each kind, and
  the preset's last known epoch is at least 1.
* `PollAssumption`: the interval is at least a second (`RunService.healthCheck`
  passes ten).
* `StartAssumption`: the bounds are numbers.
* `AddressesAssumption`: the user's keys are in `1..UserKeys`, so that they are told
  from generated ones. `BalancesAssumption`: amounts are natural numbers, and the
  limit of a harvester's balance, which the network's preset sets, is not zero.
* `TargetAssumption`: a custom preset has at least one node, and its nodes have
  different names.

One theorem has a further hypothesis, which its section explains: `DistinctMain` of
`NodesAreIndependent`. Type correctness is proved for every module that has a proof
module, and not model-checked again there.

**`VotingKeysProofs`**, with any files added or deleted by hand.
`TypeCorrect` from `Typed`, which adds to `TypeOK` that what is planned has at
least one epoch (`PlanTyped`) and that no node is at work without a command
(`Idle`). `FilesNeverOverlap`: *`DisjointFiles` alone is not inductive*, since
`FillFile` writes a range chosen several steps before; `DisjointInv` adds
`PlanApart` (the planned range has no epoch of an existing file, kept because
nobody else adds files meanwhile) and that ranges are not empty. The lemma
`LastIsMax` is the reason why the code may look at the last file only: in a
separated folder the greatest `startEpoch` has the greatest `endEpoch`.

The rest is about the nodes that are not in `ByHand` (finding 1 shows that files
added by hand do get overwritten). `Numbered` strengthens `DisjointInv`
with `Chain`: the files are `1..k`, only the last may be truncated, each file
ends at least a lifetime after the ones before it and, when it was made, those
were about to end (`After`). From it:

* `UpdatesNeverOverwrite`: the planned index is the one after the last;
* `UpdatesKeepThree`: if a file has three later readable ones (`OldFilesEnd`), the
  second next ends by `epoch + FutureLifetime`, so it ended two lifetimes
  earlier, before `epoch`; this is where `FutureLifetime <= Lifetime` is used;
* `UpdatesListExisting`: with `Listed`, that `yml` and the lists in memory name
  readable files, and `ReadableFilesStay`;
* `UpdatesCover`: with `CoverInv`, per node `NoHole` (every epoch from now to the
  end of any file has a key), `PlanCloses` (a planned file starts where the
  others end, or in the past) and `Reaches` (a node that is done reaches as far
  as the property asks).
* `UpdatesAppendLifetimes`: the refinement of `VotingCoverage` under
  `covered[n] = CoveredEpochs(n)`. Only `FillFile` changes what is covered, and by
  `PlanCloses` the plan it fills starts where `VotingCoverage` allows; every other
  step is a stutter. `UpdatesLeaveNoHole` is `VotingCoverage!NoHoleAhead` for it.

**`LinkKeysProofs`**, for any links, files and epochs, and any number of changes that
others make to the account. `RefusedWithCause` is not inductive: `Reject` compares
the transactions with the account at the very end, when nothing tells any more how
they were collected. The invariant has six parts:

* `AccountInv`: what the network guarantees of an account, whoever changed it, and
  that the node's files do not overlap.
* `RunInv`: at every step the account *as the run read it* (`info`) would accept what
  is collected so far but for overlaps (`Sendable(info, txs)`), and would then have
  exactly the voting keys of `remainingVotingKeys`. This is what makes the three-keys
  test of the code the right one. The lemmas `UnlinkOneMore` and `LinkOneMore` say
  when one more transaction keeps it.
* `ClearInv`: a file is linked beside a key that it overlaps only if it overlaps two
  keys of the account (`CrossesTwo`), of which the code finds one
  (`LinkService.ts:241`). This refusal is real, and `RefusedWithCause` names it
  beside the one that the code cannot help, an account that somebody else changed.
* `StageInv`: which kinds of key a stage may have linked and what it has yet to visit.
* `RemovedInv`: what a run removes has expired or is replaced, without consent it is
  the node's own, and of an account that is fully linked it removes nothing. From it
  `UnlinkedIsReplaced`, `NoConsentNoRemoval` and `LinkIsIdempotent`.
* `VisitedInv`: what has become of the files visited so far: linked, or three keys
  are there. From it `FilesLinked` and `NothingLeftLinked`.

`LinkingIsAtomic` is the refinement of `KeyLinks`. All steps of a run but `Apply` are
stutters, and `Apply` may come after somebody else changed the account: it still
keeps the promise, because `RemovedInv` and `PromiseInv` tie each removal to its
successor among the transactions of the run, not in the account. `changes` is part of the mapping, so that a change by others cannot pass
for one by the run.


**`StartScriptProofs`**: `NeverLaunchedUnclean` and `RunningIsFlagged` from
`NoLock` (between recovery and launch there is no lock file) and `Flags` (only the
monitor loop has a process, and its flag was touched before).

**`PollProofs`**: `NeverGivesUpEarly` from `Budget`: the difference of two
milliseconds is at most the time that has passed, wrap or not, so the time left
never falls behind.
For `HealthCheck`, whose steps are steps of `Poll` or stutters (`ImplementsPoll`),
`SteadyNetworksAreNoticed` adds `Seen`: what was seen down in a check was not yet
steady when the check began. A check that makes polling give up began at most an
interval and a second before the timeout, since the measured time is less than a
second however long it took; so the network was not steady by then. The bound is exact
(the run reaches it).

**`AnnounceProofs`**, for any number of nodes, cosigners and modifications.
The properties about order are inductive together with `Placed` (what `node` and
`plan` are at each `pc`) and `Past` (what is on the chain
belongs to a node the loop has reached; the current one has something there only
once its transaction is announced): `OrderInv`. Without `Past` a node that is
declined could already have a lock. From it:

* `AggregatesAreLocked`, `DepositsAreUsed`, `ConsentIsNeeded`: conjuncts of
  `OrderInv`;
* `FeesAreEnough` and `SignaturesAreEnough` need what was read to be still true.
  `ReadInv` says that, for a node without trouble on accounts that did not change,
  `info` is the announcer's account and the entered keys are distinct cosigners;
  the lemma `OneMore` counts them. `SignInv` says the
  same of a plan: enough signatures, a payer with funds, a sufficient fee.
  `SignaturesAreEnough` is an action property, by `SignInv` before the step.
* `NodesAreIndependent` by `SentInv`: every node that the loop has passed, that could
  pay and was neither declined nor troubled is on the chain. Whether a node can
  pay is judged by its account now, but the loop judged it when it got there; the lemma
  `JudgedAlike` says that the two agree if nobody else changed anything and
  `DistinctMain` holds, that is, different nodes have different main accounts.
  With one account for two nodes the theorem is false, as TLC shows: a modification
  announced for the second node changes the cosigners of the first.

**`CertificatesProofs`**, for all nodes, keys and periods. `MetadataTells` is not
inductive: whether `FillMetadata` is right depends on what the stages before it
made. `Folder(n)` says it stage by stage: `Marked` (what `metadata.yml` says in each
stage: nothing while a folder is created, the right keys while it is renewed),
`Owned` (whose the files are), `Made` (which are finished), `Uncut` (what a kill
cannot have taken away), `Timely`, and `Explained` (an authority without
`metadata.yml` was left by a kill), from which `AuthorityIsKept` follows. Since the calls for the nodes share nothing,
`NodeStepApart` gives every step of `n` for free in the other folders, and
`KillKeeps` does all kills at once.

**`AddressesProofs`**, for all node kinds, presets, passwords and bounds.
`PromptsAnswerable` needs to know where every key comes from, which `AddressesInv`
says:

* `Sourced`: a key in a file is `Available`, that is, the user's own or stored with
  its private key at some time (`seen`); a key in memory may also be one that is
  about to be stored, because it has its private key and its mode does not drop it.
  That `RefusesToGenerate` covers every kind whose generated key would be dropped
  is what `StartConfig` needs to keep this; the lemma `ResolvedAccount` says the rest.
* `Pairs`: a private key belongs to the public key beside it, without which the
  next `toAccount` would throw.
* `Loaded`: what has become of the stored keys since the file was read, and that it
  was read with its own password; from it `NeverPlainAgain` and `StoredKept`.
* `Running` and `Complete`: which steps a command takes, and that `addresses.yml`
  knows every account once `preset.yml` is written; from it `CompletedUpgrades`.

`BalancesAreAsAsked` is about the arithmetic of `DistributeBalances`, for any number of
nodes and accounts and any amounts. It needs induction over sequences. The library's
induction theorems take an operator and cannot be used, but its theorem that the
order of the natural numbers is well-founded speaks of sets: with it `Induct` and `InductSeq` are
induction for a set of numbers or of sequences, and `Recursion` says that a function
defined by recursion is what its equation says. `Total` and `Chosen` are therefore
recursive functions. The argument: shares that are rounded down are together at
most what is to be shared (`TotalAtMost`); leaving zero amounts out does not change
a sum (`TotalOfPositive`); so the remainder that the first amount gets is not
negative and closes the sum on the supply (`FirstReplaced`, `FeasibleAsAsked`). If
the request cannot be met, the sum differs from the supply and `config` refuses it
(`InfeasibleRefused`).

**`ConfigTargetProofs`**, for all networks, presets and node names. None of the
properties is inductive: `WritePreset` completes a configuration and looks at none
of its files, so what the steps before it achieved has to be said at each of them.
`TargetInv` has these parts:

* `Memory`: `Named` (node names differ; in memory a node has just the keys that its
  roles call for, and each is the old one or a provided one), `Staged` (only nodes of
  the configuration are worked on). From it `UpgradesKeepKeys`.
* `Folder`: `Paired` (a `metadata.yml` never beside certificates of another key),
  `Built` (for each node and label, which of its files are done; the `Barrier`s turn
  "this node is done" into "all are"), `Finished` (the gateway and `addresses.yml`).
  From it `CompletedConfigs`.
* `Matched`: `NodesMatch` itself with `Cleared`: while certificates are replaced, the
  server configurations and gateways made with the old ones are gone. That
  `cleanUpConfiguration` comes first, of all nodes before the first certificate, is
  what makes `NodesAlwaysMatch` true.
* `History`: `Upgrading` (which way the command took), `Origins` (every seed is one
  that the network's presets ask for), `Untouched` (nothing has run without a
  `preset.yml`), `Rooted`, `Composed` (from it `StartBootsItsPreset`), and
  `DataOfSeed` itself. `DataOfSeed` alone is not inductive: a seed is copied anew
  beside old chain data, which is right only because a nemesis is never created anew
  while nodes may have run. `Rooted` says this, and only while `addresses.yml` is
  there: a deletion killed half-way may leave chain data without its nemesis, but it
  has deleted `addresses.yml` first (`FirstPieces`), and then `config` throws until
  the folder is deleted for good.

`NewSeedsLinkTheirNodes` adds `LinksInv`: all presets come from custom ones
(`Sourced`), a link transaction is of a node and role that some custom preset calls
for (`Confined`), those of the nodes at hand are all written anew before `nemgen`
reads the directory (`Renewed`, a fact that passes a `Barrier`), and the seed has
just these (`Seeded`).

**Only model-checked**: the two liveness properties, `ComesBack` and `HealthCheckEnds`,
since the provers reason about neither fairness nor `ENABLED`. Every other property of a
passing run, invariant, action property or refinement, is a theorem. The four
violated ones need no proof.

## 5. Exceptions, and what is not modelled

What the code allows, and the properties therefore except:

* A file that overlaps two linked keys: the code takes the first that overlaps
  (`LinkService.ts:241`), and the link transaction is refused because of the other.
  `RefusedWithCause` allows for it.
* `KeysKept` is by index, as `AddressesService` is: a custom preset that reorders
  its nodes moves their keys to other names. A key that the roles no longer call for
  is dropped (`AddressesService.ts:265-284`), and an upgrade that brings the role back
  generates another one.
* A plain `start` after an interrupted upgrade finds `preset.yml` and reuses the
  folder as it is (`ConfigService.ts:145`), with configurations or seeds that are
  gone, or new beside the old yml files. `NodesMatch` says only that the
  configurations and certificates there are not of different main keys.
* `DataOfSeed`: an upgrade copies the seed folder of the preset again ("Upgrading
  genesis on upgrade!", `ConfigService.ts:256-299`). If a custom preset, `--preset` or
  a new release brings another folder, it does lie beside chain data of the old one.
  The property excepts a seed that is a folder's, in a network whose presets ask for
  more than that folder; a nemesis that was created is never excepted.
* `NemesisOfNodes`: `generateNemesisConfig` does not empty `nemesis/transactions`, so
  that an attempt with other nodes or roles, stopped before its end, leaves
  transactions that the next seed takes in. The property confines them to what
  another custom preset of the folder calls for.
* `RenewalKeepsAuthority`: a renewal killed between the opening and the writing of
  `metadata.yml` (`YamlUtils.ts:74`) leaves it empty, and the next command takes the
  folder for one of other keys and makes a new authority. So does a creation that was
  killed.
* `StartBootsPreset` is about `start`: after `config --upgrade` alone, a plain
  `start` boots the old `docker-compose.yml`, and the code means it to.
* `SignedEnough` and `FeeCoversCosignatures` are about `link`. For
  `modifyMultisig` they do not hold: a modification that adds a cosigner to a
  multisig account is announced as complete without the new cosigner's signature
  (`AnnounceService.ts:323`), and its fee leaves out signatures when there is a
  provider or when two cosigners are added to a multisig account.
* `CompletedIsCurrent` leaves out folders in which a renewal, or the emptying of
  the folder, was killed. The code does not notice these: a renewal killed
  between `node.crt.pem` and `node.full.crt.pem` is called up-to-date from then on,
  one killed inside `node.crt.pem` fails every later run, and a folder without
  `ca.cert.pem` cannot be renewed.
* `PromptsAnswerable` takes a generated key for answerable once it was stored with its
  private key (`seen`), since the user could have read it there then, also if a later
  mode drops it.

What is left out:

* An epoch given to `updateVotingKeys` that the network has not reached: `TypedEpochs`
  are those up to the current one, as the flag means it ("The network's finalization
  epoch").
* Resetting or cleaning a folder whose containers run.
* The gateway's copy of a certificate, which `renewCertificates` does not renew.
* A folder in `PROMPT_ALL`: the signer's private key is dropped, nothing asks for it,
  and the next upgrade generates one that does not fit the public key, and throws
  (`AddressesService.ts:126`). `CompletedUpgrades` leaves these folders out. The
  accounts generated for the mosaics, which are dropped in the same way and which
  nothing reads again, are not in the model.
* `addresses.yml` is overwritten in place: a command killed between the opening and
  the writing leaves it empty, and its keys are lost. The model has this step
  (`OpenAddresses`), and no property says otherwise; after it only `--reset` helps.
* A preset whose amounts leave less than one unit to each account that shares the
  rest, or that fixes every amount, is refused even if its sum is the supply
  (`AddressesService.ts:193-206`), and with `accounts: 0` the first node takes the
  remainder, above its harvester's limit. `BalancesAsAsked` counts the first as
  requests that cannot be met and leaves the second out.
* The keys of HTTPS certificates and of agents, and files in old formats
  (`MigrationService`), in `Addresses`.
* The lists of known peers and gateways of `RemoteNodeService`: reads without state.
* Whether a certificate is about to expire, in a health check: any answer.
* The parts of the inventory without a module, until the plan reaches them;
  `PROJECT.json` has a reason for each.

## 6. Plan

Done, in this order, most important first:

1. `VotingKeys`, its runs and proofs; then its abstract specification
   `VotingCoverage` and the proof that it implements it, with files by hand and
   stale REST nodes.
2. `LinkKeys`.
3. `StartScript` and its proofs.
4. `ConfigTarget`, its run and proofs.
5. `Poll` and `HealthCheck`, the run and proofs.
6. `Certificates`, its run and proofs.
7. `Announce` with `modifyMultisig`, its runs and proofs.
8. `Addresses` with `NemesisBalances`, the run and proofs.
9. `KeyLinks`, the proofs about `LinkKeys` and that it implements `KeyLinks`;
   proofs of `NodesIndependent`, `NemesisOfNodes` and `BalancesAsAsked`.

Left:

1. The gateway's copy of a certificate in `Certificates`, with the same files
   under `RunService.checkCertificates`.
2. Repeated runs of `modifyMultisig` in `Announce`.
3. `ConfigTarget` implements an abstract target folder (empty, configured or
   half configured).
4. `PresetMerge`: merge and `repeat` expansion as operators, which are pure.
