# solana-validator-failover in TLA+

`solana-validator-failover` moves the voting identity of a Solana validator from
one host to another. The same program runs on both hosts: on the passive one it
becomes a QUIC server, on the active one a QUIC client. Two validators that vote
with one identity at the same time, or a validator that votes without knowing its
last vote (its *tower file*), can be slashed, and an identity that neither host
holds costs rewards for as long as nobody notices. These modules say how the
program avoids the three, and where it does not.

Paths below are relative to `internal/` unless they say otherwise.

## The system

| Component | State | Operations | Talks to |
|---|---|---|---|
| Configuration (`validator/validator.go` 99-722, `identities/`, `utils/`) | settings, fields of the validator, expanded commands | check every setting in order, load identities, execute templates, ask for the public address, look up the role | operator, file system, RPCs, address services |
| Validator startup (`validator/validator.go`, `cmd/.../run.go`) | role, tower file, chosen peer | look the own node up in gossip, wait for health, take the active or the passive path, delete an old tower, select a peer | RPCs, operator, file system |
| Client, on the active host (`failover/client.go`) | its copy of the message, its step | connect and retry, wait for the go-ahead, for the leader schedule and for a slot, pre hooks, set-identity, send the tower, read the result, roll back | server over one stream, RPCs, commands |
| Server, on the passive host (`failover/server.go`, `stream.go`) | its copy of the message, the stream in use, its step | accept, validate, show the plan, sample, empty the tower file, pre hooks, go-ahead, receive and write the tower, set-identity, report, roll back | client, RPCs, operator, commands, file system |
| Message (`failover/message.go`, `stream.go`) | one struct that both sides hold a copy of | gob encode and decode | - |
| Rollback (`failover/rollback.go`, `hooks.RollbackConfig`) | enabled or not on each side | re-assert the previous identity, post hooks | client, server |
| Gossip lookup and confirmation (`solana/client.go`, `server.go` 629-758) | what the RPCs answer, attempts made | find a node by address, by key, by both; confirm the switch | local RPC, cluster RPC |
| Leader slot timing (`client.go` 318-439, `solana/client.go` 392-462) | slot, epoch, leader schedule | poll until the next own leader slot is far enough; wait for the start of a slot | local RPC, cluster RPC |
| After the failover (`server.go` 531-611, `stream.go` 311-476) | slots, vote credit samples | end slot, report, hooks, confirmation, summary, samples, rank, shutdown | RPCs |
| Hooks (`hooks/hooks.go`) | a process and two readers per hook | run, in order, with environment and templates | commands |
| Logging, TLS transport, updater, rendering | - | print, encrypt | - |

What makes it hard:

* two programs, each with error exits at every step, where the one has to notice
  the end of the other from a stream that closes or breaks;
* commands, RPCs, files, hooks and the operator fail or take any time, and either
  process may be killed between two steps and started again;
* both sides merge what they receive into the copy of the message they hold (gob
  leaves zero values out), so that a field is never reset by the peer;
* the server starts a goroutine for every stream but keeps the stream in a field
  of the server they share;
* a hook writes into two pipes that two goroutines read while the program waits for
  it, and a command or hook may fail after it has had its effect;
* commands come from templates, through HTML escaping and a split at every space;
* gossip follows a change of identity late, lists two nodes of one address in any
  order meanwhile, and two RPCs may disagree;
* slots and epochs go on between two RPC calls, during hooks and during retries.

What each component has to guarantee: *client and server*: one active validator, an
active validator knows its last vote, what the one says about the other is true,
nobody waits forever, nothing moves in a dry run. *Rollback*: only on the explicit
signal, and somebody is active again. *Startup*: no server with an old tower beside
it, no tower of an active validator deleted, the client gets through. *Gossip*: no
false confirmation, a settled switch is confirmed. *Timing*: no own leader slot in the
window, and the wait ends. *After the failover*: numbers and warnings are true, and
the server ends. *Configuration*: the commands are the ones meant. *Hooks*: the right
ones run, in order, see the true state, and none blocks the failover. *Between pairs*:
no host takes a key that nobody handed over to it.

## The modules

| Module | Models | Run in |
|---|---|---|
| `Handover` | what a failover promises: the identity is released, then taken by one host that knows the last vote. No code of its own: the abstract specification | refined by `Failover` |
| `Failover` | `Client.Start` and `handleFailoverStream` with rollback, skip-tower-sync, dry run, lost connections, crashes and restarts; one handler at a time | `MCFailover`, `MCOutcome` |
| `FailoverInductive` | the inductive invariants: `IInv`, in seven named parts, and what holds without its assumptions | `MCOutcome` |
| `FailoverOutcome` | `Failover` with a history of what went wrong, and the roles that hooks are told | `MCOutcome` |
| `FailoverProofs` | the theorems about `Failover` and `FailoverOutcome` | checked by TLAPS |
| `SharedStream` | several runs of the client whose handlers overlap on the shared stream, with commands that fail and rollback | itself |
| `SharedStreamProofs` | the theorems about `SharedStream` | checked by TLAPS |
| `Pairing` | which hosts hand over to which, each configured with a key and peers of its own | itself |
| `PairingProofs` | the theorem about `Pairing` | checked by TLAPS |
| `GossipLookup` | the lookups, as operators on the answers of two RPCs | used by `GossipConfirm` and `Startup` |
| `LookupProofs` | lemmas about the lookups | checked by TLAPS |
| `GossipConfirm` | `confirmGossipNodesPostFailover`, while gossip changes | `PostFailover` |
| `PostFailover` | the server's tail; extends `GossipConfirm` | itself |
| `PostFailoverProofs` | the theorems about both | checked by TLAPS |
| `LeaderSlot` | the choice of the moment to hand over | `MCLeaderSlot` |
| `LeaderSlotProofs` | the theorems about it | checked by TLAPS |
| `Startup` | everything after the configuration and before client and server speak | `MCStartup` |
| `StartupProofs` | the theorems about it | checked by TLAPS |
| `Configuration` | `Validator.NewFromConfig`: one action per step | `MCHostRun` |
| `Hooks` | stages of hooks, each a process with its pipes and readers | `MCHostRun` |
| `HostRun` | one host from its settings to the end of the run; composes the two | `MCHostRun` |
| `HostRunProofs` | the theorems about `Configuration`, `Hooks` and `HostRun` | checked by TLAPS |

The `MC` modules hold nothing but values for constants. Definitions are named after
the Go functions and fields they stand for where TLA+ allows; `PROJECT.json` gives
file, lines and symbol of every one. Definitions marked *Mutant* are plausible bugs:
each is put in the place of the definition that follows it to see that the
property meant to notice it does.

### Failover

`cpc` and `spc` name the next step of the client and of the stream's handler, one
action per step, with one disjunct per way out. `cmsg` and `smsg` are the two copies
of the message, reduced to the fields the programs branch on; `Decoded` merges as gob
does. `toServer`, `toClient` and `link` are the stream: a message sent on a broken
link is lost, and a reader gets an error when nothing is left to read and the peer or
the link is gone. A tower file is the number of the last vote it records, 0 if it is
empty or missing. The version byte on the wire and the version compared in the
handler both refuse a peer of another release before anything happens, and are one
field, `sameVersion`. `Faults` says what may go wrong, so that a run, or a theorem,
can name the faults under which it holds.

Left out, because nothing here depends on them: post hooks and the rollback's hooks
(their failures are logged), the plan's text, timestamps, and whatever the RPCs return
besides success (that is in the modules below).

`FailoverOutcome` adds `mishaps`: what went wrong since the client was last run that no
rollback makes good. Its steps are those of `Failover`, so every property of `Failover` is
checked on it.

### SharedStream

One handler `hpc[r]` per run `r` of the client, and `current`, the run whose stream
the field `s.failoverStream` is. `Accept` stores the new stream; every later step of
every handler uses `current`, except that a `Decode` which already blocks goes on
reading the stream it began on (`reading`). Before a handler has written the
version byte to its stream, what others write there cannot be read by the client.
Each of the four set-identity commands may fail (fault `command`), also after it has had its
effect (`dirty`): the client's (it returns and tells nobody), the handler's (it signals on the
current stream, whoever's it is, and re-asserts the passive identity whenever it gets to it,
`Revert`), and the rollback of either, which is logged, and the program ends all the same. The
handler also leaves `Prepare` for a plan that is cancelled, a sample, a tower file or a pre hook
that fails, and `WriteTower` for a file that cannot be written or closed.

### Pairing

`activeKey` and `peers` are each host's settings, `voting` says that its validator runs
with that key (with its passive identity otherwise).
The handover is reduced to the client's command and the server's; what is kept is which
key is compared with which: `StartServer` with gossip, `Validate` the client's own key with
the gossip node at its own address.

### GossipLookup, GossipConfirm, PostFailover

An RPC's answer is a sequence of nodes `[ip, key]`, or `Failed`. `Appear` and
`Expire` change each RPC's list at its own pace. A node of a new identity may come
before or after the one that is about to expire; the order of nodes of different
addresses does not matter to any lookup and is fixed. A lookup is a loop over the list
that stops at the first match, so `FirstOf` is that match or `NotFound`, and `OrElse`
goes on with the other RPC. `PostFailover` puts the loop in
its place between the post hooks and the summary, and adds the end slot (slots are
words: the difference is taken modulo `Word`), the vote accounts (an account is the
epoch of its last entry and the credits earned in it: both the credits of a sample and
the rank compare such differences), the samples and the shutdown. Of the samples only
their number, the oldest and the newest are kept, as nothing else is read. Gossip stands
still outside the check and the vote accounts stand still before the samples: nobody
reads them then, so their changes may as well come later.

### LeaderSlot

Time is counted in slots. `Tick` moves the cluster, at any point between two calls of
the client but no more than `MaxGap` slots before its next RPC call. `GetEpochInfo`
and `GetLeaderSchedule` are separate steps, as they are separate calls. `enabled` is
false with `--no-min-time-to-leader-slot`: the answer is then only logged.

### Startup

Two hosts; on each the program may be run, with any of the given options, while
the identity moves (by another run, or by hand), gossip follows, and an active
validator saves its tower. `program[h]` is the program's step with the node it found
at first: the role is decided by that node to the end. Prompts are answered either way. A
client that meets a server of another wire version ends at once, in its first attempt or in any
later one (`SameWire`).

### Configuration, Hooks, HostRun

A path is reduced to what becomes of it (plain, still to be resolved, with a character that
`html/template` escapes, with a space, missing, not given), a template to its words; one that
expands to nothing gives the empty command. `field` holds what is
set when a template is executed, so that the order of the steps matters. `command` and
`rollback` are the words that `RunCommand` gets.

In `Hooks` a line of output is a sequence of pieces. `pipe` holds at most `PipeCapacity`
of them and blocks the process when full, `held` is the line that a scanner has begun; a
line of `MaxToken` pieces fills it, and it stops reading, as `bufio.Scanner` does at 64 KiB.
`Overlong` says it of the hook instead of a scanner: somewhere in what it prints there are
`MaxToken` pieces to one stream without the end of a line between them.
`WaitReturns` is `cmd.Wait` (it closes the read ends), `Join` is `wg.Wait`. A child that
outlives the hook keeps the write ends open. The environment is a function from names to
where the value comes from, after the upper-casing.

`HostRun` runs the stages on a configured host in either role, with the peer reduced to
what it lets the host do next: let it go on, report success, signal, or be gone. A command
takes the identity of the key file it names if all its words are right; it may fail with or
without this effect. `CombinedOutput` waits for a child of the command: a rollback with such a
child does not return, nor does the set-identity command (`SetIdentityHangs`). A rollback
without a command to run reports success.

## What the runs check

| Run | Shows |
|---|---|
| `failover_safe` | With tower sync, for each of the 16 configurations (dry run, rollback on each side, versions) and all faults but `dirty` and `staleGossip`: `OneActive`, `ActiveKnowsLastVote`, `AgreedBeforeMoving`, `CompletionAgrees`, `DryRunMovesNothing`, `RevertOnlyOnSignal`; hooks are told the true roles (`HookRolesTrue`); both programs are gone with both validators passive only after a mishap of that run for which the code has no rollback (`StrandedOnlyByMishap`), and otherwise somebody is active again (`SomebodyActiveAgain`); `Failover` implements `Handover`; both programs end (`ClientEnds`, `HandlerReturns`); the inductive invariant of the proofs holds. |
| `failover_skip` | **Violated.** With `--skip-tower-sync` the server goes active right after its go-ahead, while the client still waits for its leader schedule, hooks and slot: two active validators without any fault. |
| `failover_write` | **Violated.** A tower file that cannot be written ends the handler without a rollback signal: both stay passive. |
| `shared` | With up to three overlapping client runs, and commands that fail with or without effect, two validators are active only through a handler that has told a client to roll back and has not made its own host passive (`TwoActiveOnlyUnreverted`): it is about to, or its rollback failed, or the process ended first; a "failover complete" is true unless the rollback of some handler undoes it. |
| `pairing` | **Violated.** A server takes the key it is configured with from a client that hands over another: the validator that had that key goes on voting with it. |
| `shared_tower` | **Violated.** The handler of a second stream empties the tower file that the first one wrote just before that one goes active. |
| `post` | No false confirmation by gossip, a listed switch is never missed for a stale node, a settled switch is confirmed; the slots duration does not wrap around for an RPC that lags; no false warning of a validator that votes; the reported rank follows the credits; the tail ends. |
| `leader` | No own leader slot of the epoch asked about is left in the window when the identity is given up, also when hooks take their time or the epoch turns between two calls; the wait ends. |
| `leader_epoch` | **Violated.** A leader slot at the start of the next epoch is not seen. |
| `startup` | A server on a host that stayed passive listens without an old tower file, whatever flags and answers; a client goes on trying until the server it was told to reach listens, and then connects, or ends if that one has another wire version. |
| `startup_stale` | **Violated.** The role is read once; a host that becomes active during the wait for health loses the tower of an active validator. |
| `host` | The commands are those the templates mean, and a rollback's takes back the role it is for, unless the binary is not given by an absolute path, a path has a space or a character that HTML escapes, or an identity has no key file (`CommandsAsMeant`); the identity moves only in a real failover, on settings that were all accepted, after pre hooks that passed (`PreHooksGuard`); a rollback that runs a command and reports success restores the identity, and every rollback has run all its hooks (`RollbackRestores`); a stage runs its hooks in order up to the first pre hook that must succeed and fails (`RunsAsConfigured`); nothing reads a hook's output after it (`NoReaderLeft`), at most a pipe of it is lost (`LostAtMostAPipe`); standard variables are not clobbered but by a name that differs in case only (`StandardEnvironmentKept`); every stage ends but for a line that is too long or a command's child (`StageEnds`). |

The violated runs are disagreements between the code and what the repository says of
it; `PROJECT.json` ("findings") quotes both. Eight things the models show besides:

* the confirmation loop goes on after a confirmation, so that a late RPC failure logs an
  alarm, and right after it the confirmation (`server.go` 643-754; `outcome = "error"` with
  both switches seen is reachable in `PostFailover`);
* the rollback of a first handler may come after a second one has completed the failover of
  a client run again, and undo it after its client said "complete" (`SharedStream`);
* when the server's set-identity command fails and has taken effect, and its rollback fails too
  or the process is ended by another handler before it, both validators stay active: the client
  has been told to revert by then, and nobody is left to re-assert the passive identity. The
  README of the repository (line 434) expects two passive validators of a rollback that fails
  (`TwoActiveOnlyUnreverted` of `SharedStream` names the state);
* identities given by public keys only are accepted, and the default set-identity
  templates then expand to a command without a key file (`Configuration`);
* `{{ .Bin }}` is the name as it is given, where README.md:234 of the repository calls it "a
  resolved absolute path": `CommandsAsMeant` excepts a binary that is not given by one
  (`Harmless`), and `configureBin` has the name as it is (`validator.go` 315-323);
* a standard variable can be overridden by a configured one whose name is the same in lower
  case, where `hooks.go` 241 says that they "can't be clobbered" and README.md:274 that they
  override a duplicate: names are put in upper case after the merge, and the order of the two
  entries is that of an iteration over a map (`Environments` of `Hooks`; excepted by
  `StandardEnvironmentKept`);
* a rollback template that expands to nothing, such as one of a field that is set later, is
  accepted without the fallback to the set-identity command; the rollback then runs no command
  and reports that it is complete (`rollback.go` 33-34, 60-61), where README.md:422 says that it
  runs the command. `RollbackRestores` excepts it (`rollback[role] = <<>>`);
* rollback hooks are told the roles of a completed failover (`rollback.go` gets
  `isPostFailover` from both callers).

### Bounds, and why they are enough

* `failover_safe`: three client runs and four votes. One run cannot meet the leftovers
  of an earlier one (a message still to be read, a tower already written, a server
  restarted); the second can, the third meets a second's. Votes are told apart only
  by whether a tower records the last one, so one before and one between each two
  runs suffice. The violations need one.
* `shared`: three handlers, since with two one of them always owns its stream.
* `pairing`: three hosts and two keys, any configuration of them, which the violation needs:
  `PairingProofs` shows that it takes a host with a peer of another key.
* `host`: settings that differ from good ones in one respect, with every value that some
  step tells apart; one hook or two per stage out of seven (succeeding, failing, not
  starting, optional and more verbose than a pipe, with a line too long for a scanner with
  less and with more than a pipe behind it, with a child that goes on printing). A pipe and
  a scanner hold two pieces: both are met empty, half full and full.
* `post`: two RPCs (there are no more), of which the local one may fail at any call;
  five attempts, as in the code; one or three samples after the first (comparison
  starts with the third in all), one turn of the epoch, one credit for each account at the start
  (`Earned`; how they compare comes from the votes); slots of 8 values with the
  start slot 2, so that a lagging RPC and one that fails are below it and differ.
* `leader`: three epochs of twelve slots, every combination of four schedules per
  epoch, a window of three slots, one retry, one slot between two calls. A window that
  reaches into the next epoch, two own slots in a row and a full schedule change all
  occur. The wait is checked to be over before the third epoch.
* `startup`: two hosts (the code has no more than a pair at a time), one move, two
  runs, five sets of options that take every branch of flags, one of them with another wire
  version; gossip lists up to two
  nodes per host in any order.

### Fairness

`Failover`: `WF` on the client's steps together and on the handler's steps together.
Each RPC poll of the code returns, the operator is assumed to answer the server's prompt,
hooks and commands to end, and the leader schedule to let the client go on (that it does
is `WaitEnds` of `LeaderSlot`). Reads are not assumed to succeed: they return when a
message or the end of the stream is there, which is what `MaxIdleTimeout` and the
deferred closes give. The link and the environment have no fairness.
`PostFailover`: the loop and the tail have bounded sleeps only.
`Startup`: the program polls and retries as long as it runs, and the validator is
healthy at some poll; the operator is *not* assumed to answer. `Hooks`: the program, the
hook's process and each reading goroutine are scheduled when they can go on; a process that
writes into a full pipe cannot. `LeaderSlot` and
`SharedStream` state no liveness under fairness; `WaitEnds` is an invariant over slots,
with the polling frequency (`MaxGap`) as its assumption.

## What is proved

Every safety property that a passing run checks is also a theorem, for all values of the
constants that the named assumptions of the modules allow: the state invariants, the one
action property (`RevertOnlyOnSignal`) and the refinement (`ImplementsHandover`). (The half of
`LatchesOn` that is about single steps is left to TLC with the other half.) Each rests on an
inductive invariant that TLC was asked about before it was proved. The assumptions
besides the typing of constants:

| Assumption | Theorems | What it says, and why |
|---|---|---|
| `Clean` | `Invariant`, `Exclusive`, `LastVoteKnown`, `ExplicitRollback`, `Implements` | the tower is synchronised, a failing set-identity has had no effect, gossip shows the identities in use; see below |
| its first and third part | `PlacesInvariant`, `HooksToldTrueRoles` | tower sync and current gossip; a command that fails may take effect |
| its second and third part | `OutcomeInvariant`, `StrandedBy` | clean commands and current gossip, with or without tower sync |
| `PeersAgree` | `OneKeyPerPair` | a host's peers have its key; the run `pairing` shows what happens otherwise |
| `RoomToPoll(schedule[1])` | `WaitIsBounded` | the second epoch's schedule has a pause for the window and the rounds of polling; a validator that leads too often waits forever |
| `OwnIdentities` | `RollbacksRestore` | no command of a role names the key of the other one; templates are the operator's, and the program does not look |
| `FailingRpcs # Rpcs` | `SettledWillBeConfirmed` | one RPC answers; with none there is nothing to confirm by |
| `AnswersAssumption` | those about gossip | the two answers "failed" and "not found" are no lists or nodes |
| `PostAssumption` | those of `PostFailover` | the start slot is set and the slots that pass fit a word; credits are numbers; any interval between samples, also none |
| `SettingsAssumption`, `HookSettingsAssumption` | those of `HostRun` | types of the settings; a path is harmless or not, no more is said of it |

### The protocol: `FailoverProofs`

For every set of configurations, every set of faults and every bound on client runs and
votes, with no assumption besides those of the module:

* `TypeCorrect`: `Spec => []TypeOK`;
* `AnyFaultInvariant`, and from it `Agreement` (`AgreedBeforeMoving`), `Completion`
  (`CompletionAgrees`) and `DryRun` (`DryRunMovesNothing`);
* `RollbackWasAsked`: the half of `RevertOnlyOnSignal` that is about the signal and the
  settings (`RevertsWhenAsked`);
* `NeverBothWait` (`NotBothWaiting`): client and server are never each waiting for the other;
* `StepsAreSpent` (`StepsRunOut`): every step of a program leaves it fewer steps in its run, and
  no step of anybody else gives it more. The two together are `ClientEnds` and
  `HandlerReturns` but for the fairness.

And under `Clean`:

* `Invariant`: `Spec => []IInv`;
* `Exclusive` (`OneActive`), `LastVoteKnown` (`ActiveKnowsLastVote`), `ExplicitRollback`
  (`RevertOnlyOnSignal`);
* `Implements`: `Spec => ImplementsHandover`, the refinement of `Handover`.

`HooksToldTrueRoles` (`HookRolesTrue`) and `StrandedBy` (`StrandedOnlyByMishap`) are about
`HistorySpec`, the specification with the history of mishaps, which is shown to implement
`Spec` (`HistoryImplements`). Each assumes two of the parts of `Clean`, and TLC finds each
violated when one of these is dropped.

`Clean` is not a convenience: TLC finds `OneActive`, `ActiveKnowsLastVote`, `RevertOnlyOnSignal`
and the refinement violated when any one of its parts is dropped. Without the first part the run
`failover_skip` is a counterexample; without the second a command that fails after taking effect
makes the client, which has been signalled, active before the server has re-asserted passive;
without the third the server may be started again on a host that is active.

*The argument without `Clean`.* Two messages may be on their way to the client, and nothing
is known of where the identities are. What is left is that nobody says anything false:
whatever a copy or a message on its way says is true (`Copies`), although the decoder merges
each one into what was known before. A flag set in an earlier run would break this, so
`NewSession` says that a request finds no word of success left over, and `Asked` the same
of the signal to roll back. `Moved` says what the programs know of their own hosts.

*The argument under `Clean`.* `OneActive` alone is not inductive: it does not say why the old host
is passive when the server sets its identity to active. The reason is spread over the
two programs and the stream. `Queues` says at most one message is on its way in each
direction, and which steps of the one program go with which of the other; `Messages`
that what the copies and the messages in transit say is true, which the merging decoder
would break if a flag could be wrong once; `Released` that the old host is passive from
its command until the server acts on its tower file, and `Taken` that the new host being
active means that the old one has let go and cannot revert (the client waits for the
result or has ended, and no rollback signal is on its way), `Rollbacks` that
a signal is sent only by a server that gave up; `TowerKnown` follows the last vote
from the old host's file through the message to the new host's. Each action preserves
each part: one step per action, and under it one per part that the action can disturb.
The properties are consequences, the refinement maps the set-identity steps to
`Release` and `Take`, the writes of the tower file to `Sync`, votes to `Vote`, and all the
rest to stutters.

*The order of the messages, whatever fails.* `IInv` knows it only with tower sync, so
`Orderly` adds it to the argument without `Clean`. `Turns` says whose turn it is: while the
server checks, both queues are empty and the client waits for the signal or is gone; while
it waits for the tower file or acts on it, at most the go-ahead is under way, and a client
that waits for the result has sent what the server reads. `Signals` says what has been said:
the go-ahead once, with the word to skip the tower or without it, and a rollback only after
that. That the two never wait for one another is in these turns, for every point at which a
command, a stream or a program may fail. The steps left are counted by `cpc` and `spc`, which
only move forward: a server that has exited or closed its connection listens again only
after a new start.

*Places.* With tower sync and current gossip the turns say where the identities are, also if
a command that fails takes effect: they are untouched (`Untouched`) from the confirmation of
the roles to the client's command, and once the new host is active the client is past its own
(`Places`). These are the roles that the hooks are told.

*Outcomes.* `OutcomeInv` adds to `Orderly` why nobody is stranded without a mishap, whether or
not the tower file is synchronised. The old host stays active until its client's command, and
the new one from its own command on (`StillActive`). While there was no mishap the identity is
`Coming` to a client that may let go of it: its server has still to act, or has made the new
host active for good, or the signal to roll back is there to be read (`Told`, possibly behind
the go-ahead); and an identity that nobody has is on its way (`OnItsWay`): the client is before
its tower or about to revert, or its server is at work, or has told it to roll back. Each way
of losing one of these is a mishap, which the proof shows action by action.

### Overlapping runs: `SharedStreamProofs`

`StreamTypeCorrect`, `TwoActiveNeedsRollback` (`TwoActiveOnlyUnreverted`) and `CompletionIsTrue`
(`CompletionAgrees`), for any number of client runs (the run has three) and whichever of the
four commands fail. Handlers use whatever stream is current, so that nothing can be said of the
messages of one run. `StreamInv` says it of all runs together: a tower that was received, or is
on its way, while the old host is active means that some handler rolls back
(`TowerFromPassive`); nobody rolls back who was not told by some handler (`RollbackTold`);
success is told, on whichever stream, only of a new host that was made active (`SuccessIsTrue`).
It needs the order of the runs: one client at a time is at work (`OneClient`), and the host
stays passive while it is past its command (`OldIsPassive`).

### Pairs: `PairingProofs`

`OneKeyPerPair`: `Spec /\ PeersAgree => []OneVoterPerKey`, for any set of hosts and of
keys, where `PeersAgree` says that every peer a host is configured with
has the host's key. It is what an operator has to see to, since the program does not. The
invariant counts the right to vote: a host has it that votes, or whose server's client has
gone passive (`Holds`); one host per key has it, and a client that is validated can pass it
on only to the server that it deals with (`Paired`).

### Gossip and the tail: `LookupProofs`, `PostFailoverProofs`

`LookupProofs` says, for any two answers, what each lookup returns: a node that one of the
RPCs lists and that has what was asked for, or "not found" and then there is none in an RPC
that answered. `ConfirmationIsTrue` (`ConfirmedIsReflected`) follows with `GossipInv`: what
the loop has found is in gossip and stays there, since a new entry never leaves a list.
`StaleIsNotPreferred` (`StaleNeverPreferred`) is a consequence of the lookups alone.

`SettledWillBeConfirmed` (`ConfirmsOnceSettled`) is what `SettledIsConfirmed` says but for the
fairness. Once the lists of all RPCs that answer show both switches, both lookups find them
(`SettledIsFound`), so that an attempt which begins from there on confirms; the check returns
only with that, and each lookup leaves fewer of them (`LookupsLeft`).

`TailStepsAreSpent` (`TailSpends`, `TailGoesOn`) is the same for `TailEnds`: the stages of the
tail, the lookups of one loop, the samples of the other and the ticks of its pause only get
fewer, in this order of weight, whatever its RPCs answer.

`TailInv` gives `PostTypeCorrect`, `SlotsDoNotWrap` (`DurationInRange`), for words of any width,
`WarningIsTrue` (`NoFalseWarning`: for a validator that votes, within an epoch and with an
interval that is not zero; the code does warn when the epoch turns between two samples) and
`RankIsTrue` (`RankFollowsCredits`), for any credits and numbers of samples and one turn of the
epoch at any time. A warning could be false if two samples were taken without a tick between
them: `Earning` says that while the own validator votes each tick since the last sample has
added to its credits, and `Paused` that an interval of ticks passes before every sample that is
compared, also if one before it has failed and was skipped.

### The moment: `LeaderSlotProofs`

`LeaderSlotTypeCorrect` and `LeaderSlotSafe` (`NotLeaderInEpoch`), for every length of
an epoch, window, schedule, number of retries and pace of the client: from the check on,
what was found out about the slots left in the window is kept (`CheckHolds`), however many of
them pass during hooks. `WaitIsBounded` (`WaitEnds`): the pause of `RoomToPoll` begins at an
index `i`, and the client is either past its polling or not further than `i` and the
slots of the rounds that it has spent (`PollsUntil`), which the pause has room for.

### Startup: `StartupProofs`

`StartupTypeCorrect`, with the fact that a program goes on only with a node at its own
host's address, and `OldTowerIsGone` (`ListensWithoutTower`), for any number of moves and runs,
all options and lists of gossip of any length. `NoOldTower` adds when the file was removed: from
there on it stays away unless the host is active meanwhile, which `held` remembers.

### One host: `HostRunProofs`

For all settings, templates, hooks and sizes of pipes and buffers:

* `HostTypeCorrect`, from `HostInvariant`: `ConfigInv`, `HooksInv` and `HostInv` together;
* `CommandsAreMeant` (`CommandsAsMeant`), for templates of any length: `FieldsKnown` says which
  fields of the validator are set at which step of `NewFromConfig`, and each template is
  executed after those it may name;
* `StagesRunAsConfigured` (`RunsAsConfigured`), `ReadersAreGone` (`NoReaderLeft`) and
  `EnvironmentIsKept` (`StandardEnvironmentKept`), for any number of hooks: `Loop` says what
  the loop has recorded of the hooks that it is past, `Lives` that process and goroutines live
  only while `Run` waits;
* `PreHooksAreHonoured` (`PreHooksGuard`): the identity is another than the role's only after
  pre hooks that passed, in a run for real (`HostInv`);
* `RollbacksRestore` (`RollbackRestores`), for a rollback that has a command to run, under
  `OwnIdentities`: a command takes the identity
  whose key it names, and a rollback's words come from its role's template;
* `OutputIsKept` (`LostAtMostAPipe`), for a hook whose lines fit the scanner and that leaves no
  child behind: `Flowing` accounts for every piece that was printed. It was logged, is held by
  the scanner or is in the pipe (`Flows`), in this order (`Reads`), so that a scanner never
  has a full line without its end, and what `cmd.Wait` throws away is in the pipe;
* `StagesGoOn` (`NeverStuck`) and `StageStepsAreSpent` (`StageSpends`), the safety half of
  `StageEnds`. While `Run` waits for the process of a hook without a line that is too long, both
  pipes have a goroutine that reads them (`Attended`; that none has given up follows from
  `Flowing`): a process that finds its pipe full is not alone, and the goroutines find the
  pipes closed behind it. What ends it all is a measure: first the hooks to run (`HooksLeft`),
  then for the one that runs the pieces to print, to write and to read, the goroutines that
  read, and where `Run` is (`WorkLeft`).

What `FlattenSeq` makes of the words of a template takes an induction over data. The library's
induction theorems take an operator as a parameter, which the provers cannot instantiate; the
lemma `UpTo` states the principle for a *set* of numbers instead, and is proved from a least
element that is missing.

### Model-checked only

All liveness: `ClientEnds`, `HandlerReturns`, `SomebodyActiveAgain`, `SettledIsConfirmed`,
`TailEnds`, `LatchesOn` and `StageEnds`. The prover has no reasoning about fairness and
`ENABLED`. What such a proof would rest on besides is proved for `ClientEnds` and
`HandlerReturns` (`NeverBothWait`, `StepsAreSpent`), with them for `SomebodyActiveAgain`
(`StrandedBy`: somebody is active when both have ended), and for `SettledIsConfirmed`
(`SettledWillBeConfirmed`), `TailEnds` (`TailStepsAreSpent`) and `StageEnds` (`StagesGoOn`,
`StageStepsAreSpent`): nobody is stuck, and every step leaves fewer of them. And the
properties of the violated runs, which are not true.

Conversely, the theorems that state no property of a run (those just named but `StrandedBy`,
`RollbackWasAsked`, `PlacesInvariant`, `OrderInvariant`, `OutcomeInvariant` and the lemmas on the
other inductive invariants) were put to TLC on instances of the same size before they were proved.

## What is not modelled

* Rendering of plan and summary, styles, logging, previews, updater: text.
* Reading the configuration file with its defaults, the formats of key files and
  certificates: what a setting turns out to be is a choice of `Settings`.
* The transport: a connection is up or broken. A client that is refused by the peer's
  certificate never gets a stream, as with no server at all.
* What the templates of a hook expand to: they execute or they do not.
* Two runs of the client at a time on one active host, towards two peers: both peers would
  get the tower. Nothing in the code stops the operator from it.
* `integration/` and the mocks: test code.

## Plan

Done: (1) `Handover`, `Failover` and the proofs about them; (2) `SharedStream`, with
rollback and failing commands; (3) `GossipLookup`, `GossipConfirm`, `LeaderSlot`;
(4) `Startup`; (5) `PostFailover`; (6) `FailoverOutcome`; (7) `Pairing`; (8) `Configuration`,
`Hooks` and their composition `HostRun`; (9) the safety properties of all of them as theorems;
(10) the safety half of the liveness properties, but for `LatchesOn`, where fairness is all.

Left: what the prover cannot do, see "Model-checked only", and what "What is not modelled" lists,
of which two clients at a time on one active host would be the next to model, as a host of
`Pairing` with more than one run.
