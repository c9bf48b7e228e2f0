# Formal model of terraform-provider-aoss

TLA+ modules, TLC models and TLAPS proofs for the Terraform provider that
configures HP AOS-S switches by driving their CLI over SSH. Paths below are
relative to the repository (`src/`).

## 1. Inventory

| part | state it keeps | operations | hard behaviour | what makes it correct |
|---|---|---|---|---|
| session discipline, `internal/provider/resource_hostname.go:55-87` | the package-level mutex `switchMu`, one SSH session | `openSwitch`, `closeSwitch` (`client.New`, `Open`, `Close`) | parallel handlers; three error paths; a session left half-open | at most one session; the lock always comes back; every handler gets its turn |
| `aoss_vlan` handlers, `resource_vlan.go` | none of their own: the Terraform state and the switch | create/update (`aossVLANWrite`), `aossVLANRead`, `aossVLANDelete`, import | a multi-line block without rollback; read then write; lost answers; `[y/n]` prompt; a create that does not read | a successful write leaves the block as asked; a successful delete removes it; no VLAN made and forgotten |
| VLAN block builder, `internal/client/vlan.go:159-221`, `member.go:265-289` | - | `BuildVLANConfig`, `MemberDiff`, `NeedsVLANDeleteConfirm` | order of lines; members that move between kinds | any block moves to any other, line by line |
| single-statement handlers, `resource_management_vlan.go`, `resource_primary_vlan.go`, `resource_hostname.go` | as above | write, read, delete, import | id set after the write; values the switch does not print; two instances of one statement | what was written is what is read; a delete spares other values |
| member lists, `member.go:1-263`, `resource_vlan.go:59-86` | - | `ParseMember`, `memberSet`, `ParseMemberRange`, `FormatMemberRange` | run collapsing, bounds, spellings | format and parse are inverse; canonical strings |
| client operations, `internal/client/client.go` | the CLI mode of the session | `Show`, `SendConfig`, `RemoveVLAN`, `EnterMode` | a failure between two lines; two callbacks on one window; timeouts | modelled as steps of the handlers |
| running-config parsers, `vlan.go:51-157`, `trunk.go:30-76`, `interface.go:37-89` | the block being read | one line at a time | order of statements; a line that does not parse; truncated output | the effective configuration of each block and trunk |
| `aoss_trunk`, `resource_trunk.go`, `trunk.go` | - | as `aoss_vlan` | a port is in one trunk at most, so a write takes ports from other trunks; a create that does not read; a delete that names ports, not the trunk | a successful write has the wanted ports together; a delete spares other trunks |
| `aoss_interface`, `resource_interface.go`, `interface.go` | - | as `aoss_vlan` | a block of up to four lines without rollback, only the fields that differ; ports on modules that are pulled; a delete that clears | a successful write leaves the block as asked; a refresh drops only ports that are gone |
| data sources, `datasource_*.go`; show parsers, `parse.go` | - | several `Show`s of one session, a join by port | somebody writes between two Shows | the rows are a picture of the switch at one time |
| provider configuration, `provider.go` | host and credentials | `validate` | none | - |
| collector, `cmd/collect/main.go` | its idea of the CLI mode | record sections, restore | three parties track the mode; the script goes on after an error | an input is sent in its mode only |

How they interact. Terraform core calls handlers in parallel, one at a time per
instance. Each calls `openSwitch` (which takes `switchMu`), reads the running
configuration with `Show`, builds lines, sends them with `SendConfig` or
`RemoveVLAN`, and calls `closeSwitch` from a defer. The handlers share the
mutex and the switch's running configuration, nothing else. What a handler
returns, with `d.Id()`, decides what Terraform keeps in its state. An operator
on the console changes the switch between any two steps.

## 2. Modules

```
OneSession      what the session discipline promises
  ^ implements
SwitchMu        openSwitch / closeSwitch       SwitchMu_proofs
  ^ implements         ^ implements       ^ implements (safety)
VLANResource         ScalarResource       Ports
  | extends                                 | composes
VLANConfig                                TrunkResource, InterfaceResource, InterfacesData
                                            | extend
                                          Handlers   (the frame of a handler)
RunningConfig   scanners of VLANs, ports and trunks
Members         member lists
Collector       cmd/collect
```

`X_proofs` holds the theorems about `X`, `MCX` its instance for TLC.

**SwitchMu.** `pc[o]` is the next step of operation `o`: `lock`, `new`, `open`
are the steps of `openSwitch`, `body` is the handler's own work, `close` and
`unlock` are those of `closeSwitch`. `mu` is the holder of `switchMu`,
`session` the sessions the switch has. `NewFails` and `OpenFails` are the error
paths at lines 70-73 and 74-78; `OpenFails` may leave a session behind, which
is why the code closes the client there. `BodyReturns` stands for every return
of every handler: `closeSwitch` is deferred in all of them. A `Close` that
returns an error has ended the session all the same; the code drops that error.

**OneSession** is the abstract specification: an operation waits, gets the
switch to itself or gives up, and ends; whoever waits is served.

**VLANConfig** is data. A block of the running configuration is a record; the
lines `BuildVLANConfig` emits are a set, `Rank` their order. `AcceptInBlock`,
`Accept` and `Forget` are the switch, external to the repository: a VLAN is
created by `vlan <id>`; a port has one untagged home, so `untagged` takes it
from other VLANs; the `no` forms withdraw one kind of membership or any - both
readings are allowed at every step, and the properties hold for both.

**VLANResource** refines the `body` of SwitchMu. `at[v]` is the step of the
handler that runs for VLAN `v`: `show` and `verify` are the two `readVLANs`,
`build`, `enter` and `send` are `aossVLANWrite` and `SendConfig`, one line per
step, `remove` is `RemoveVLAN`, and `hung` the plain `no vlan` that waits at an
unanswered `[y/n]`. Every client call has a failing variant, with and without
its effect on the switch. `Return` is the release of the mutex together with
what plugin SDK and Terraform core make of the result (`StateAfter`): no id
drops the instance, a failed create with an id is kept tainted, a failed update
or delete leaves it. `stale[v]` and `made[v]` are history variables: the block
changed behind the handler's back, and the provider created the block.

**ScalarResource** does the same for the resources that are one statement.
Instances of one kind share the statement, as the old and the new address of a
renamed resource do. `Kept` says which statement the switch keeps: none for its
default. The id is set after `SendConfig`, so a write whose answer was lost is
in no state (`whose` = "unanswered").

**Handlers** is what the other handlers have in common, and no specification by
itself: how Terraform core starts one, the steps of `openSwitch` and
`closeSwitch` (instances of SwitchMu's actions), `Finish` and `ShowFails`, and
`Return` with `StateAfter`. It has the variables `at`, `id`, `result`, `state`
and the history variables `stale` and `made` of VLANResource. A `scenario`,
chosen at the start, says which instances the configuration holds (`plan`) and
what people change meanwhile (`people`): all of it at once is too much for TLC,
and each scenario brings together what can disturb one another. The theorems
hold for every set of scenarios, the one with everything included.

**TrunkResource** has one instance per trunk. `trunks` are the `trunk` lines, a
port in one of them at most. `Form` is what a line does: its ports leave the
trunks that had them - a trunk goes with its last port (`Without`) - and join
this one. Whether ports the line no longer names leave is in no fixture, so
both are possible (`kept`) and the properties hold for both: `TrunkReached`
demands the wanted ports and allows no others than those found there. A delete
is `Release` of the ports that were read, and a second read.

**InterfaceResource** has one instance per managed port. A block is a name and
the shutdown flag; its absence and the default block are the same
(`Cleared`), as they are to the code's map lookup. `BuildInterfaceConfig` and
`BuildInterfaceDeleteBlock` give the set of lines, sent in the order `Rank`,
each of which may fail before or after it took effect. `portExists` is the
separate look at `show interfaces` a refresh begins with; `chassis` is what it
sees, and `Replug` pulls a module or puts it back: its block stays in the
running configuration.

**InterfacesData** is `aossInterfacesRead`: `marks`, `config` and `details` are
what it took from its Shows, `Rows` the join, `Truth` the rows of the switch as
it is. Lookups for a port that was not shown give Go's zero value (`NotShown`).

**Ports** composes the three with each other and with the people around the
switch. They share the mutex and the ports.

**RunningConfig** reads `show running-config` line by line with three scanners
at once, `ParseRunningConfigVLANs`, `ParseRunningConfigInterfaces` and
`ParseRunningConfigTrunks`, since handlers give the same text to each and
blocks of different kinds have `name` lines. `Flushed`, `Closed` and `trunks`
are what each would return if the text ended here. `Effective`,
`EffectiveInterface` and `EffectiveTrunk` say what the text means without
scanning it: the latest statement of a block that names a member decides, the
latest block of a port that says something, the latest line of a trunk. Member
lists are sets here; Members justifies that. A text is laid out as the switch
does: statements follow a line at the root, and `exit` ends a block.

**Members** runs `FormatMemberRange` one loop iteration per step (`Extend`,
`Begin`, `EndLoop`), first over the ports and then over the trunks - the two
loops are the same code on different variables - and states `ParseMemberRange`
as an operator on the parts of the string. The loops are given canonical
references: those are all that `ParseMember` and `ParseMemberRange` return (`Ref`,
with the bounds of `portRef` and `trunkRef`), and every caller's references come
from one of them or, for the ports of a trunk, from `parseTrunkPorts` and
`trunkPortSet`, which format a number themselves. The numbers that a part is written with are the part; how
`ParseMember` reads another spelling of a reference is left out.

**Collector** is the script of `cmd/collect` as a sequence of `enterMode`,
`send` and `sendSoft`, in the order of `main`. `mode` is the collector's field,
`believed` what scrapligo takes the mode to be, `level` where the session is.
Scrapligo looks at the prompt only when the requested mode differs from the
believed one, as the recorded session shows (`fixtures/aoss/scrapli.log:431-573`).
`Rejected` says which inputs the switch does not accept, `Timeouts` whether a
change of mode may fail on the way.

Definitions commented "a slip to rule out" are not part of any specification.
Each is a plausible bug, and for each property there is one it catches.

## 3. Runs

| run | instance | what it shows |
|---|---|---|
| `switch_mu` | 4 operations | `LockInv`: mutex, program points and sessions agree, error paths included. `OneSessionAtATime`. `ImplementsOneSession`: liveness included |
| `vlan_parallel` | 2 VLANs, 2 members, 3 configurations that compete for the members, empty switch, no operator | `WriteReachesDesired` where nothing may be stale: the mutex makes read, build and send one unit, although one VLAN's `untagged` takes ports from the other. `UndisturbedIsExact`: where nobody edits, only a create can be wrong about its block. `HandlerInv` |
| `vlan_edited` | 1 VLAN, 2 members, every resource configuration, a block that was there before, an operator with three edits at any time | `WriteReachesDesired`, `DeleteRemoves`, `HangsOnlyWhenStale`, `NeverForgotten`, `HandlerInv`. `ApplySettles`: a successful write leaves nothing for the next one to send. `HalfwayIsBetween`: what is in force after any line, or when `SendConfig` gives up, has nothing the resource neither had nor gets. `DropsOnlyGone` |
| `vlan_session` | 2 VLANs, 1 configuration, 1 edit | `KeepsSessionDiscipline`: the handlers implement SwitchMu's `Spec`, fairness included. `NearsReturn`: every step brings a handler nearer to its return, so that no handler retries. It says nothing of the lock, which the former does |
| `scalar_shared` | 2 instances of one statement, 2 values, an operator with every edit | `WriteIsRead`, `DeletesItsOwn`, `AnsweredIsRemembered`, `DropsOnlyGone`, `HandlerInv` |
| `scalar_session` | one VLAN statement, one hostname | `KeepsSessionDiscipline` |
| `members` | `MaxPort` = 6, all 4096 sets of ports and trunks | `RoundTrip`, `Canonical` |
| `running_config` | every text of up to 5 lines over 2 VLANs, 2 members, 1 port, 1 trunk in 2 modes, and a header of either kind whose number is refused | `VLANsAreEffective`, `InterfacesAreEffective`, `TrunksAreEffective`, `ScanInv`. `ReadOnlyGrows`: a text that is cut short shows no VLAN, port or trunk that the whole one does not, and is wrong in no block before the one the cut is in |
| `ports` | 2 trunks, 2 ports, 1 managed interface on a module, the data source, in four scenarios: both trunks and an operator; a trunk and the data source, with an operator and cables; the interface and the data source, with the module; the interface with an operator and the module | `TrunkWriteReaches`, `TrunkDeleteSpares`, `InterfaceWriteReaches`, `SnapshotIsConsistent`, `NeverForgotten`, `DropsOnlyGone`, `NearsReturn`, `KeepsSessionSafety`, `HandlerInv` |
| `vlan_idempotent` | 1 VLAN that exists before it is created, no operator | violates `ApplyIsIdempotent`, see below |
| `scalar_default` | 1 instance, value 1 = the default | violates `WriteIsRead`, see below |
| `collector` | the switch rejects `vlan V`, no timeouts | violates `SentInItsMode`, see below |

Bounds. Counters do not occur: programs are finite and handlers restart for
ever, so the runs are exhaustive for their constants. Two members are enough for
a member to move between tagged and untagged, between VLANs, in and out, and for
a set with one element and with two; two VLANs for a member to have a second
home; a third operation in `switch_mu` lets one be overtaken while another holds
the lock, the fourth adds nothing new. Six port numbers give runs of length one
to six, gaps of one and more, runs at both bounds, and three runs. Five lines
are enough for two blocks of one VLAN with statements that contradict each
other, or for a block inside which the scanner could stray into another's
(`MaxLines`; the proof needs no bound). In `ports`, one trunk wants both ports
and the other one of them, so that a write takes a port from the other trunk,
takes its last one, or gives one up, and changes the mode alone; the blocks
differ in both fields, in one and in none; one port has a cable that is pulled
and the other sits on the module. `members` stops when the string is complete,
`running_config` when the text is, `collector` after its script, hence
`CHECK_DEADLOCK FALSE`.

Fairness. A handler's own step is weakly fair: a goroutine that can run does,
and a client call returns because `DefaultOptions` (`options.go:58-84`) gives
every operation a 30 s timeout. `Acquire` is strongly fair: Go's `sync.Mutex`
hands over to the longest waiter once it has waited for a millisecond. Nothing
is assumed of Terraform (it need not call a handler) or of the operator.

### Findings

*A create does not read the switch* (`resource_vlan.go:151`). README.md:3 promises
idempotent configuration. When the VLAN already exists, `vlan_idempotent` shows
a create that succeeds and leaves the old members and address in place, since
`BuildVLANConfig` was given no current block to remove them from. In
`WriteReachesDesired` this is the case `stale`. `UndisturbedIsExact` says that
creates are all it concerns: without edits on the console, an update or a delete
that reports success is exact.

*`aoss_primary_vlan` with `vlan_id = 1`* (`resource_primary_vlan.go:104`), the
example of README.md:95-97 and docs/resources/primary_vlan.md:17. VLAN 1 is the
switch's default and has no statement in the running configuration
(fixtures/aoss/running_config.cfg; fixtures/aoss/shows/show_vlan.txt:4), so the
read that follows a successful write finds none and drops the resource: it never
converges.

*The collector goes on from an unknown mode* (`cmd/collect/main.go:386`). The
comment of `send` (lines 232-235) says it "fails hard [...] because continuing
from an unknown state would corrupt the fixtures"; `configSessions` logs the
error and goes on. In the run, the switch rejects `vlan <AOSS_VLAN>`, the
`exit` meant for the VLAN leaves the configuration, scrapligo still believes the
session to be there and does not look, and `interface <AOSS_INTERFACE>` is sent
to the manager's prompt and filed under `#(config)`. The summary reports
"status: ok" all the same, as only a panic changes it (lines 192-195). If
`interface` alone is rejected, or nothing is, `SentInItsMode` holds; timeouts
while the mode changes violate it too.

## 4. Proofs

All theorems hold for every value of the constants under the modules' named
assumptions (a null value is not a member of the set beside it; the
configurations are well-formed; there is a port). `Ports` assumes that its ports
are finitely many, since the number of steps of a handler is a count of them;
the VLAN handlers need no such assumption, a block has at most eight lines.

| theorem | argument |
|---|---|
| `SwitchMu_proofs!LockInvariant`, `MutualExclusion` | `LockInv` is inductive. Exclusion alone is not: a session must imply a program point, and a program point the mutex |
| `SwitchMu_proofs!SafetyRefinement` | under `LockInv`, every step maps to a step or stutter of OneSession |
| `VLANConfig_proofs!LineByLine` | one accepted line, in either reading, takes `Partway` with a set of lines to `Partway` with one line less; it rests on removals before additions. Beside it: what is partly applied lies `Between` the two blocks (`PartwayIsBetween`), and a block that `Matches` leaves nothing to build (`MatchesIsSettled`), which with `NothingToBuild` makes the two the same |
| `VLANResource_proofs!HandlerInvariant` and its corollaries `WritesReach`, `DeletesRemove`, `OnlyEditsHang`, `NothingForgotten`, `AppliesSettle`, `HalfwaysAreBetween`, `OnlyGoneDropped` | `HandlerInv` says that at every point of `SendConfig` the block on the switch is the one read with a prefix of the lines applied (`Partway`). `KnowsBlock` keeps what follows from that after `SendConfig` has ended: while lines are unsent the block is `Between`, and an answer of success is a block that `Matches`, or none. `PointInv` adds what an instance without an id means: a refresh that found no block. The mutex enters through `LockInv`: a step of another handler's body cannot happen meanwhile |
| `VLANResource_proofs!UndisturbedsAreExact` | a second invariant on top of `HandlerInv`, `OnlyCreatesStale`: without edits nothing marks a block stale but the start of a create, as the other handlers' changes to it fall outside the time between its read and its answer |
| `VLANResource_proofs!HandlersNearReturn`, `Ports_proofs!HandlersNearReturn` | `StepsLeft` is a natural number, each step of the handler decreases it and no other step increases it: at most 17 steps for a VLAN, 13 and one per port for the others. `send` counts the lines still to be sent, the data source the ports still to be shown |
| `VLANResource_proofs!OneHandlerAtATime`, and the same for `ScalarResource` and `Ports` | composes the step-by-step refinement of `SwitchMu` with that of `OneSession` (`PromiseStep`), so that the comment on `switchMu` is a theorem about the handlers and not only about the protocol |
| `VLANResource_proofs!SessionDisciplineKept` | every step is a step or stutter of SwitchMu, by action |
| `ScalarResource_proofs!HandlerInvariant` and its corollaries `DeletesTheirOwn`, `AnsweredRemembered`, `DroppedAreGone` | what a handler concludes of the statement holds because no other handler's body runs meanwhile. An instance that remembers the provider's statement does not forget it (`RememberedKept`): a delete that would drop it finds its own value and withdraws the statement first |
| `ScalarResource_proofs!WritesAreRead` | assumes that no default is among the values; `scalar_default` shows that without it the property fails |
| `ScalarResource_proofs!SessionDisciplineKept` | as for VLANResource |
| `Ports_proofs!HandlerInvariant` and its corollaries `TrunkWritesReach`, `InterfaceWritesReach`, `NothingForgotten`, `SnapshotsAreConsistent`, `TrunkDeletesSpare`, `OnlyGoneDropped` | `HandlerInv` has one conjunct for what the handler of each kind knows (`KnowsTrunk`, `KnowsInterface`, `KnowsPicture`). A step of one kind leaves the others' variables alone except the switch; there the mutex enters: whoever is between two steps of its body holds it, and the step's actor does not |
| `Ports_proofs!SessionDisciplineKept` | every step is a step or stutter of SwitchMu |
| `RunningConfig_proofs!ScanInvariant` and its corollaries `VLANReadIsEffective`, `InterfaceReadIsEffective`, `TrunkReadIsEffective` | induction over the text by the steps of the scanners: a line adds itself to what is said of the VLAN whose block it is in (`SaysGrows`), and being the latest it decides (`SaidNew`); the same for the block of a port (`SaysInGrows`, `SaidInNew`). `Position` and `InterfacePosition` are the strengthenings: a scanner is in the block the text is in. That a set of line numbers has a latest one is by well-founded induction (`LatestExists`). `ReadsOnlyGrow` is by the actions: a scanner changes what it would return for its current block or the line's trunk, and only to something |
| `Members_proofs!LoopInvariant`, `FormatRoundTrips`, `FormatIsCanonical`, `FormatIsTheString` | the parts and the references still pending make up the input; the open run is apart from the parts before it. A recursion over the list would be out of the provers' reach; the loop as steps is not. `CanonicalIsUnique` takes the first part in which two canonical strings of the same members differ; both begin there with the same reference (`SameStart`), and neither run goes on further than the other (`SameEnd`) |

Model-checked only: everything under fairness (the liveness halves of
`ImplementsOneSession` and `KeepsSessionDiscipline`), which TLAPS does not
prove. That a handler which takes steps returns is a theorem (`HandlersNearReturn`)
for VLANs and ports; what fairness adds is that it does take them and that
`Acquire` has its turn. The handlers of a single statement have a handful of
steps in a row and no loop: for them the liveness that `scalar_session` checks is
enough. All other properties of the passing runs are theorems. `Ports` states no
fairness: its session discipline is the frame that `vlan_session` and
`scalar_session` check for liveness, and its own work is a finite list of steps
between two of them. The proof system also excludes recursive operators, and no
module here has one. The collector's run is a counterexample, so nothing of it
is proved.

## 5. What is assumed or left out

- The switch applies a configuration line or answers with one of the failure
  indicators of `hp_aoss.yaml`; for deletes, silent refusals are modelled, since
  the code verifies them. Writes are not verified by the code.
- A handler's read returns the whole running configuration or fails. Output
  that is cut short, or empty, parses without an error - the scanners' properties
  hold of every prefix. It shows no VLAN, port or trunk that the whole text does
  not (`ReadOnlyGrows`), but within the block the cut is in it may show members
  that a `no untagged` beyond the cut would have withdrawn. A refresh would drop
  what is missing from it, and a delete take it for gone: `DropsOnlyGone` and
  `DeleteRemoves` hold for whole reads only. Nothing in the code could tell, and
  no document says that it should, so the handlers' models leave such reads out.
- `Desired` has no member both tagged and untagged. The schema accepts one, and
  no block could then satisfy it.
- `name ""` clears a port's name, as `no name` does. The code relies on it
  (`interface.go:104`); no test or fixture shows what the switch makes of it.
- The switch knows no port that is not on the chassis: a handler's first line
  for it fails. Its block stays in the running configuration.
- A refresh drops a port whose module is out, and nothing adopts it when it is
  back. The code says that this is intended (`resource_interface.go:110-111`);
  the interfaces' `DropsOnlyGone` allows it, and such a block does not count as `made` any more.
- Terraform core compares `tagged` and `untagged` as sets of strings. A member
  configured as `trk1` is read back as `Trk1`, so every plan shows a difference,
  although the write, which goes through `memberSet`, is the same.
- The order of the data source's rows; `aoss_version`, which is one Show and one
  parse; the show parsers that only copy a template's columns.
- In `cmd/collect`: what is captured, flags, files, the summary, and a `write
  memory` that fails, which is only logged.
- Cancellation of the context; the process being killed between two steps (the
  switch keeps the applied prefix, as after `SendLineFails`, but the state is
  Terraform's last save); write memory on the switch, which the provider never does.
- Validators, wording of errors, logging, the TextFSM engine, scrapligo,
  transport options and fixture replay.

## 6. Open ends

1. *Lifecycle*: refresh, plan, apply, taint and replace as Terraform core does
   them, over the promises proved here; convergence of a sequence of applies;
   a replacement that deletes a VLAN the provider did not make. Core is not in
   this repository, so its part would be external.
2. Reads that are cut short, in the handlers.
3. Fairness for Ports.
4. The comparator of `sortMembers`; how `ParseMember` reads a spelling.
