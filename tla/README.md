# A TLA+ model of warpscout

warpscout finds Cloudflare WARP endpoints that answer from where it runs. It
probes addresses for open ports, brings up a WireGuard or MASQUE tunnel over
each of them, pings through the tunnel to see whether it is torn down, measures
throughput, and prints tables, a config or a single endpoint. It also searches
for junk parameters and TLS names that get through, registers the account it
scans with, and serves a SOCKS5 proxy.

It is a Go program whose difficulty is in its goroutines, its timers and its
error paths. This directory models those and leaves the bytes alone. Paths below
are relative to `src/`.

## 1. Inventory

| Part | Code | State | Operations | Hard part | Correct when |
|---|---|---|---|---|---|
| Tunnel pool | `workers.go` | tunnels made and closed, a goroutine each, the index channel | create, hand out, run, join, close | creation stops at its first error; unbuffered channel; deferred closes | every index runs once, no tunnel is used after its close, the call returns |
| Port discovery | `discovery.go` | open ports found so far, derived context | sweep an address, record, cancel the others, sweep the alternates | two winners; sweeps cut short | one address answers, nothing is missed, the phase ends |
| Endpoint verification | `main.go` `runScan`, `tunnel.go` | result slots, live messages, address of the meta host | probe port by port, attempt by attempt, ping, store | cancellation between message and slot; compare-and-swap | feed and report agree, first passing port named |
| Durability ping | `tunnel.go` | sequence numbers out and answered | send, drain, final window, second burst | late, duplicated, foreign replies; a cut in between | a torn verdict means two silent tails, loss is of one burst |
| Terminal UI | `main.go` `runWithUI`, `tui.go` | program, work goroutine, caller | start, send, quit, join | messages to a program that is over; join; `p.Run` failing | no wait for ever, results are read after they are written |
| Feed, node list | `tui.go` | rows in order, counts | insert, count, drop | rows arrive in any order | the feed has the order of the report, the nodes its counts |
| Ranking | `report.go`, `main.go` | none | order, pick, select for speed | four functions must agree | `-best`, config, feed and tables name the same endpoint |
| Dispatch | `cli.go` | none | run one command | three commands over one UI | what holds of a round holds in each of them |
| Scan command | `main.go` | results, held error, exit status | account, outer tunnel, scan, filter, speed, outputs | a held error, deferred close, early exits | the report survives a failing output, the status tells of `-best` and `-conf` |
| find-junk, find-sni | `findjunk.go`, `findsni.go` | best set, verdict | round, score, stop | errors inside the UI; quit during a round | the best round is reported, a quit ends it |
| WireGuard tunnel, binds | `tunnel.go`, `bind.go`, `warp.go` | device, peer, socket, back-off | create, set the peer, poll, receive, close | one key for all endpoints; a deadline looked at between sleeps | "yes" is of the endpoint asked for, an answer in time is seen, close ends the reader |
| MASQUE tunnel | `masque.go` | current peer, contexts, dial timer, pumps | handshake, drop, pump in, pump out, close | timer against dial, swap against a write under way | no transport leaks, an installed peer lives, close stops all |
| Registration | `register.go` | account file, devices at the API, route | rotate, register, enrol, save | lost answers, kills, fallbacks | a saved account works, a usable one is not lost |
| Nested tunnels | `nest.go`, `wgconf.go` | account globals, outer and inner tunnels, config | swap keys in and out, dial, render | globals borrowed for a call | each tunnel and interface is of one device, the right one |
| SOCKS5 proxy | `socks.go` | sessions, listener, tunnel | accept, greet, dial, copy both ways, interrupt | half-open connections, silent peers | no data cut off, Ctrl+C ends it |
| Host ping | `discovery.go`, `nest.go` | ping socket, id and sequence | `pingHost`, `pingTo` | two goroutines on one host | a reply is matched to its request, none in time is missed |
| Speed test | `main.go`, `tunnel.go` | speeds per endpoint | filter, one tunnel, one endpoint after the other | cancellation, a tunnel that does not come up | every row shown has the speed that was shown for it |
| Address pools | `pools.go` | none | expand prefixes, sample | none | pure |
| Config, report text | `wgconf.go`, `report.go` | none | render | layout | |
| Packet generators | `i1gen.go`, `quic.go` | none | build bytes | cryptography | |
| Meta, location | `geo.go`, `meta.go` | none | decode | none | |
| Update check | `version.go` | a cache file | one request | best effort | |
| Flags, platform glue, installer | `cli.go`, `flags.go`, `argv*.go`, `ui.go`, `console_*.go`, `dns_android.go`, `install.sh` | none | parse, call the system | none | |

How they interact. `runScanCmd` calls `dialOuter`, then `runScanUI`, which starts
a bubbletea program and, in a goroutine, `runScan`. That goroutine runs phase 1
and phase 2 over one `runTunnelPool` each, sends messages to the program with a
blocking `Send`, and writes the result slots, which the command reads after the
join. The tunnels of the pool are WireGuard ones (inside the outer tunnel, with
`-through`) or MASQUE ones, and read the account from globals, which
`withOuterKeys` changes for the length of a call. find-junk and find-sni call
`runScanUI` in a loop; the SOCKS command has a tunnel and no pool.

External: wireguard-go, gVisor's netstack, quic-go and connect-ip-go, bubbletea,
and the registration API. They are modelled from how the code uses them.

## 2. Modules

What extends what, and what implements what:

```
ParallelFor   <- refined by -  TunnelPool  <- PortProbe    (phase 1)
                                           <- ScanPhase    (phase 2)
PortChoice    <- refined by -  PortProbe
TunnelPromise <- refined by -  WGTunnel, MasqueTunnel
TunnelPing, HostPing  <- Pings             inside of ScanPhase's step "ping"
ScanUI  <- ScanCommand, Search <- Commands one runWithUI, and who calls it
Ranking <- Display <- SpeedPhase           orders, lists of the UI, speeds
Register, Nest, SocksProxy stand alone
MCPortProbe, MCScanPhase, MCDisplay        constants for TLC
TunnelPoolProofs <- PortProbeProofs, ScanPhaseProofs
RegisterProofs, MasqueTunnelProofs         theorems on the module named
PingsProofs                                on Pings, and on Ranking to SpeedPhase
CommandsProofs                             on Commands and on SocksProxy
WireGuardProofs                            on Nest and on WGTunnel
```

Abstract specifications:

* **ParallelFor** is what the callers of `runTunnelPool` rely on: refused before
  any work, or returned with each index processed once.
* **PortChoice** is what the caller of `reachablePorts` relies on, in three sets of
  pairs and five actions: one address that answered, all of its ports, the
  alternates only of a network whose primary ports are silent, "none" only when
  everything was asked.
* **TunnelPromise** is the interface `tunnel` of `tunnel.go`: one endpoint after
  another, "yes" only of the endpoint of this call, no data to one that was left,
  calls return, and a close leaves no goroutine. Both implementations keep it,
  each by its own means: WireGuard by replacing its peer, MASQUE by swapping
  connections under a mutex.

State and actions against the code:

* **TunnelPool** (`runTunnelPool`). `phase` is where the caller is, `created` and
  `closed` count tunnels, `worker[t]` and `job[t]` are goroutine t and the index it
  holds, `next` is the feeder's cursor, `ran` counts calls of `fn`. `Send` is the
  rendezvous on the channel; the body of `fn` is the time between `Send` and
  `FinishJob`, and the modules that extend this one fill it.
* **PortProbe** (`reachablePorts`, `probePorts`). One action per context check,
  handshake, critical section and `cancel()`. The second sweep starts a new pool.
* **ScanPhase** (`runScan`'s work function, `tunnelProbe`, `probeEndpoint`,
  `resolveMetaAddr`). Loops over ports and attempts, the meta address with its
  load and compare-and-swap apart, the message and the slot as two steps.
* **TunnelPing** (`durability`, `tunnelPing`, `drain`, `sendEcho`, `teardown`).
  A reply may come at any time, any number of times or never, foreign packets
  without end, and the tunnel may be cut for good. A window ends by its deadline
  (`Drained`), whatever waits unread beside the replies it wants, not by silence.
* **HostPing** (`pingHost`, `pingTo` and their senders and parsers). Several calls
  at a time, for one host or for two. On a raw socket each sees the replies to
  all, on the other two kinds only its own. `arrived` and `late` are histories.
  Replies come any number of times here too, and after their call.
* **Pings** puts the two beside each other: a job of the scan makes one call after
  the other and they share nothing, so a behaviour is one of them.
* **ScanUI** (`runWithUI`, `runScanUI`, `plainEmit`, `scanModel.Update`). The
  program (`prog`, `quitting`), the caller, and the work as the messages it sends.
  A `Send` to a program that is over is dropped.
* **ScanCommand** (`runScanCmd`, `writeConfFile`) and **Search** (both search loops)
  drive ScanUI; **Commands** is `main`'s choice among the three, with the one
  context that a signal cancels.
* **Ranking** holds the orders and picks, `lessByLossRTT` of the report and
  `lessLatency` of the feed as two definitions, since they are two functions.
  **Display** is the list part of `scanModel.Update`: rows are inserted and nodes
  counted as probes end, and dropped when the tables follow. **SpeedPhase** goes
  on from there with `applyFilters` and `measureSpeed`, under a UI of its own.
  A sort is stated by its result, the one arrangement of the rows in which every pair
  is in order; an insertion is the splice that the code makes.
* **WGTunnel** (`wgTunnel`, `waitHandshake`, the receive functions of the binds).
  `peer` is the device's peer as the call that set it, since all endpoints have one
  key; `flying` are responses of this call and of earlier ones; a clock of ticks
  runs while the poll sleeps.
* **MasqueTunnel** (`masqueTunnel`). `owner` is the goroutine in `handshake` or
  `Close`; `timer[p]`, `dialOff`, `pumpOff`, `peer[p]` are the timer, the two
  contexts and the transport of each handshake; `pumpOut` reads, takes the
  connection under the mutex and writes in three steps.
* **Register** (`runRegisterCmd`, `mintAccount` and below, `doJSON`,
  `saveAccount`). The API's devices are part of the state. A request may be
  carried out and its answer lost. `Die` is a kill at any point.
* **Nest** (`dialOuter`, `withOuterKeys`, `renderChainConf`, `withChainAddr`,
  `newWGTunnel`). Globals are one record, each tunnel records what it read.
* **SocksProxy** (`runSocksCmd`, `serveSOCKS`). Per client the session, both
  copies, and the state of both connections.

`PROJECT.json` maps every definition to the lines it translates.

Operators whose comment begins with "Mutated form of" are bugs: a missing wait, a
dropped guard. They are used nowhere in a specification; putting one in the place
of its original shows that the property it is listed with notices.

## 3. Runs

`tlc -config X.cfg M` with the pairs below. Most finish within a minute on two
cores, Pings and Display within three.

| Run | Module, instance | States | What it shows |
|---|---|---|---|
| PortProbe | MCPortProbe: 2 tunnels, 3 addresses, 2 + 1 ports | 33 900 | ChoiceKept, PhaseOneEnds |
| ScanPhase | MCScanPhase: 2 tunnels, 3 targets, 2 ports or 3 attempts | 366 000 | ClosedAfterUse, PromiseKept, ReportMatchesFeed, FirstPassingPort, OneMetaAddress, ScanEnds |
| Pings | Pings: a burst of 5 echoes with a tail of 3, or 2 latencies of 2 echoes; 2 and 1 packets unread | 694 000 | LossIsOneBurst, TornNeedsTwoSilentTails, CutIsReported, OwnEcho, NoReplyMissed, PingsEnd |
| Commands | Commands: all flag combinations; a scan of 2 targets, or 3 rounds with scores 0..2 | 217 000 | BestIsReported, ReportSurvives, StatusTellsOfBestAndConf, WorkIsJoined, QuitEnds, EndsByItself |
| WGTunnel | WGTunnel: 3 handshakes, a timeout of 9 ticks, sleeps of 1, 2, 4 | 4 400 | IsTunnel, PollIsInTime |
| MasqueTunnel | MasqueTunnel: 3 handshakes | 20 800 | OnlyInstalledUp, TimerSparesPeer, OneLatePacket, IsTunnel |
| Register | Register: 2 runs, 4 devices, 2 tunnels to try | 409 000 | SavedWorks, AccountKept, DamagedFileStays, RunEnds |
| Nest | Nest: 2 workers, 2 addresses | 4 700 | OneDeviceEach, AddressesDiffer, OuterOutlivesInner |
| SocksProxy | SocksProxy: 2 clients, 1 piece of data, nested | 106 000 | NothingIsCutOff, InterruptEnds, TargetEndsSession |
| Display | MCDisplay: 3 targets, 2 subnets, 2 nodes, loss and ping 0..2, 4 filters, 2 attempts | 1 751 000 | FeedIsTheReport, NodesMatchFeed, BestLeads, PicksAreMeasured |
| SearchJunkStuck | Search: 2 rounds | | FailureMovesOn is violated |
| RegisterBurns | Register: 2 runs | | RotationBurnsNothing is violated |

The comment above each property in its module says what it means; section 5 says
which of them are also proved. ChoiceKept, PromiseKept and the two IsTunnel are
the refinements of section 2: the run checks the abstract specification, fairness
included, as a property of the detailed one.

Bounds, and why they suffice:

* *Pools*: two workers race, a third index makes one of them come back for more
  while the other is at work; a pool may also come up with one tunnel or none.
  The safety properties are proved for any number.
* *Ports and attempts*: two ports let a sweep be cut between them and a first
  port fail; three attempts have a first, a middle and a last one.
* *Pings*: the tail of three is the code's `tornTailFails`, and five echoes
  are `minDurabilityPings`, the shortest burst the flags allow. The number of
  packets is not bounded; what a socket holds unread is (`Room`, `Backlog`), and a
  packet that finds it full is lost. Two in the durability socket have a foreign one
  before and behind a reply; one suffices for a latency, whose order of arrival is
  free anyway. A latency takes two echoes
  where `pingProbes` is three, which is beyond TLC with two calls at a time; two
  already have a first and a last one, replies out of order, and a late one that
  the next read takes.
* *Commands*: three rounds let the best come first, between and last; two targets
  give results that work, that are torn, of both kinds, and none.
* *WGTunnel*: three calls have responses of the last and of the last but one
  under way. The sleeps double from 1 past PollMax as those of the code do
  (2, 4, .. 64 ms, past 50), and the last poll falls behind the deadline.
* *MasqueTunnel*: with three, a peer is replaced, and so is its replacement,
  while the timer and the reader of the first are still alive. Its safety
  properties are proved for any number.
* *Register*: the second run meets whatever a first run, or its death, left.
  Four devices are a fresh account with its MASQUE and outer devices and one more;
  an API that has no more refuses.
* *Nest*: addresses may be the fallback, another one, or absent, for each device.
  Proved for any sets.
* *Display*: three rows have every order and tie of loss, ping, node, region and
  subnet. A speed is measured or not: one value of each shows where it lands, and
  equal ones come in each order.

`CHECK_DEADLOCK FALSE` is in every configuration because every part of the program
is meant to stop: a scan that is over has no step. That nothing stops *before* it is over
is what the liveness properties say.

### Fairness

Goroutines are scheduled (weak fairness of each goroutine's steps), and calls the
code bounds with a timeout or deadline end: handshakes, meta fetches, API
requests (`http.Client.Timeout`), ping windows. The end of a window has a condition
of its own: its deadline passes also when there is always one more packet to read. A dial over QUIC ends by
`MaxIdleTimeout`. A read on what has been closed returns, that of a WireGuard bind
included. While a poll sleeps time passes. A command, the event loop of its UI and
the work are three goroutines, with one condition each. Nothing is assumed of
the user, the network, the API, an endpoint, a SOCKS client or its target: quits,
signals, deliveries, answers, cuts, kills, handshakes and closes carry no fairness.
A write to a SOCKS client has no deadline (`socks.go:199`), so that it is fair only
towards a client that is gone, where it fails; one that stays need not read, and
TargetEndsSession leaves that session out until the client has read or left. The copy
to the target is taken to end only when our end is closed. No strong fairness is
used.

### What the violations say

* **SearchJunkStuck**: in a terminal, a round of find-junk whose `runScan` fails
  sends a `stepMsg` and no `doneMsg` (`main.go:493-498`, `534-536`). The program
  goes on, `runScanUI` does not return, and the `continue` at `findjunk.go:65-68`
  is reached only when the user quits. `cli.go:68-69` promises rescans until a
  set is good enough. The trace that TLC prints may be a round of find-sni, which goes
  through the same `runScanUI` and has the same fault (`findsni.go`).
* **RegisterBurns**: `mintMasque` registers a MASQUE device in every run and looks
  at the existing one only when that fails (`register.go:233`). `README.md:270`
  and `cli.go:49-51` say that a second run changes the keys "without burning
  another registration".

Seen while reading, not stated as properties:

* `tunnel.go:326`: a ping socket that cannot be opened gives a burst without loss;
  the comment at `tunnel.go:171-172` has the ping prove that data passes. TunnelPing
  takes the step, and TornNeedsTwoSilentTails and CutIsReported leave it out.
* `main.go:222-227`: a report that cannot be written is noted on standard error and
  leaves the status 0, also at a path that `-output` names. No doc says otherwise;
  StatusTellsOfBestAndConf says what the status does tell, and ReportSurvives that
  the report was tried.
* `register.go:106`: the account file is truncated and then written, so a kill between
  the two loses the account in it. DamagedFileStays is about the runs after that.
* `socks.go:198-199`: neither copy has a deadline. A client that stays without reading
  keeps its session, as does one that left a target that stays silent.
* `main.go:465`: an error of `p.Run` returns without the join, so the work may
  still be writing. WorkIsJoined names this exception.
* `bind.go:43`: any read error, not only that of a closed socket, is returned as
  `net.ErrClosed`, on which wireguard-go ends its receive goroutine. The tunnel
  then says no of every endpoint after; IsTunnel and PollIsInTime hold of it, for
  the interface has no way to tell.
* `nest.go:147`: `pingTo` drops a reply of another number and does not read again
  for its own; after one late reply every further read can be one behind.
  NoReplyMissed says that nothing else makes it miss one.
* `discovery.go:194`: on a raw socket the identifier is not compared, and a reply
  to another goroutine that pings the same host counts. OwnEcho names this.
* `findjunk.go:78`: a round that brings nothing up is never the best, so a search
  whose rounds all finished without an endpoint ends as if none had finished.
* `wgconf.go:235`: the mihomo config never moves the inner address nor warns; the
  comment at `wgconf.go:50-55` says of two interfaces with one address that they
  pass nothing.

## 4. What is left out of a model, and why it does not matter

* Addresses, names, keys, formats and log lines are values or gone. Random junk
  parameters are reduced to what a round scores.
* An exit node is one value in Ranking; Display gives it a region, as its list
  does. Two targets that share an endpoint are taken to be one there.
* TunnelPing, HostPing: times are gone. What is kept is which reply is taken for
  which echo, and before or after which deadline; a reader is prompt: what was
  delivered before a deadline is read. The identifier of a ping or netstack socket
  is chosen by the kernel or the netstack, as Linux does it.
* WGTunnel: an error of `IpcGet` is not modelled, nor the retries inside the
  device. `peerUAPI` fails for a key it cannot decode, and the key does not change
  under a tunnel: where it fails there is no peer from before, as in the model.
  The socket options of `bind_linux.go` are system calls.
* SpeedPhase: the arithmetic of `sampleThroughput` gives a value or none.
* Display, SpeedPhase: a row sent when the program is over may be gone, which only
  matters after a quit; the speed list allows for it.
* Register: a request whose answer was lost has taken effect before the next one
  is sent; one that is still on its way is not modelled.
* Search: a round that a failed `p.Run` left behind is forgotten by the model; its
  messages go nowhere.
* Nest: the speed phase's `p.Run` is taken not to fail (Commands has it).
* SocksProxy: a target ends its side in order, without a reset. Reads of the
  greeting have no deadline in the code, and none in the model.
* ScanUI: the work of a round is the order of the messages `runScan` sends, with a
  failure possible where it can return early; what happens between two messages is
  in PortProbe and ScanPhase, whose pools join their goroutines before the message
  that ends the phase. The two levels are not composed into one state space.
* Commands: `register`, `socks` and `version` share nothing with the three that
  are in it; the first two have modules of their own. `-best` with `-conf -` is
  excluded because `rejectBestConfStdout` refuses it before a command runs; the
  rest of `flags.go` is parsing.
* `runPool` of `workers.go` has no caller.

Not modelled:

* `pools.go`, `geo.go`, `meta.go`, and parsing in `flags.go`, `argv*.go`: pure
  functions over strings and random numbers. The models take what they return as a
  constant or as a choice; a unit test reaches their cases.
* `i1gen.go`, `quic.go`: packets built byte by byte with standard cryptography;
  there is no state, and an abstraction of the bytes leaves nothing to say.
* Text: the tables of `report.go`, the formats of `wgconf.go`, `View` of `tui.go`
  and the marks of plain output.
* `version.go`: one best-effort request with a cache file; it fails silently by
  design and nothing depends on it.
* `console_*.go`, `dns_android.go`, `install.sh`: system calls of one platform and
  a download script.
* wireguard-go, gVisor, quic-go, connect-ip-go and bubbletea are environment.

## 5. Proofs

TLAPS checks eight modules. The assumptions are the named ones on the constants of
the modules they extend (`WorkersAssumption`, `SizeAssumption`, `PortsAssumption`,
`ScanAssumption`, `PingAssumption`, `HostPingAssumption`, `RankingAssumption`,
`DisplayAssumption`, `SpeedAssumption`, `UIAssumption`, `SearchAssumption`,
`MasqueAssumption`, `NestAssumption`, `PollAssumption`, `RegisterAssumption`,
`SocksAssumption`), which TLC evaluates in the runs above, and nothing else. Most say that a size is a number or that two values differ. The
others: no port is listed twice; `Count >= TornTailFails > 0`, which `flags.go` and
the constants of `tunnel.go` give; there is a host to ping; the API has room for a
device; a search's threshold is one that its targets can reach; a scan has a finite
set of endpoints, which are numbers (they stand for the texts that break a tie). Every
model has its type invariant as a theorem. Each inductive invariant was a TLC invariant of its run before it was proved.

**TunnelPoolProofs** (TunnelPool), for any pool size and any number of indices. The
invariant has three parts: the types; Lifecycle, which ties `created`, `closed`
and the goroutines to the phase (no goroutine is busy once the caller has passed
the join, all tunnels are open before); and EachIndexOnce. ClosedAfterUse is not
inductive alone: that closing starts only after the join has to be carried in
Lifecycle. From these follow IndexOnce, NoUseAfterClose, ReturnIsComplete (a nil
return means all indices were processed and all tunnels are closed), and
KeepsPromise: initial states map to initial states of `ParallelFor`, each step
to one of its steps or to none. The pool's steps are stated as lemmas, which the
next two modules cite: they only show that a body of `fn` leaves the pool alone.

**PortProbeProofs** (PortProbe over TunnelPoolProofs), for any workers, addresses
and ports. On top of the pool's invariant, in each of the two sweeps: SweepInv, that
what a goroutine has found are the ports of its address that were heard, and that it
has asked those before its place in the list, unless cancelled, and none after;
AskedInv, that nobody but a winner or the user cancels, so that without either the
addresses that are done, and the primary ports once they are left, are silent;
CallerInv, when the caller concludes. ChoiceIsKept is the whole refinement of
PortChoice, which states no fairness; PhaseOnePools gives ClosedAfterUse and
ReturnMeansDone for both pools.

**ScanPhaseProofs** (ScanPhase over TunnelPoolProofs), for any workers, targets,
ports and attempts. ProbeInv says, at each point of `probeEndpoint`, what the
goroutine knows of the target in hand: the ports and attempts behind it, whether it was
announced, what is in its slot. TargetInv has every other target untouched, or
settled: found at one port, announced once with the verdict of its slot, or given up after
every attempt. Of a port that was found, or is being asked, UntriedAfter says that no
attempt was spent on a later one. CountInv counts one message for each target that is done.
ScanKeepsPromise and ScanClosesLast carry the pool's theorems over; FirstPortWins
(FirstPassingPort), ReportAndFeedAgree (ReportMatchesFeed) and MetaDecidedOnce
(OneMetaAddress, an action property) follow. ReportMatchesFeed speaks of the return
only; what carries it there is the goroutine between its message and its slot.

**PingsProofs** (Pings), for any length of burst, any tail, any number of calls and
hosts. Of the durability ping: BurstNow, that every reply of this burst was counted or
waits in the socket; BurstsBefore, how the first burst scored, and that nothing
arrives after a cut; VerdictInv, whose score a verdict is. Of the latencies, CallInv
for each call: what waits in its socket was sent for (Genuine), what it counted is
its own, and what arrived was counted or waits to be, as long as no reply came late
(Kept). LossCountsOneBurst, TornTwice, CutShows, AverageIsOwn
and AverageIsComplete are the five safety properties of the run.

The second half of PingsProofs is about what their results order (Ranking, Display,
SpeedPhase), for any finite set of endpoints, any subnets, nodes, filters and attempts.
A linear order on a finite set has exactly one arrangement (SomeArrangement, from
the smallest set that would have none, less an element, and PlacedArranged;
ArrangedOnce), and the reports' order is linear on rows with an endpoint each
(RowsLinear), the feed's copy of it being the same order (FeedOrder). So inserting before the first
row that is beaten keeps the one arrangement (InsertKeepsOrder), and counting a row
keeps that of the counts (CountKeepsOrder). ListInv then says what the three lists are
after any set of probes, whatever order they ended in, and gives FeedInOrder
(FeedIsTheReport), NodesAreTheFeeds (NodesMatchFeed) and, since the best of all rows is
the best of its node's, BestComesFirst (BestLeads). SpeedInv adds that what was
measured are the picks before the loop's place, that the list shown is in order with each
endpoint once, and that only the pick under way at a quit may be missing from it.
PicksMeasured (PicksAreMeasured) follows.

**CommandsProofs** (Commands, and SocksProxy). For any sample, targets and picks,
any rounds and scores: UIInv ties the caller of one `runWithUI` to its program and
its work; CallerAtStep does so for each step of the scan command, and HeldError says
which outputs were made or which error is held by then; SearchInv, that the best round
so far is the best of the finished ones. BestOfAllRounds, ReportAfterAll,
StatusIsEarned (StatusTellsOfBestAndConf, both ways) and WorkIsWaitedFor follow. For any clients, with or without nesting:
SessionInv, that a session that answered "ok" is connected, and that after its end the
target of a client that is still there has no one left to send to, without which
NothingIsCutOff would not be inductive; it gives RepliesAreWhole.

**RegisterProofs** (Register), for any runs and devices and any failures. Both the
account on disk and the one read are Sound: they name only devices that the API has
enabled, and none twice; a device just registered is enabled for nobody yet. MainInv,
MasqueInv and OuterInv say what a run has made so far at each of its calls, and Steady
what the API may change meanwhile. SavedIsGood (SavedWorks), OldAccountKept
(AccountKept, for lost answers and kills at any point) and DamagedStays follow.

**MasqueTunnelProofs** (MasqueTunnel), for any number of handshakes. OwnerInv says
that the peers that are up are the one being dialled and the installed one,
FutureInv that later handshakes have touched nothing, TimerInv that the timer of
an installed peer is stopped and that only the caller or a fired timer cancels a
dial, ReaderInv that a replaced peer's reader has been cancelled and delivers at
most one packet. They give NoLeak (OnlyInstalledUp), TimerHarmless
(TimerSparesPeer) and StaleIsOne (OneLatePacket). TimerSparesPeer alone is not
inductive: in a state where the installed peer still had an armed timer, the next
step would break it. MasqueTunnelIsTunnel is the refinement of TunnelPromise's
`Safe`, its specification without the fairness, step by step.

**WireGuardProofs** (Nest, and WGTunnel). The nested run, for any number of workers
and any addresses: both devices' data is fixed, so at every stage of the command
the globals have one of three values, Own, Lent or Chained; GlobalInv says which,
and what `withOuterKeys` saved. OuterInv, WorkInv and ConfInv say that each tunnel
and each interface holds what was in the globals when it was made. RightDevice
(OneDeviceEach), ChainDiffers (AddressesDiffer) and OuterLast (OuterOutlivesInner)
follow, as do KeysComeBack (after any failure the scanning account is back) and
ChainOfBoth. `work # "idle"` only at the two points where the command waits is the
heart of it: no tunnel is made while the globals are lent. The tunnel itself, for any
timeout and any cap of the back-off: PeerInv, that the device has the peer of the
current call or none; TimeInv, that a sleep under way ends less than one longest
sleep after the endpoint got through, and within one of the deadline.
BackoffCostsNothing (PollIsInTime) and WGTunnelIsTunnel (the steps of TunnelPromise)
follow. The sleeps are a set closed under doubling, and that the longest is one of
them (LongestIsOne) rests on the least counterexample in the naturals (NatMin).

Only model-checked:

* Liveness, and fairness: PhaseOneEnds, ScanEnds, PingsEnd, QuitEnds, EndsByItself,
  RunEnds, InterruptEnds, TargetEndsSession, and the fairness that PromiseKept and
  both IsTunnel include. They need ENABLED and fairness, beyond this prover.
* What a binary search finds: `insertSorted` is modelled by the first row that is
  beaten, which is what `sort.Search` returns in a list in order; that the list is
  in order is proved.

## 6. Plan

Done: pools and both phases, durability and latency, the UI with its lists, the
three commands over it, both tunnels, registration, nesting, SOCKS, ranking,
filters and speeds; four refinements to three abstract specifications; proofs of
every safety property that a run checks and of every type invariant.

Next: the messages of `runScan` as an abstract specification between the two levels,
what a found target, an end and a cancellation may be followed by. ScanPhase would be
shown to implement it, and Display's probes and ScanUI's work to be instances of it,
which takes the place of the argument of section 4 that the levels fit. Then, of the
API in Register, what one run can cost at most, in devices and rotations.
