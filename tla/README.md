# Formal models of the attack playground

TLA+ models of the parts of this repository that keep state, race, or run over
what an earlier run left behind; TLC configurations that check them on small
instances; and proofs, checked by TLAPS, that every safety property the passing runs
check of any component holds for every instance.

## The system

The playground is an ssh honeypot-like training host: everybody who logs in gets
a throw-away guest container on an internal docker network, fenced in by iptables.

| component | state it keeps | operations | interacts with |
|---|---|---|---|
| session collector and store (`stats_server.py`) | the sessions table (sqlite), the position in docker's event stream, `connected`, `reconciled_at`, `last_event_at` | `follow`, `reconcile`, `handle_event`, `open_session`, `close_session` | docker's container list and `/events`; the statistics endpoint reads the table |
| collector thread (`stats_server.py`) | the retry loop, `_stop`, `_stream` | `run`, `follow`, `stop`, `EventStream.interrupt` | another thread calls `stop` |
| statistics endpoint (`stats_server.py`) | the locals of a request | `stats`, `parse_window`, `counts` | reads store and collector from http threads |
| guest restrictions (`setup_`, `teardown_networking_linux.py`, `network_common_linux.py`) | none of its own: the kernel's filter tables, for ipv4 and ipv6 | setup, teardown | docker owns `DOCKER-USER` and the bridge; firewall reloads flush the tables |
| endpoint config and published-port conflicts (`network_common_linux.py`, `endpoints.py`) | none | `parse_config`, `endpoint_conflicts`, `classify_conflicts`, `allowed_ports` | setup reads the ranges; verify asks for ports |
| lifecycle (`start.sh`, `stop.sh`, `restart.sh`, `cleanup.sh`, the systemd unit, compose) | which of network, restrictions, rendered config, services and guests exist | start, stop, restart, cleanup | runs setup and teardown, brings the collector up and down |
| preflight and readiness (`common.sh`) | none | `preflight`, `wait_for_tcp` | called by `start.sh` |
| auth webhook (`auth_server.py`) | the kept-alive connection | `do_POST`, `do_GET`, `_read_json` | called by containerssh, and by hand |
| config rendering (`render_config.py`) | `config.runtime.yaml` | render in place | containerssh mounts the file |
| verification scripts (`verify.sh`, `verify_guest.sh`) | none | observe | - |

What is hard here, and hardly reached by the unit tests:

* the collector reads docker through two calls that are not synchronised with each
  other (a list and a stream) while guests start and die between any two of its
  steps; streams break, calls raise and the server is killed at any of them;
* `stop()` looks for a stream another thread may be about to assign;
* the firewall scripts are sequences of commands over tables they do not own: any
  command may fail, the script may be killed, the tables may be flushed, the bridge
  may be recreated under another name, and the next script meets the leavings;
* stopping and starting the playground orders all of these against each other, over a
  config file that may belong to an earlier network, be empty, or be a directory;
* an answer of `/stats` is read field by field while the collector changes the fields;
* the webhook's connections are kept alive, so what one request leaves unread is the
  beginning of the next.

What makes each component correct: for the collector, that the open sessions are
the running guests once it has caught up, that no live session is ended, and that an
observed end is exact and final; for its thread, that it outlives every failure and
obeys `stop`; for the firewall, that a setup that reports success enforced what the
config says or warned, that no step opens a live chain, and that a teardown that
reports success left nothing it could have found; for the lifecycle, that no guest ever runs unrestricted
that containerssh works from the config of the network that exists, and that a normal
stop records every end; for the endpoint of the statistics, that numbers which are wrong
for good do not pass for current ones; for the webhook, that every request gets its own
answer, whoever else is slow; for the endpoint functions, that they agree
with what iptables and docker do with the same lines, rules and sockets.

## Modules

| module | models |
|---|---|
| `SessionLedger` | abstract specification: what the statistics promise of the sessions table |
| `StatsCollector` | collector, store and docker as the collector sees it; implements `SessionLedger` |
| `MCStatsCollector` | the symmetry set for TLC |
| `StatsServer` | one request for `/stats`, field by field, composed with all of `StatsCollector` |
| `CollectorThread` | `run`, `follow` and `stop` as two threads over shared state |
| `GuestFirewall` | setup and teardown, one iptables command to a step |
| `MCGuestFirewall` | endpoints and configs for TLC |
| `Lifecycle` | start, stop, restart and cleanup over what they bring up and take down |
| `MCLifecycle` | the symmetry set for TLC |
| `AuthServer` | the authentication webhook on kept-alive connections, a thread to each |
| `MCAuthServer` | the requests for TLC |
| `Endpoints` | what is worked out from the endpoint config, the nat table and the sockets |
| `StatsCollectorProofs`, `StatsServerProofs`, `CollectorThreadProofs`, `GuestFirewallProofs`, `LifecycleProofs`, `AuthServerProofs`, `EndpointsProofs` | the theorems about each, with the invariants and lemmas they rest on |

Definitions marked as mutants in the modules are no part of the models. Each is a neighbouring definition with
one slip (a dropped clause, a wrong bound), kept to confirm that a property notices.

### StatsCollector

State follows the code: `rows` is the sessions table (a row's `state` stands for
`ended_at` and `end_reason` together), `since` and `cursor` are the replay bound and
the position of the `/events` response, `now`, `listed`, `todo` are the locals of
`reconcile`, and `pc` says between which two calls the thread is. The docker daemon
is external: a guest goes none, up (listed), running (its start event is out), exiting
(no longer listed), dead (its die event is out) - the list and the event log change in
separate steps, as they do in docker, so an answer can be ahead of or behind the
stream. The daemon answers `/events` before it subscribes the stream
(`DaemonSubscribes`), which may happen any time later, from the first event not older
than `since`. The clock has two ticks to the second, so that `int()` truncates
something. Names, labels and the filter on the image are left out, and every guest
has one start and one die event, because containerssh never restarts a guest.

`StreamLost` covers every way out of `follow`: a closed stream, an error from docker,
a store that raises. `Crash` is the container being killed, `Boot` the next start; only
`rows` survive. Each costs one of `MaxOutages`.

### StatsServer

Extends `StatsCollector` by the locals of `StatsServer.stats`: `request` (`now` and the
window), `read` (how many fields have been evaluated, in the order of the code: three
counts, `connected`, `reconciled_at`, `last_event_at`) and `answer`. The counts are three
queries under the store's lock: until the third, a step of the collector that writes the
store has to wait (`StoreWaits`); after it, anything may move. A crash takes the request
with it. One request is modelled, since two share nothing but that lock. `behind` and
`torn` are history: whether the counts left out something that no event still to come
would bring, and whether reconcile finished around them.

`StatsCollector` sets `connected` and `reconciled_at` in one step, and `last_event_at`
together with the row. The code sets them one after the other, but no request can tell:
it reads `connected` before `reconciled_at`, which the collector assigns in the order
`reconciled_at`, `connected`, and `last_event_at` after both and after the counts, while
no property relates it to a row. A 404 or 400 reads no state and is left out; of
`parse_window` there is that a window is never zero (`WindowsAssumption`).

### CollectorThread

The same loop cut at a finer grain and without the store: each step is one access to
`_stop`, `_stream` or the socket. `stop()` is three steps (set, read, interrupt), as
nothing makes it one.

### GuestFirewall

`exists`, `rules` and `jumps` are the tables; `Verdict` is how iptables walks them.
Each action is one command or one loop whose commands ignore errors
(`remove_all_hooks`, `remove_legacy_rules`). `reach` says that FORWARD reaches
DOCKER-USER, and `Parent` which chain a hook is in. A fault is a command that fails
(`CommandFails`; also `-L` and `-C` may fail, which the code takes for "not there", and
`ip6tables_available()`, at which teardown skips the ipv6 tables without a word: the history
variable `misread` remembers each, because two properties can only be had where it did not
happen), a kill, or a flush of the tables; a command that cannot succeed
because its chain is gone fails without costing one (`Doomed`). The network may
change free of charge between two scripts, and as a fault under one that runs. One script runs at a time: nothing in the
repository starts two, and running two by hand is not modelled. Ports and addresses
are abstracted to "is this packet for range e"; the port of the ssh cap is one hook.
Which chains a login from the lan goes through is `PathOfLogin`: docker rewrites a connection
to the published port before routing, so it is forwarded. A flush deletes the
chains too. Whether legacy rules are left is tracked but no property is about it: the
scripts take any failing `-D` for the end of the rules and report nothing.

### Lifecycle

A script is the sequence of its steps (`StartSteps`, `StopSteps`; restart and cleanup
call stop), `step` is the next one, and anything else may happen before it is taken: a
login, a logout, the collector applying an event, a service dying, a reload, a reboot,
the script being killed. `outcome` is what the script said last. A step that fails ends
its script, as `set -e` or its own `exit 1` does, except the `docker rm -f ... || true`.

What the other modules show is used here as the effect of a step, not shown again:

* `fw` is "applied" after a setup that succeeds; a setup that fails or is killed over
  restrictions that are in place leaves them "broken" (`GuestFirewall`: a flushed chain, still
  hooked, without its rules), though one killed at its end has applied them and one killed
  at its start has changed nothing (`HalfDone`); a teardown that succeeds leaves "none". The instant in
  which a re-run has flushed a chain is the matter of `GuestFirewall` and not of this
  module; it only counts here if setup then fails.
* the collector opens a session for every guest it lists or sees start, ends it exactly
  when it sees it die, and guesses otherwise (`StatsCollector`). `news` is what docker
  has published and the collector not applied.
* `compose down` gives a service ten seconds. That a following collector has by then
  applied what is published is an assumption, the guard `news = {}` of `ComposeDown`.

A guest is made in one step: a login that containerssh is still serving when it is
stopped either has its container by then or gets none. Guests log in once.
Scripts may be run at any time, start.sh also over a playground that is up. Two scripts
at once are not modelled: nothing in the repository starts two.
`secured` is history: whether the script that runs has itself applied the restrictions,
which `fw` alone cannot tell from an earlier script's.
`survivors` is history: the guests that `docker rm -f ... || true` left. What the passing
run says of all guests it says of the others; `lifecycle_remove` shows what becomes of
these.

`config` is `config.runtime.yaml`: the gateway it was rendered for, or missing, empty, or
the directory that docker makes of a missing file it is told to mount (`StartSsh`).
Rendering is two steps, as `open(path, "w")` empties the file that the write then fills;
the text is one write. `net` is the gateway docker numbered the network with; a network
made anew may get another. containerssh reads its config once, as it starts, and what it
read is `loaded`. `ComposeUpByHand` is the "docker compose up" that `render_config.py`
clears up after: before any config is there. One over a config that is there is what the
repository tells the operator not to do, skips the restrictions, and is not modelled.

### AuthServer

A connection is a sequence of tokens: the head of a request, then the parts of its body.
A client may send them one by one, stop half way, begin the next request before the
answer to the last, announce a length that is not the body's, or close its end. A handler
(one to a connection, as in `ThreadingHTTPServer`) reads a head (`ReadHead`), for a POST as much
as is announced (`ReadBody`, blocking), and answers (`Respond`). What http.server does
with a line that is no request line, or with a method that has no handler, is `Refuse`.
A body is abstracted to what `payload["username"]` would be, if it was read whole.

The comment "the body is always drained" (`auth_server.py:38`) is true of requests that
say how long they are, which `Framed` spells out. Behind a missing or malformed
Content-Length, or a GET, a body is left in the socket, is read as a request line and
ends the connection with a 400 or a 501; the property promises nothing from there on.

### Endpoints

The functions are pure, so the variables are their inputs (the config, nat/DOCKER, the
listening sockets, whether the two can be read) and the actions are what changes those;
the functions are operators, compared with definitions that do not go their way. Text
is reduced to the numbers in a line and the fields of a rule or socket that the code
matches on. A conflict is the rule that causes it; which range it is printed with is
left out. The two loops whose order matters, `parse_config` over the lines and
`allowed_ports` over the ranges, are folds from the left (`ParseConfig`, `AllowedPorts`).

## Checks

All runs are listed in `PROJECT.json` with what they show. Deadlock is not checked:
the clock, the outages and the streams are bounded, a guest that has left never
returns, and a script that has ended may be the last.

| run | instance | properties |
|---|---|---|
| `collector_safety` | 2 guests (symmetric), time 4, 1 outage, 6.1M states | `TypeOK`, `OpenIsRunning`, `ObservedEnds` |
| `collector_ledger` | 1 guest, time 5, 2 outages, 0.4M states | `WindowExact`, `GuessOnlyWhereUnseen`, `RefinesLedger`, `GuestCounted`, `SessionEnds` |
| `collector_thread` | 3 streams | `TypeOK`, `NeverDiesQuietly`, `ReadableIsShared`, `AlwaysReturns`, `InterruptEnds` |
| `collector_stop` | 2 streams | `StopEnds`, violated |
| `stats_answer` | 1 guest, time 4, 1 outage, one window, 6.2M states | `ServerTypeOK`, `NumbersNest`, `StaleSaysSo`, `ConnectedIsDated` |
| `firewall_scripts` | 2 ranges, 3 configs, 2 bridges (symmetric), 2 faults, 1.0M states | `TypeOK`, `AppliedMeansEnforced`, `StuckOnlyIfFailed`, `HooksAreSingle`, `CleanedMeansGone`, `OpenChainsCostFailures`, `DenyFirst` |
| `firewall_rebuild` | 2 bridges, 2 faults | `ChainsNeverOpen`, violated |
| `firewall_cap` | 2 bridges, 2 faults | `CapSeesLogins`, violated |
| `lifecycle_order` | 2 guests, 2 gateways (symmetric), 3 faults, 0.8M states | `TypeOK`, `GuestsRestricted`, `StopRecordsEnds`, `CleanupNotBlocked`, `GatewayIsTheNetworks`, `ServicesComeSecond`, `StartedOnThisRunsConfig` |
| `lifecycle_remove` | 2 guests, 2 gateways, 1 fault | `StoppedMeansNoGuests`, violated |
| `auth_keepalive` | 2 connections with 2 and 1 requests of 8 kinds, 0.3M states | `TypeOK`, `EachItsAnswer`, `EveryoneIsAnswered` |
| `endpoints` | ports 1-2, 2 lines, 1 rule, 1 socket, 0.8M states | `TypeOK`, `FirstPorts`, `NothingShadowedIsMissed` |

Bounds. Sessions never touch each other's rows, so two guests are enough for one to be
opened, closed or replayed while another is listed; four ticks are the least at which
the replay bound (one to two seconds back) hides an event, five let a session end, be
guessed and have its event fall out of the replay's reach, and two outages make a
second stream follow a stream that was itself a recovery. Three streams are one more than `stop` can confuse. Two ranges make the
position of a rule matter; three configs let a re-run drop a range; two bridges let a
hook outlive its network; two faults let one script fail and its successor fail
differently. Scripts may be run any number of times.
Two guests let one be listed by stop.sh while another is not there yet; two gateways let a
network come back with another address; three faults let a cleanup be killed, the next
script fail, and something else happen while that is repaired. One guest and one window
are enough for an answer of `/stats` to disagree with itself: the counts are sums over
sessions that never touch each other's rows. Two connections let one be slow while the
other waits; the second request of a connection is the one that the first can spoil. Two
lines repeat, overlap or follow each other, and two ports let the last cut fall inside a
range (that `min` cuts a range short takes three, which the run cannot afford and the proof
does not need); the answers about shadowing look at one rule and one socket at a time.
The proofs below need none of these bounds: for the properties they cover, the runs
are what found each invariant and what shows, by their mutants, that it says something.

### What they show

Passing runs: the documented order of `follow` (stream first, then list) does lose no
guest and closes none that lives, at every interleaving of the list, the stream and the
guests; a wrong end survives only as a guess whose event no later stream reaches; a
setup that reports success has done what it says or warned of what it did not; deny-first
holds for every step but one; no order of logins, failures, kills and reboots between the
steps of the scripts puts a guest on a network without restrictions, as long as
`docker rm -f` removes what it is told to, and no script brings containerssh up on the
strength of restrictions that an earlier one left. Two things expose guests that run: a firewall
reload, until the restart that the unit file asks for, and a start.sh run again over a
running playground whose setup fails - it "refuses to start" and leaves containerssh and
the guests up over what setup left. No script ever brings containerssh up with a config
that another network, a killed render or docker's directory left behind, and what
containerssh has read names the gateway of the network its guests are on.

An answer of `/stats` is not one snapshot: the counts may be those from before a
reconciliation and `connected` from after it. `StaleSaysSo` says how far that goes - an
answer of "connected" is behind by more than events on their way only if the collector
finished or lost its stream while the answer was read, a moment the next request is past.
The order of the two reads `connected` and `reconciled_at` matters in a server that has
just started (`ConnectedIsDated`). The numbers nest under every interleaving, thanks to
the one lock around the three queries.

`OpenChainsCostFailures` replaces a claim of setup's `main`, that after a failure "the
guests are locked out rather than wide open" (`setup_networking_linux.py:280`): the hooks go
in last, so a first run that fails before them locks nobody out, and start.sh then starts
no service. Once the hooks are in, each failed command or killed script costs at most
one open chain.

Violated runs are claims of a comment, a docstring or a test that the code does not keep
(`findings` in `PROJECT.json`):

* `StopEnds`: `stop()` between the loop's check and the assignment of `_stream` wakes
  nobody; the thread stays in `readline` until docker speaks.
* `ChainsNeverOpen`: rebuilding a chain that is already hooked flushes it one command
  before the DROP goes back in. `DenyFirst` shows this is the only such step.
* `CapSeesLogins`: the cap on ssh connections hangs off INPUT; a connection from the lan to
  the published port is rewritten and forwarded, goes through FORWARD and DOCKER-USER, and is
  never counted. A jump from either of those would satisfy the property.
* `StoppedMeansNoGuests`: a guest that `docker rm -f` could not remove runs on, teardown
  takes its restrictions away, and stop.sh says "playground stopped".

More limits of the code are written into the properties they belong to: a failing
`iptables -L` counts as "no such chain" and a failing `-C` as "no such jump", so
`CleanedMeansGone` and `HooksAreSingle` exclude by name that one did (`misread`), and
`CleanedMeansGone` promises nothing of the ipv6 tables when `ip6tables_available()` failed -
that is, whenever `ip6tables -n -L INPUT` did: teardown then leaves the ipv6 chains and hooks
of an earlier setup where they are and prints "cleanup complete." with exit 0, without the
warning that setup gives in the same case;
`reconcile` reads the clock before it asks docker who is running, so a guessed end may lie
a moment before the real one, and `GuessOnlyWhereUnseen` speaks of when a guess stays and
not of its value; a port the config lists twice is answered twice (`FirstPorts` compares with the
list as it is, not with a set); and a port published for udp or on another address of
the host is reported as a conflict as well, so `NothingShadowedIsMissed` is an
implication in one direction.

### Fairness

`StatsCollector`: weak fairness of the collector's own steps (a thread is scheduled, and
its calls return or raise: the list has a timeout, and a request that hangs forever is
not covered) and of the daemon publishing and subscribing. Nothing is assumed of guests,
and no outage is fair. A crashed server is not restarted by anything in the repository
(`restart: "no"`), so starting it is not fair either, and the liveness properties
are conditional on `StaysUp`: from some point on it is not down.
`CollectorThread`: weak fairness of the thread and of a `stop()` once it is called; not
of docker closing a stream, of a handler raising, or of anyone calling `stop()`. That
`EventsAnswered` or `EventsRaised` follows is again that docker answers a request.
`AuthServer`: weak fairness of each handler, which is a thread of its own and blocks only
in reads. None of the clients: a half-sent request may stay half sent for ever.

## Proofs

Each theorem holds for every value of the constants that satisfies the assumptions
named in the modules, and nothing else is assumed:

| module | theorems | assumed of the constants |
|---|---|---|
| `StatsCollectorProofs` | `TypeCorrect`, `OpenIsRunningAlways`, `ObservedEndsAlways`, `GuessedOnlyWhereUnseen`, `WindowAlwaysExact`, `CollectorImplementsLedger` | any set of guests; `MaxTime` a positive, `MaxOutages` a natural number |
| `StatsServerProofs` | `ServerRunsCollector`, `ServerTypeCorrect`, `NumbersAlwaysNest`, `ConnectedAlwaysDated`, `StaleAlwaysSaysSo` | as above; a window is a positive number, as `parse_window` sees to |
| `CollectorThreadProofs` | `TypeCorrect`, `NeverEverDiesQuietly`, `ReadableAlwaysShared` | `MaxStreams` positive |
| `GuestFirewallProofs` | `TypeCorrect`, `DenyAlwaysFirst`, `AppliedAlwaysEnforced`, `HooksAlwaysSingle`, `CleanedAlwaysGone`, `StuckOnlyAfterFailure`, `OpenChainsAlwaysPaidFor` | any endpoints and bridges; a config is a sequence of endpoints; `MaxFaults` a natural number; `None` is no endpoint |
| `LifecycleProofs` | `TypeCorrect`, `GuestsAlwaysRestricted`, `GatewayAlwaysTheNetworks`, `CleanupNeverBlocked`, `StopAlwaysRecordsEnds`, `ServicesAlwaysSecond`, `AlwaysThisRunsConfig` | any guests; `MaxFaults` a natural number; a gateway is an address, so it is none of the names for a broken or missing config |
| `AuthServerProofs` | `TypeCorrect`, `EachAlwaysItsAnswer` | any connections; a request has a method, a path, an announced length (any integer), a body and a username; what is no usable username is none |
| `EndpointsProofs` | `TypeCorrect`, `FirstPortsAlways`, `NothingShadowedIsEverMissed` | `1 <= MIN_PORT <= MAX_PORT`; the bounds are natural numbers |

Every module but the last rests on an inductive invariant that is stronger than the
properties (`IInv`, proved as `InvariantHolds`; for the server, `ServerInv` beside it). Each part of it has a lemma that every
step keeps it, one case per action.

### The collector

None of the properties is inductive. What they need is what the thread cannot see:
which events are still on their way to it. The invariant says

* `LogInv`: the event log is true to the guests - a start event exactly for those past
  "up", a die event exactly for the dead, the start before the die, with the time
  recorded in `leftAt`;
* `RowInv`: a row agrees with its guest - no row without a guest, an ended row only
  for one that has exited, starts before ends;
* `StreamInv`: the cursor and the replay bound fit the log;
* `IdleInv`, `ListingInv`, `OpeningInv`, `ClosingInv`: at each place of the loop, if a
  row disagrees with its guest, then either the loop still has the guest in hand or the
  stream *will see* the event that settles it (`WillSee`: it is at or after the cursor,
  is not published yet, or is not older than `since` while the stream is not subscribed).

The delicate steps are `ListRunning` (a guest not listed has exited, or its start is still
to come) and `DaemonSubscribes` (what lay at or after `since` lies at or after the
cursor). `OpenIsRunning` is `ClosingInv` at a drained stream; `ObservedEnds` is
`RowInv`, and `WindowExact` follows from both; the refinement maps each store call to `Record`, `Guess`,
`Observe` or a stutter, under `RowInv`.

`GuessOnlyWhereUnseen` needs to know what a stream has passed by, and that is another
invariant, proved on top of the first: until the collector follows, the stream has gone
past nothing newer than its replay bound (`CutInv`), and from then on every die event it
delivers replaces the guess it meets (`GuessInv`).

### The statistics endpoint

`ServerRunsCollector` (`ServerSpec => Spec`) says that the server adds no behaviour:
its steps are steps of the collector and its world, or stutters. All that is proved of
the collector therefore holds beside it. Then: `FiniteInv`, that only finitely many
guests have ever been there, without which a count is not a number; `ShownInv`, that
`connected` is set by a finished reconciliation, which dates it; `CountsInv`, that what
has been read still fits the rows while the lock is held, and nests once it is
released; and `StateInv`, what may be read after a `connected` that was read as true.
`StaleSaysSo` meets the collector's invariant in one lemma, `FollowingIsNotBehind`: a
collector that follows lacks nothing but events on their way.

### The collector thread

`HasStream` and `SharedInv`: from its hand-over to the finally clause the thread's
stream is the one that `stop` would find, and at any other time there is none to find.
`ConnectedInv` and `DoneInv` give `NeverDiesQuietly`: the loop says that it is not
connected on its one way back to the check.

### The guest restrictions

The invariant follows the script through its loops:

* `PlaceInv`, `TablesInv`: where each loop is, and what the tables are;
* `ChainsInv`, `FreshInv`: a chain this run has rebuilt holds, *if it is still there*,
  exactly the rules it should by now - a reload can only take a chain away, and a command
  on a chain that is gone fails, so this needs nothing of the faults;
* `UndisturbedInv`: that the chains are there, hooked to the bridge and reached from
  FORWARD, netfilter sees bridged packets, and the cap is in, unless a warning said
  otherwise or something changed under the script (`disturbed`);
* `GoneInv`, `CleanedInv`, `FaultlessInv`: what teardown has been through is gone, if
  no failed `-L` was misread and it is not in `stuck` (nothing is said of ipv6 behind a failed
  `ip6tables_available()`), and before the first failure
  nothing gets stuck;
* `CostInv`: the open chains that something jumps to (`Charged`) are no more than the
  faults so far - not counting the chain that is being rebuilt, and counting the one
  that teardown is about to flush under a jump.

`AppliedMeansEnforced` then needs what a chain with those rules does to a packet. A
verdict is that of the first rule that matches: `LeastHit` finds that rule (a least
element, from the well-foundedness of the numbers), `ChainDecides` says what it is in a
chain built by setup, and `AllowInOrder` says that the loop over `allow_rules` inserts
them in the order of the config. `OpenChainsCostFailures` counts: `OpenMoves` says which
one chain a step can open, and that it costs a fault.

### The lifecycle

The argument is the order of the scripts' steps, `ScriptsInOrder`. Each part of
`OrderInv` says what the steps so far have made true and no one can undo before the
step that relies on it: containerssh is down from the step that stops it to the one that
starts it (`SshStopped`), so no guest appears behind the list (`Swept`); the network is
there when containerssh starts, this script has restricted it, and the config names it
(`Prepared`); and
neither goes while it is up (`SshFounded`). `StopRecordsEnds` rests on `FaultlessInv`: as
long as nothing has failed, what the collector has applied, or has still to apply, is what
happened to each guest (`Recorded`), and none is told to stop before the guests have
gone (`Watched`, `Quiet`).

### The webhook

The invariant is about one connection, since a step touches no other (`OthersRest`). All
that its client sends is a row of requests whose ends are known (`IsBounds`); what is
unread is all of it but the first so many tokens (`IsUnread`); and these end exactly
where the handler believes a request begins, or where its body does (`HasRead`). Together
this is `Aligned`. It is lost in three ways, none of which lets a wrong answer stand for a
framed request: behind one that was not framed (`OutOfStep`), in one that the client
will never finish (`CutShort`), and once the handler has seen the end (`Over`). There
is one lemma for each step of client and handler (`BeginOK` to `RespondOK`).

### The endpoint functions

The inputs change freely, so nothing but their types is carried from state to state;
the theorems are about the functions.

`FirstPorts` compares two recursions over data: the loop of `allowed_ports`, which cuts
inside a range and skips what comes after it has enough, and `AllPorts`, the ranges laid
end to end. The fold and `FlattenSeq` are functions chosen by the equation they satisfy,
so the first thing to show is that some function does: `FoldExists` builds it from the one
for one index less. `ParseSteps`, `AllowSteps` and `FlatSteps` then give the value after
each step of a loop, and `AllowedIsFirst` goes along the two side by side: what the code
has after n ranges begins the n ranges laid end to end, and is all of them as long as it
has fewer ports than were asked for. `SpanIsPorts` is the step: a cut range is the
beginning of the range and, unless it is the whole of it, has enough ports by itself. The
last cut then gives the first `count` ports, or too few only if there are too few.
The library's induction takes the claim as an operator, which the provers cannot
instantiate; here the claim is membership in a set, and `Induction` follows from the
smallest number outside it (`WFMin`).

For the conflicts, what is parsed are accepted lines and every accepted line is parsed
(`ParseIs`). An accepted line is a range of ports
(`AcceptedIsRange`); a port that a guest is allowed is in one of the ranges (`AllowedIsInRange`);
a rule that rewrites packets to it is a conflict (`RewrittenIsConflict`); and a service that
those packets would have reached is a listener the code finds (`ServedIsListener`).

### Only model-checked

* Liveness: `GuestCounted`, `SessionEnds`, `AlwaysReturns`, `InterruptEnds` and
  `EveryoneIsAnswered`. The prover handles neither fairness nor `ENABLED`.
* That a claim is violated (`StopEnds`, `ChainsNeverOpen`, `CapSeesLogins`,
  `StoppedMeansNoGuests`): these are counterexamples, and a small one is enough.

No module uses RECURSIVE operators.

## Plan

Every component that keeps state or races is modelled, and every safety property of a
passing run is proved. What is left:

1. shorten the long proofs: `GuestFirewallProofs` is written with one case per command,
   and many of those say the same of two families;
2. the same for what is added to the models later: first the invariant checked by a
   run, then its proof.

Not modelled:

* the verification scripts, which observe and change nothing, and the unit tests;
* image builds and the ssh host key: made once, if missing;
* the text of responses, logs, `.env` (`load_ports`) and the config template, and
  `render_config.py hostname`, which prints a name;
* preflight's checks of the host and the polling of `wait_for_tcp`: I/O without state, whose
  outcomes are steps of `Lifecycle`.
