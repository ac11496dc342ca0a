# TLA+ models of lonet (`src/xnet/lonet/__init__.py`)

lonet is a virtual network for tests. Every process joining a lonet network
runs one *subnetwork* (`_SubNetwork`). The subnetwork owns:

- named `Host`s;
- per host, a port table `Host._socketv` of `socket`s, each carrying an
  optional `listener` and an optional `conn`;
- a real loopback listener `_oslistener`, served by a `_serve` thread;
- a registry (a SQLite file shared by all processes) mapping host names to
  `_oslistener` addresses.

Connection setup spans two threads and two sides:

- **Dialing side.** `Host.dial` reserves a source port and queries the
  registry. It then connects to the destination subnetwork's `_oslistener`
  and sends a request line (`_vnet_dial`, `__loconnect`).
- **Accepting side.** `_serve` hands the OS connection to a `_loaccept`
  thread. `_vnet_accept` looks the port up under `host._sockmu`. It then
  rendezvouses with `listener.accept` over the unbuffered channel
  `l._dialq`, racing `l._down`.
- **Accept.** `listener.accept` allocates a port and sends an `Accept` back
  on `resp`. It then waits for `ack`, racing `l._down`. If the listener goes
  down, a `purgesk` goroutine later frees the port.
- **Reply.** The `_loaccept` thread writes `connected <addr>` and sends the
  write's outcome on `ack`.
- **Lines.** The request `> lonet "<network>" dial "<src>" "<dst>"` and the
  reply `< lonet "<network>" <verb> "<arg>"` quote every string with `qq`.
  The reader matches them with the lazy regexes `_lodial_re`/`_loreply_re`,
  decodes the fields with `string_escape`, and splits addresses with
  `Addr.parse`.

Shutdown cascades in this order: `VirtSubNetwork.close` → every
`Host._shutdown` (under `_hostmu`) → every listener and conn in the host's
table → `_vnet_close` (close `_oslistener`, join `_serve`) → registry close.
An OS error of `_oslistener.accept` (an engine failure) makes `_serve` run
the same cascade through `_vnet_down`, from the serve thread itself. The
`_down_once` latch makes the first of the two shutdowns the only one, and a
`close` that finds it taken returns at once.

## Modules

| module | models | source |
|---|---|---|
| `PortAlloc` | the port table as a Python list (0-based, negative indexing, `append` growth) and `Host._allocFreeSocket` as a RECURSIVE scan | `Host._socketv`, `_allocFreeSocket` (578-591), `listen` (362-369), `_vnet_accept` (464-468) |
| `PortAllocMC` | a port table driven by allocation, listen on an explicit port and release; the allocator is checked against the reference definition "lowest p ≥ 1 past the end or empty" | as above |
| `Handshake` | the two handshake lines as token sequences: `qq`, `string_escape`, a matcher for `_lodial_re`/`_loreply_re` with Python's backtracking order, `addrstr4` and `Addr.parse` with `int()`, and `__loaccept`/`__loconnect` from line to outcome | lines 91-92, 605-615, 721-722, 803-858, 878-912, 931-933 |
| `PureMC` | the pure algorithms checked against their references: PortAllocMC's tables, and every handshake of a bounded domain as an initial state | — |
| `VirtNet` | one subnetwork: every operation of VirtSubNetwork, Host, listener and conn; the `_serve`/`_loaccept`/`_vnet_accept` threads; the dialer's handshake; remote lonet processes as an environment | lines 116-925 |
| `ConnAbs` | what the dial/accept rendezvous promises: an accept call takes at most one dial, to its listener's address, and a dial connects only once taken and is never failed once taken | spec 4.4, 4.5 |
| `VirtNetMC` | model values and the port sets for the VirtNet runs | — |
| `Registry` | `DBPool` (get/put/close, the factory) and `SQLiteRegistry` (`_setup`, announce, query, close) as one process uses them, other processes writing the shared hosts table | lines 981-1137 |
| `RegistryMC` | model values for the Registry run | — |
| `XErr` | package xerr: `Error`, its `__str__`, `cause`, `context.__exit__`, `well_defined` as operators (RECURSIVE down the cause chain) and the wde registry as state | `src/xerr/__init__.py` 50-140 |
| `ErrFlow` | lonet's error paths through xerr: join/`_setup`/`_SubNetwork.__init__`, new_host/announce, and a dial with the `_loaccept` thread answering it, to what the caller catches and what `_serve` logs | lines 75-88, 276-279, 455-520, 702-747, 779-947, 958-977, 1068-1127 |

### VirtNet state

- **Per thread.** Each thread has a program counter.
  - Subnet close `cpc` runs idle → hosts → vnet → join → done. It can also
    go to `blocked`: stuck holding `_hostmu`.
  - `newpc` per new_host call.
  - `lcpc` per listen call.
  - `dpc` per dial.
  - `lpc` per `_loaccept` thread.
  - `apc` per accept call.
  - `purge` per purgesk goroutine.
  - `servePc` for `_serve`: its accept loop, then (after an engine failure)
    its own run of `__shutdown` (`hosts`, `blocked`, `vnet`), then `exited`,
    or `died` when the self-join raises.
- **Object names.** Calls and objects are named by the call that made them.
  - `<<"L", lc>>` is the listener of listen call `lc`.
  - `<<"D", d>>` is dial `d`'s source socket and conn.
  - `<<"A", d>>` is the socket and conn that accept allocated for `d`.
- **Port table.** `socketv[n]` is the Python list.
  - A slot is `None` or `[id, lis, conn]`, which mirrors `sk._listener` and
    `sk._conn`.
  - `skof[s]` holds a socket's `_host`, `_port` and the index it sits at.
- **Objects.** `obj[s]` is `none | up | down | closed`. It stands for the
  `_down`/`_close_once` latches of a listener or conn. `peer[s]` is
  `conn._peerAddr`.
- **Wire.** `wire[d]` is the OS connection of dial `d`:
  - its place in the `_oslistener` backlog;
  - whether its request line is well formed;
  - the reply line and the accept port it carries;
  - the ack;
  - whether each end is still open.
- **Host latches.**
  - `hdown` is `Host._down`.
  - `hclosed` is `_close_once`.
  - `locked` means `_sockmu` is held forever.
  - `hostmap`, `nopenhosts`, `ndown`, `registered`, `regOpen` and `oslOpen`
    are the subnetwork's fields and its registry.
- **Down errors.** `aerr[x]` is the error an accept call raised when it found
  its listener down. `ExcDown` is `listener._excDown`: it chooses ErrNetDown,
  ErrHostDown or ErrSockDown from which down channels are ready at that
  moment. `lwhy[lc]` is an auxiliary variable with no counterpart in the
  code. It records what took listener `lc` down: its close, its host's
  close, or a subnet shutdown. Both are written and never read by a guard.
  The safety run therefore uses `VIEW SafetyView`, which leaves them out,
  and explores the same states as without them.

### VirtNet steps

A step runs from one point where another thread can interleave to the next:
a lock, a channel operation or socket I/O. Each action's comment names the
code it stands for, and PROJECT.json `map` gives its lines. The modelled bugs
are described in the action comments:

- `HostClose` keeps `nopenhosts`.
- `ListenerClose` keeps the slot.
- `AcceptAck` does not set `sk._conn`.
- `LoAcceptLookup` can set `locked`.
- `ServeVnetClose` ends the serve thread without closing the registry.

`HostsShutdown` and `VnetClose` are the shutdown steps that close and the
serve thread share. `ServeFail` (`EngineFault`) is enabled by the constant
`EngineFailure`. It is TRUE in the engine and engine_down runs, and FALSE
elsewhere, where it would only enlarge the state space.

Weak fairness is assumed for each running thread's steps: `NewHostStep`,
`ListenStep`, `DialStep`, `LoAcceptStep`, `AcceptStep`, `PurgeStep`,
`ServeStep` and `CloseStep`. An engine failure is never forced. These are Python threads, the `_serve` thread and
pygolang goroutines, and the OS schedules them. User calls (`UserCall`:
new_host, close, listen, accept, dial, conn.close, remote dials) are never
forced to happen.

**Refinement.** `CA == INSTANCE ConnAbs WITH ...` maps the code's state to
the rendezvous a user sees:
- a local dial is pending from `Host.dial` until it returns (`dpc`), and
  connected if it returned a conn (`obj[<<"D", d>>]`);
- an accept call waits from `listener.accept` until it returns (`apc`), on
  the address of its listener (`skof`);
- the accept call has taken the dial whose `dialReq` it received (`areq`).
  A remote dial's request is not a dial of this process, so it maps to
  "nothing taken".

The engine run checks `CA!Spec` as `ConnRefines`. The rendezvous step is
`AcceptRecv`; the dial connects in `DialReply`. The property holds across the
steps between them: `AcceptAlloc`, `LoAcceptReply`, the ack wait and
purgesk, as well as a listener close or a shutdown in between. This works
because purgesk waits for the ack and so never closes the OS connection
before the "connected" reply is written.

### Registry

- **State.** `connv` is `DBPool._connv` (pop and append at its end).
  `cst[k]` is sqlite connection `k`: new, open or closed. Per client thread:
  `pc` (idle → open → use → put), the connection it `held`s and its `op`.
  `cpc`/`toclose` are `DBPool.close` and the list it took under the lock.
  `meta`/`hosts` are the two tables of the shared file.
- **Steps.** `Get` is the locked part of `DBPool.get`: refuse on a closed
  pool, pop, or leave the lock to call the factory (`Open`). `Use` is the
  announce or query statement. `Put` appends under the lock or, on a closed
  pool, closes the connection after it. `Close` clears the list under the
  lock; `CloseConn` closes one taken connection per step.
- **Setup.** `_setup` runs in autocommit mode, so a schema version or network
  mismatch raises after the earlier `INSERT OR REPLACE` is stored.
- **Fairness.** Weak fairness on the steps of a thread already inside a call
  (`Open`, `Use`, `Put`, `CloseConn`); calls themselves are not forced.

### Handshake

- **Tokens.** A line is a sequence of tokens. A byte of a name or an
  address is one token. A fixed word (`lonet`, `dial`, `connected`, `E`)
  or a fixed error text is one token. No word contains a quote, a backslash
  or whitespace, and none is directly followed by a quote. A regex group
  could end inside a word only where its next literal (a quote or a space)
  cannot match, so the token matches are those of the bytes.
- **Regexes.** `Match` runs a pattern of literals, lazy `.*?[^\\]` groups
  (shortest first, no newline before the last byte) and a greedy `[^\s]+`
  (longest first), returning the first match in Python's order.
- **Outcome.** `Exchange` writes the request, runs `loaccept` on it with
  `_vnet_accept`'s outcome as input, writes the reply, and runs `loconnect`
  on it. The dial ends connected, refused (`ErrConnRefused`), with an
  `Error` carrying the acceptor's text, or with a `protocolError`.
- **Reference.** `SpecExchange` (PureMC) is spec 4.8's handshake: parse both
  addresses, refuse one that cannot be parsed, report `vnet_accept`'s
  outcome.
- **Left out.** `skreadline`'s 1024-byte cut. No line of the checked domain
  comes near it.

### ErrFlow

- **Values.** An exception is a record: its class, its identity (the name
  of a module-level error object such as `ErrConnRefused`, or none), the
  text `"%s" % e` gives, and for an `Error` its `.err`, `.cause_exc` and
  whether `.cause_tb` is set. `Str(e)` is `Error.__str__` as the sequence of
  `": "`-joined pieces, with `"cause traceback"` as the last piece when it
  is appended. A `RegistryError` keeps its `.err` and renders
  `registry: op args: str(err)`.
- **State.** `wdeClassv`/`wdeObjectv` are xerr's `_wde_classv`/`_wde_objectv`.
  `ImportLonet` makes lonet's module-body registrations one at a time.
  - The dial's `dpc` runs idle → connect → send → read → unwind → done.
  - The `_loaccept` thread's `apc` runs read → lookup → ereply/reply →
    unwind → done.
  - `req`/`reply` are the handshake lines. `dOpen`/`aOpen` are the two ends of
    the OS connection.
  - `derr`, `nerr` and `jerr` are what the callers of dial, new_host and join
    catch, and `logged` is what `_serve` logs.
- **Choices.** The `*Outcomes` constants enumerate where the code can fail:
  - the registry: a mismatch, a duplicate, or a database error;
  - binding the OS listener in `_SubNetwork.__init__` (join outcome
    `"bind"`): the code closes the registry (the model does not track it) and the bare socket error, not
    well-defined, reaches join's errctx and renders with a traceback;
  - `connect`;
  - `_vnet_accept`: no such host, refused, or the IndexError of
    `sockmu_leak`.
  
  Either process may die mid-handshake. A reply written to a dead peer may
  fail.
- **Steps.** Each step ends where another thread can observe something: a
  line written or read, or the connection closed. An unwinding through
  several frames is one step (`DialUnwind`, `AcceptUnwind`). Nothing else
  can interleave in it.
- **Not here.** The errctx of listen, accept and close, and protocol errors.
  The model's peers are lonet's own code, which always sends well-formed
  lines, so `eproto` and the `acceptAddr` branch of `__loconnect` cannot
  be reached. That branch formats the unbound `acceptAddr`, which would
  raise `UnboundLocalError` against a foreign peer.

## Runs

| run | cfg | shows |
|---|---|---|
| pure | `PureMC.cfg` | `AllocIsLowestFree`: over all tables up to 7 slots, `_allocFreeSocket` returns the lowest free positive port, and the slot exists and is empty. `HandshakeRoundTrip`: the whole request/reply exchange ends as spec 4.8 says for every network name that is non-empty and does not end in a backslash (quotes, backslashes, spaces and newlines inside a name round-trip). Every dial on any other name fails with "invalid dial reply", because `.*?[^\\]"` cannot end a field whose quoted form ends in `\\` (line 721). That diverges from spec 8's round-trip invariant, and is reachable by joining a network whose name ends in a backslash. A host name holding a colon is refused as an invalid address. 30k states |
| safety | `VirtNetMC.cfg` | `SocketsExclusive`: no port slot is shared or freed from under its user. `ConnEndsMatch`: both ends of every connection agree on addresses, and no accepted OS connection is left open without an owner. Dials go to ports -1 and 1. 820k states, about 2 minutes |
| live | `VirtNetLive.cfg` | `ListenerCloseReleasesWaiters`: closing a listener wakes every accept, `_loaccept` and purgesk waiting on it for a remote dial, which may crash mid-handshake. 29k states |
| engine | `VEngine.cfg` | An engine failure is possible at any point. The `_serve` thread then shuts every host down concurrently with user calls and with `close`. `ConnEndsMatch`, `ListenerCloseReleasesWaiters` and `ConnRefines` (VirtNet implements `ConnAbs`) still hold. `DownErrorNamesCause`: an accept that fails on a down listener names a cause at least as far out as what took the listener down. That is ErrNetDown after a subnet shutdown, and never ErrSockDown after its host's close. Ports {0, 1}, no remote dial. 31k states |
| registry | `RegistryMC.cfg` | `ConnOwnership`: every open sqlite connection has exactly one owner (the free list, one client, or close's list) while get, put and close race. `NoConnLeak`: after close, every connection is eventually closed, those opened around the close by their put. 41k states |
| nopenhosts | `VNOpenHosts.cfg` | violated: `Host.close` never decrements `nopenhosts` (line 322, `_nopenHosts` typo) |
| slot_invariant | `VSlots.cfg` | violated: spec 8's table invariant (every occupied index p > 0 holds a socket of port p that is in use). The trace is `listener.close` leaving its socket in the table (line 396, `sk.port`). The same cfg also reaches `listen(":-1")` installing port -1 at index 1 (lines 362-369) |
| shutdown_final | `VShutdownFinal.cfg` | violated: `ShutdownIsFinal`, which says nothing is up beneath a shut-down host or subnetwork, and every live conn is attached where `Host._shutdown` reaches it. The trace shows `new_host` racing `close`, which leaves a live host in a closed subnetwork (278-288). The same cfg also reaches a listener installed on a host shut down between `listen`'s down check and its lock (354-357). It also reaches an accepted conn stored as `sk.conn`, where host shutdown cannot reach it (449) |
| engine_down | `VEngineDown.cfg` | violated: `DownClosesRegistry`. After an engine failure, `_vnet_close` runs in the serve thread and `n._tserve.join()` raises there (753), so the registry is never closed |
| errflow | `ErrFlowMC.cfg` | `RefusedDialReport`: a refused dial fails with cause `ErrConnRefused` and message `dial ...: [Errno 111] connection refused`, as `lonet_test.py` asserts. `ServeLogPolicy`: `_serve` logs every failed handshake except a refusal the dialer was told about. `BugsCarryTraceback`: an error whose cause is not well-defined keeps its traceback through every wrapper, a join whose OS-listener bind failed included. 338 states |
| join_mismatch | `EFJoinMismatch.cfg` | violated: a join refused for a schema version mismatch fails with `AttributeError` (`r._schema_ver`, line 1090). One refused for a network mismatch renders a cause traceback, because `RegistryError` is never registered as well-defined (line 958; spec 7) |
| sockmu_leak | `VSockmuLeak.cfg` | violated: a dial to port -1 of a host with an empty table leaks `_sockmu`; a later lookup on that host never completes (462-468) |

### Bounds

- **Hosts.** One host `a`. Cross-host behaviour adds nothing: every
  operation locks one host only.
- **Calls.** One listen call, one accept call, one local dial and one remote
  dial (two in `sockmu_leak`). The live run has only the remote dial and
  the engine run only the local one. Together they check
  `ListenerCloseReleasesWaiters` for both kinds of dial. With both dials
  in one liveness run, the run outgrows the time limit: two remote dials
  take 6.5 minutes.
- **Ports.** Listen ports (`Ports`) are {-1, 0, 1}. 0 allocates; 1 is an
  explicit port; -1 reaches the negative-index paths. Dial ports
  (`DialPorts`) are the same set, except in the safety run, which dials
  {-1, 1}. A dial to port 0 is refused exactly like a dial to a port with
  no listener, because slot 0 never holds a socket. Leaving it out makes
  the run 40% smaller and loses no path.
- **Table size.** `MaxSock = 4` table slots. Slot 0 is never used, so 4 slots
  hold a listener, a dialer's socket and an accepted socket. That is every
  socket the calls above can hold at once, so the bound never cuts a
  behaviour off. The liveness run uses ports {0, 1}; with -1 the leaked lock
  blocks waiters by design.
- **Registry.** Two clients with two calls each, two names, and
  `MaxConns = 5` connections. The run reaches the same 41,296 states with 6,
  so no behaviour is cut off. Two clients are enough for a get to race close
  and for a put to race another client's get.
- **ErrFlow.** Every outcome the code distinguishes is in the `*Outcomes`
  sets. The error values are finite because each path wraps a bounded
  number of times.
- **Handshake.** Network names are every string of up to 3 bytes over
  {a, quote, backslash, space, newline}. Host names are every string of up
  to 1 byte over {a, colon, backslash}. Ports are 1 and -1, and all three
  `_vnet_accept` outcomes are included. Three bytes put a quote or
  backslash before, after and between other bytes, and an escaped and an
  unescaped quote next to each other. That is every way a field's end can
  be misread. 29,952 handshakes.
- **Completeness.** Coverage shows every action and every disjunct of `Next`
  taken in the safety run, and the engine run takes
  `ServeFail`, `ServeShutdownHosts` and `ServeVnetClose`.

### Mutants

Each passing property has a mutant in the module, defined before the
definition it replaces:

VirtNet has no type invariant. Its fields range over the small sets its
actions write, and the socket table's length is held by a model bound, so
no plausible bug in the code could break one. The properties it does check
are about the table and the connections.

| property | mutant |
|---|---|
| `TypeOK` (pure run) | `GrowOneMore`: the append loop off by one |
| `AllocIsLowestFree` | `AllocGrowShort` |
| `HandshakeRoundTrip` | `ReplyLineUnquoted`: reply() writes the network name without `qq` |
| `SocketsExclusive` | `OccupiedNonNeg`: negative ports never found in use |
| `ConnEndsMatch` | `AcceptAllocListenerPort`: the listener's address sent back instead of the new socket's |
| `ListenerCloseReleasesWaiters` | `AcceptAckDownNoPurge`: no purgesk spawned |
| `ConnEndsMatch`, `ListenerCloseReleasesWaiters` (engine run) | the same two mutants, under `VEngine.cfg` |
| `DownErrorNamesCause` | `ExcDownHostFirst`: `_excDown` checks the host's down before the subnetwork's |
| `ConnRefines` | `PurgeSkNoAck`: purgesk closes the accepted OS connection without waiting for the ack, so a dial that was taken fails |
| `TypeOK` (errflow run) | `EreplyWrapFirst`: ereply wraps as BUG before replying |
| `RefusedDialReport` | `loconnect_exit_always`: `_loconnect` wraps ErrConnRefused too |
| `ServeLogPolicy` | `AcceptUnwindNoCause`: `_serve` tests the error, not its cause |
| `BugsCarryTraceback` | `DialUnwindNoTb`: dial's except drops the traceback |
| `TypeOK` (registry run) | `PutNoHold`: put forgets the connection before appending it |
| `ConnOwnership` | `CloseKeepsPool`: close leaves the free list in place |
| `NoConnLeak` | `PutAlwaysPools`: put appends even to a closed pool |

## Not modelled (yet), and the plan

1. **Composition.** Registry is checked on its own; VirtNet uses the
   `registered`/`regOpen` abstraction, one atomic step per registry call.
   No refinement is checked between the two: Registry's `get` may pass its
   check before close and run its statement after it, which VirtNet's
   atomic step does not show; no VirtNet property depends on that order.
2. **Connection lifetime in ConnAbs.** `ConnAbs` covers the rendezvous
   only. After it, a conn wraps the OS socket, and its close and shutdown
   are checked by `ConnEndsMatch` and `ShutdownIsFinal`, not by the
   abstract spec. `ConnRefines` is checked with ports {0, 1}. A dial to
   port -1 looks up the last slot of the table (the negative-index hazard
   at line 362), so it can meet a listener at another address.

Also left out:

- `join()`'s temp directory (pure file-system I/O). Join's registry setup
  and its errors are in Registry and ErrFlow, and so is
  `_SubNetwork.__init__`'s failure to bind the OS listener.
- The registry's `DBPool` connections. `SQLiteRegistry.__init__` leaves its
  pool open when `_setup` raises, while `_SubNetwork.__init__` closes the
  registry when the bind fails (hazard at line 1062; no property).
- `VirtSubNetwork.host`, `autoclose()` and the address getters (they change
  no state, or only raise).
- Dial address parse errors. They take the same `DialFail` path as a
  registry miss.
- Test code.
