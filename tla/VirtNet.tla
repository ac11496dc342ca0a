------------------------------ MODULE VirtNet ------------------------------
(***************************************************************************)
(* One lonet subnetwork of src/xnet/lonet/__init__.py: the virtnet layer   *)
(* (VirtSubNetwork, Host, socket, listener, conn), the dial/accept         *)
(* rendezvous and the lonet handshake run over the OS loopback listener.   *)
(*                                                                         *)
(* Every call of a user thread has an identity from a small set and a      *)
(* program counter; a step is the code between two points where another   *)
(* thread can interleave (a lock, a channel operation, socket I/O).        *)
(* Sockets, listeners and conns are named by the call that made them:      *)
(* <<"L", lc>> the socket/listener of listen call lc, <<"D", d>> the       *)
(* source socket/conn of dial d, <<"A", d>> the socket/conn accept()       *)
(* allocated for the request of dial d.                                   *)
(***************************************************************************)
EXTENDS Integers, Sequences, FiniteSets, PortAlloc

CONSTANTS
    Names,        \* host names new_host is called with
    LocalDials,   \* Host.dial calls made by threads of this process
    RemoteDials,  \* dials arriving from the lonet processes of other subnetworks
    RemoteHost,   \* the host name remote dials come from
    Listens,      \* Host.listen calls
    Accepts,      \* listener.accept calls
    Ports,        \* ports that appear in addresses given to listen
    DialPorts,    \* ports that appear in addresses given to dial
    MaxSock,      \* bound on len(Host._socketv)
    EngineFailure \* whether _oslistener.accept may raise an OS error

ASSUME LocalDials \cap RemoteDials = {}
ASSUME RemoteHost \notin Names
ASSUME MaxSock \in Nat \ {0}
ASSUME EngineFailure \in BOOLEAN

Dials == LocalDials \cup RemoteDials
Sid   == ({"L"} \X Listens) \cup ({"D", "A"} \X Dials)
Addr  == [host : Names \cup {RemoteHost}, port : Int]

VARIABLES
    hostmap,     \* VirtSubNetwork._hostmap (the names it holds)
    nopenhosts,  \* VirtSubNetwork._nopenhosts
    ndown,       \* VirtSubNetwork._down fired
    registered,  \* host names announced in the registry
    regOpen,     \* the registry's DBPool is not closed
    oslOpen,     \* _SubNetwork._oslistener is not closed
    servePc,     \* the _serve thread: "loop", its __shutdown, "exited" | "died"
    cpc,         \* the thread running VirtSubNetwork.close
    newpc,       \* new_host(n): "idle" | "announced" | "done"
    hdown,       \* Host._down fired
    hclosed,     \* Host._close_once done
    locked,      \* Host._sockmu acquired and never released
    socketv,     \* Host._socketv: Python list of None | [id, lis, conn]
    skof,        \* the socket's (_host, _port) and the list index it sits at
    obj,         \* listener/conn object: "none" | "up" | "down" | "closed"
    peer,        \* conn._peerAddr
    lcpc,        \* listen call: "idle" | "locked" | "done"
    lcarg,       \* listen call: host and requested port
    dpc,         \* dial: "idle" | "query" | "connect" | "reply" | "done"
    darg,        \* dial: source host and destination address
    wire,        \* the OS connection of a dial and the handshake on it
    lpc,         \* _loaccept thread serving a dial's OS connection
    llis,        \* the listener _vnet_accept found for the dial
    apc,         \* accept call: "idle" | "recv" | "alloc" | "ack" | "done"
    alis,        \* the listener an accept call runs on
    areq,        \* the dialReq the accept call received
    purge,       \* purgesk goroutine of an accept call is running
    aerr,        \* the down error an accept call raised: ErrNetDown | ErrHostDown | ErrSockDown
    lwhy         \* auxiliary: what took a listener down: "sock" | "host" | "net"

vars == <<hostmap, nopenhosts, ndown, registered, regOpen, oslOpen, servePc,
          cpc, newpc, hdown, hclosed, locked, socketv, skof, obj, peer, lcpc,
          lcarg, dpc, darg, wire, lpc, llis, apc, alis, areq, purge, aerr, lwhy>>

-----------------------------------------------------------------------------
(* Sockets *)

\* a slot holding socket s with sk._listener / sk._conn set or not
Sock(s, lis, conn) == [id |-> s, lis |-> lis, conn |-> conn]

\* socket(h, port) installed at list index i, for object s
Install(n, sv, i, port, s, lis) ==
    /\ socketv' = [socketv EXCEPT ![n] = SetSlot(sv, i, Sock(s, lis, FALSE))]
    /\ skof' = [skof EXCEPT ![s] = [host |-> n, port |-> port, idx |-> i]]

\* with h._sockmu: sk = h._allocFreeSocket(), for object s
AllocFor(n, s, lis) ==
    /\ Len(AllocGrow(socketv[n])) <= MaxSock
    /\ Install(n, AllocGrow(socketv[n]), AllocPort(socketv[n]),
               AllocPort(socketv[n]), s, lis)

\* with h._sockmu: h._socketv[sk._port] = None (a Python index)
Release(s) ==
    socketv' = [socketv EXCEPT ![skof[s].host] =
                    SetSlot(@, PyIndex(@, skof[s].port), None)]

\* variant: the occupancy test of a non-negative index only (a negative
\* port never found in use)
OccupiedNonNeg(sv, p) == 0 <= p /\ p < Len(sv) /\ Slot(sv, p) # None

\* socketv[p] holds a socket (p a possibly negative Python index)
Occupied(sv, p) == PyInRange(sv, p) /\ Slot(sv, PyIndex(sv, p)) # None

\* socketv[p] holds a socket with sk._listener set
HasListener(sv, p) == Occupied(sv, p) /\ Slot(sv, PyIndex(sv, p)).lis

\* the address socket.addr() gives
AddrOf(s) == [host |-> skof[s].host, port |-> skof[s].port]

\* the objects a slot of n's table refers to through sk._listener / sk._conn
Attached(n) ==
    {Slot(socketv[n], i).id :
        i \in {j \in 0..Len(socketv[n]) - 1 :
                 Slot(socketv[n], j) # None
                 /\ (Slot(socketv[n], j).lis \/ Slot(socketv[n], j).conn)}}

\* conn._shutdown closes conn._netsk: the dial's end for <<"D", d>>, the
\* accepting end for <<"A", d>>
CloseNetsk(w, ids) ==
    [d \in Dials |-> [w[d] EXCEPT !.cliOpen = @ /\ <<"D", d>> \notin ids,
                                  !.srvOpen = @ /\ <<"A", d>> \notin ids]]

\* Host._shutdown of the hosts ns: fire h._down, then under h._sockmu shut
\* down every conn and listener the table refers to (a host whose _sockmu
\* is held forever gets no further than firing h._down).  why records, for
\* the listeners taken down, whether a host or the subnetwork went down.
ShutdownHosts(ns, why) ==
    LET ids == UNION {Attached(n) : n \in {m \in ns : ~locked[m]}}
        up  == {s \in ids : obj[s] = "up"}
    IN  /\ hdown' = [n \in Names |-> hdown[n] \/ n \in ns]
        /\ obj' = [s \in Sid |-> IF s \in up THEN "down" ELSE obj[s]]
        /\ wire' = CloseNetsk(wire, up)
        /\ lwhy' = [lc \in Listens |-> IF <<"L", lc>> \in up THEN why ELSE lwhy[lc]]

-----------------------------------------------------------------------------
(* VirtSubNetwork and Host *)

\* new_host(n), up to the announce: _vnet_newhost announces n in the
\* registry; a closed registry pool fails the call.  (A duplicate announce
\* cannot happen here: each name is announced by one call only.)
NewHost(n) ==
    /\ newpc[n] = "idle"
    /\ \/ /\ regOpen
          /\ registered' = registered \cup {n}
          /\ newpc' = [newpc EXCEPT ![n] = "announced"]
       \/ /\ ~regOpen
          /\ newpc' = [newpc EXCEPT ![n] = "done"]
          /\ UNCHANGED registered
    /\ UNCHANGED <<hostmap, nopenhosts, ndown, regOpen, oslOpen, servePc, cpc,
                   hdown, hclosed, locked, socketv, skof, obj, peer, lcpc, lcarg,
                   dpc, darg, wire, lpc, llis, apc, alis, areq, purge, aerr, lwhy>>

\* n._hostmu is held forever: a __shutdown blocked in its host loop
HostmuStuck == cpc = "blocked" \/ servePc = "blocked"

\* new_host(n), after the announce: with n._hostmu insert the new Host.
\* Nothing here looks at n._down ("XXX check err due to subnet down").
NewHostInsert(n) ==
    /\ newpc[n] = "announced"
    /\ ~HostmuStuck
    /\ hostmap' = hostmap \cup {n}
    /\ nopenhosts' = nopenhosts + 1
    /\ newpc' = [newpc EXCEPT ![n] = "done"]
    /\ UNCHANGED <<ndown, registered, regOpen, oslOpen, servePc, cpc, hdown,
                   hclosed, locked, socketv, skof, obj, peer, lcpc, lcarg, dpc,
                   darg, wire, lpc, llis, apc, alis, areq, purge, aerr, lwhy>>

\* Host.close: h._shutdown() and, deferred, h._close_once.do(autoclose).  The
\* deferred function takes n._hostmu and reads n._nopenHosts, an attribute
\* VirtSubNetwork never sets (it has _nopenhosts): it raises AttributeError
\* before decrementing, so nopenhosts and autoclose are left as they are.
\* The call hangs, and _close_once stays in progress, when the shutdown
\* blocks on an h._sockmu held forever or n._hostmu is held forever.
HostClose(n) ==
    /\ n \in hostmap
    /\ ~hclosed[n]
    /\ IF hdown[n] THEN UNCHANGED <<hdown, obj, wire, lwhy>> ELSE ShutdownHosts({n}, "host")
    /\ hclosed' = [hclosed EXCEPT ![n] = (hdown[n] \/ ~locked[n]) /\ ~HostmuStuck]
    /\ UNCHANGED <<hostmap, nopenhosts, ndown, registered, regOpen, oslOpen,
                   servePc, cpc, newpc, locked, socketv, skof, peer, lcpc,
                   lcarg, dpc, darg, lpc, llis, apc, alis, areq, purge, aerr>>

\* VirtSubNetwork.close -> __shutdown(None, withHosts=True): the _down_once
\* latch and n._down.close().  If _vnet_down took the latch first, close
\* returns at once.
SubnetClose ==
    /\ cpc = "idle"
    /\ IF ndown THEN cpc' = "latched" ELSE cpc' = "hosts"
    /\ ndown' = TRUE
    /\ UNCHANGED <<hostmap, nopenhosts, registered, regOpen, oslOpen, servePc,
                   newpc, hdown, hclosed, locked, socketv, skof, obj, peer,
                   lcpc, lcarg, dpc, darg, wire, lpc, llis, apc, alis, areq,
                   purge, aerr, lwhy>>

\* __shutdown's host loop: with n._hostmu, host._shutdown() for every host
\* of the map not yet down, in dict order, then next (ok) or, when a host's
\* _sockmu is held forever, stuck (blocked) after firing its h._down with
\* n._hostmu held: the hosts before it are shut down, those after it never
\* are, and __shutdown never returns.
HostsShutdown(next, stuck) ==
    LET todo == {n \in hostmap : ~hdown[n]} IN
    \/ /\ \A n \in todo : ~locked[n]
       /\ ShutdownHosts(todo, "net")
       /\ next
    \/ \E m \in todo, before \in SUBSET todo :
       /\ locked[m]
       /\ m \notin before
       /\ \A k \in before : ~locked[k]
       /\ ShutdownHosts(before \cup {m}, "net")
       /\ stuck

SubnetShutdownHosts ==
    /\ cpc = "hosts"
    /\ HostsShutdown(cpc' = "vnet", cpc' = "blocked")
    /\ UNCHANGED <<hostmap, nopenhosts, ndown, registered, regOpen, oslOpen,
                   servePc, newpc, hclosed, locked, socketv, skof, peer, lcpc,
                   lcarg, dpc, darg, lpc, llis, apc, alis, areq, purge, aerr>>

\* _vnet_close: n._oslistener.close(); connections still in its backlog are
\* reset.
VnetClose ==
    /\ oslOpen' = FALSE
    /\ wire' = [d \in Dials |-> IF wire[d].os = "backlog"
                                THEN [wire[d] EXCEPT !.os = "reset"]
                                ELSE wire[d]]

SubnetVnetClose ==
    /\ cpc = "vnet"
    /\ VnetClose
    /\ cpc' = "join"
    /\ UNCHANGED <<hostmap, nopenhosts, ndown, registered, regOpen, servePc,
                   newpc, hdown, hclosed, locked, socketv, skof, obj, peer,
                   lcpc, lcarg, dpc, darg, lpc, llis, apc, alis, areq, purge, aerr, lwhy>>

\* n._tserve.join(), then n._registry.close() closes the DBPool.
SubnetJoinServe ==
    /\ cpc = "join"
    /\ servePc \in {"exited", "died"}
    /\ regOpen' = FALSE
    /\ cpc' = "done"
    /\ UNCHANGED <<hostmap, nopenhosts, ndown, registered, oslOpen, servePc,
                   newpc, hdown, hclosed, locked, socketv, skof, obj, peer,
                   lcpc, lcarg, dpc, darg, wire, lpc, llis, apc, alis, areq,
                   purge, aerr, lwhy>>

-----------------------------------------------------------------------------
(* Host.listen and listener.close *)

\* Host.listen up to taking h._sockmu: a down host (or subnetwork) raises;
\* otherwise the call goes on to lock the table.  The check is made before
\* the lock is taken.
Listen(lc, n, p) ==
    /\ lcpc[lc] = "idle"
    /\ n \in hostmap
    /\ lcarg' = [lcarg EXCEPT ![lc] = [host |-> n, port |-> p]]
    /\ lcpc' = [lcpc EXCEPT ![lc] = IF hdown[n] THEN "done" ELSE "locked"]
    /\ UNCHANGED <<hostmap, nopenhosts, ndown, registered, regOpen, oslOpen,
                   servePc, cpc, newpc, hdown, hclosed, locked, socketv, skof,
                   obj, peer, dpc, darg, wire, lpc, llis, apc, alis, areq, purge, aerr, lwhy>>

\* Host.listen under h._sockmu.  Port 0 allocates the lowest free port; a
\* positive port grows the table to hold it; a negative port indexes the
\* list from its end (IndexError when out of range) and the socket keeps the
\* negative port.  An occupied slot raises ErrAddrAlreadyUsed (the table
\* stays grown).
ListenLocked(lc) ==
    LET n  == lcarg[lc].host
        p  == lcarg[lc].port
        s  == <<"L", lc>>
        sv == IF p > 0 THEN Grow(socketv[n], p + 1) ELSE socketv[n]
        i  == PyIndex(sv, p)
    IN
    /\ lcpc[lc] = "locked"
    /\ ~locked[n]
    /\ lcpc' = [lcpc EXCEPT ![lc] = "done"]
    /\ \/ /\ p = 0
          /\ AllocFor(n, s, TRUE)
          /\ obj' = [obj EXCEPT ![s] = "up"]
       \/ /\ p # 0
          /\ Len(sv) <= MaxSock
          /\ PyInRange(sv, p)
          /\ ~Occupied(sv, p)
          /\ Install(n, sv, i, p, s, TRUE)
          /\ obj' = [obj EXCEPT ![s] = "up"]
       \/ /\ p # 0
          /\ Len(sv) <= MaxSock
          /\ ~PyInRange(sv, p) \/ Occupied(sv, p)
          /\ socketv' = [socketv EXCEPT ![n] = sv]
          /\ UNCHANGED <<skof, obj>>
    /\ UNCHANGED <<hostmap, nopenhosts, ndown, registered, regOpen, oslOpen,
                   servePc, cpc, newpc, hdown, hclosed, locked, peer, lcarg,
                   dpc, darg, wire, lpc, llis, apc, alis, areq, purge, aerr, lwhy>>

\* listener.close: l._shutdown(), then once: with h._sockmu clear
\* sk._listener and, the socket being empty, evaluate h._socketv[sk.port]
\* -- socket has no attribute "port" (it is _port): AttributeError, and the
\* slot is never set to None.  Like conn.close it waits for h._sockmu, which
\* is never held forever on a host that has a listener.
ListenerClose(lc) ==
    LET s == <<"L", lc>>
        n == skof[s].host
    IN
    /\ obj[s] \in {"up", "down"}
    /\ ~locked[n]
    /\ obj' = [obj EXCEPT ![s] = "closed"]
    /\ lwhy' = IF obj[s] = "up" THEN [lwhy EXCEPT ![lc] = "sock"] ELSE lwhy
    /\ socketv' = [socketv EXCEPT ![n] =
                      SetSlot(@, skof[s].idx, Sock(s, FALSE, FALSE))]
    /\ UNCHANGED <<hostmap, nopenhosts, ndown, registered, regOpen, oslOpen,
                   servePc, cpc, newpc, hdown, hclosed, locked, skof, peer,
                   lcpc, lcarg, dpc, darg, wire, lpc, llis, apc, alis, areq,
                   purge, aerr>>

-----------------------------------------------------------------------------
(* Host.dial and the dialing end of the lonet handshake *)

\* a fresh OS connection to the subnetwork's _oslistener carrying a dial
\* request line ("ok", or "bad": not matching _lodial_re, wrong network or
\* an unparsable address)
Connected(line) == [os |-> "backlog", line |-> line, reply |-> "none", port |-> 0,
                    ack |-> "none", cliOpen |-> TRUE, srvOpen |-> TRUE]

\* the dial's src as the request line carries it
SrcAddr(d) == IF d \in LocalDials THEN AddrOf(<<"D", d>>)
              ELSE [host |-> RemoteHost, port |-> 1]

\* the except branch of Host.dial: with h._sockmu: h._socketv[sk._port] = None
DialFail(d) ==
    /\ ~locked[darg[d].src]
    /\ Release(<<"D", d>>)
    /\ dpc' = [dpc EXCEPT ![d] = "done"]

\* Host.dial: with h._sockmu reserve the lowest free port as source socket.
\* Neither h._down nor n._down is looked at ("XXX cancel on host shutdown").
Dial(d, n, dst) ==
    /\ dpc[d] = "idle"
    /\ n \in hostmap
    /\ ~locked[n]
    /\ AllocFor(n, <<"D", d>>, FALSE)
    /\ darg' = [darg EXCEPT ![d] = [src |-> n, dst |-> dst]]
    /\ dpc' = [dpc EXCEPT ![d] = "query"]
    /\ UNCHANGED <<hostmap, nopenhosts, ndown, registered, regOpen, oslOpen,
                   servePc, cpc, newpc, hdown, hclosed, locked, obj, peer,
                   lcpc, lcarg, wire, lpc, llis, apc, alis, areq, purge, aerr, lwhy>>

\* n._registry.query(dst.host): None raises ErrNoHost, a closed DBPool
\* raises RuntimeError; both take the except branch.
DialQuery(d) ==
    /\ dpc[d] = "query"
    /\ IF regOpen /\ darg[d].dst.host \in registered
       THEN dpc' = [dpc EXCEPT ![d] = "connect"] /\ UNCHANGED socketv
       ELSE DialFail(d)
    /\ UNCHANGED <<hostmap, nopenhosts, ndown, registered, regOpen, oslOpen,
                   servePc, cpc, newpc, hdown, hclosed, locked, skof, obj,
                   peer, lcpc, lcarg, darg, wire, lpc, llis, apc, alis, areq,
                   purge, aerr, lwhy>>

\* _vnet_dial: connect to the registered osladdr (the _oslistener of this
\* subnetwork) and send "> lonet ... dial src dst"; a closed listener
\* refuses the connection.
DialConnect(d) ==
    /\ dpc[d] = "connect"
    /\ IF oslOpen
       THEN /\ wire' = [wire EXCEPT ![d] = Connected("ok")]
            /\ dpc' = [dpc EXCEPT ![d] = "reply"]
            /\ UNCHANGED socketv
       ELSE DialFail(d) /\ UNCHANGED wire
    /\ UNCHANGED <<hostmap, nopenhosts, ndown, registered, regOpen, oslOpen,
                   servePc, cpc, newpc, hdown, hclosed, locked, skof, obj,
                   peer, lcpc, lcarg, darg, lpc, llis, apc, alis, areq, purge, aerr, lwhy>>

\* __loconnect reads the reply line.  "connected <addr>": Host.dial creates
\* conn(sk, acceptAddr, osconn) and with h._sockmu sets sk._conn.  "E ..."
\* or EOF/reset before a line: _loconnect closes osconn, the except branch
\* of Host.dial releases the port.
DialReply(d) ==
    LET w == wire[d]
        s == <<"D", d>>
        n == darg[d].src
    IN
    /\ d \in LocalDials
    /\ dpc[d] = "reply"
    /\ \/ /\ w.reply = "connected"
          /\ ~locked[n]
          /\ socketv' = [socketv EXCEPT ![n] = SetSlot(@, skof[s].idx, Sock(s, FALSE, TRUE))]
          /\ obj' = [obj EXCEPT ![s] = "up"]
          /\ peer' = [peer EXCEPT ![s] = [host |-> darg[d].dst.host, port |-> w.port]]
          /\ dpc' = [dpc EXCEPT ![d] = "done"]
          /\ UNCHANGED wire
       \/ /\ \/ w.reply \in {"refused", "error"}
             \/ w.reply = "none" /\ (w.os = "reset" \/ ~w.srvOpen)
          /\ wire' = [wire EXCEPT ![d].cliOpen = FALSE]
          /\ DialFail(d)
          /\ UNCHANGED <<obj, peer>>
    /\ UNCHANGED <<hostmap, nopenhosts, ndown, registered, regOpen, oslOpen,
                   servePc, cpc, newpc, hdown, hclosed, locked, skof, lcpc,
                   lcarg, darg, lpc, llis, apc, alis, areq, purge, aerr, lwhy>>

\* a lonet process of another subnetwork connects to our _oslistener (it
\* found one of our hosts in the shared registry) and sends a request line
RemoteDial(d, dst, line) ==
    /\ d \in RemoteDials
    /\ dpc[d] = "idle"
    /\ oslOpen
    /\ wire' = [wire EXCEPT ![d] = Connected(line)]
    /\ darg' = [darg EXCEPT ![d] = [src |-> RemoteHost, dst |-> dst]]
    /\ dpc' = [dpc EXCEPT ![d] = "reply"]
    /\ UNCHANGED <<hostmap, nopenhosts, ndown, registered, regOpen, oslOpen,
                   servePc, cpc, newpc, hdown, hclosed, locked, socketv, skof,
                   obj, peer, lcpc, lcarg, lpc, llis, apc, alis, areq, purge, aerr, lwhy>>

\* the remote process dies while waiting for the reply: its end is closed
RemoteCrash(d) ==
    /\ d \in RemoteDials
    /\ dpc[d] = "reply"
    /\ wire' = [wire EXCEPT ![d].cliOpen = FALSE]
    /\ dpc' = [dpc EXCEPT ![d] = "done"]
    /\ UNCHANGED <<hostmap, nopenhosts, ndown, registered, regOpen, oslOpen,
                   servePc, cpc, newpc, hdown, hclosed, locked, socketv, skof,
                   obj, peer, lcpc, lcarg, darg, lpc, llis, apc, alis, areq,
                   purge, aerr, lwhy>>

\* the remote process reads its reply line (or EOF)
RemoteReply(d) ==
    LET w == wire[d] IN
    /\ d \in RemoteDials
    /\ dpc[d] = "reply"
    /\ w.reply # "none" \/ w.os = "reset" \/ ~w.srvOpen
    /\ dpc' = [dpc EXCEPT ![d] = "done"]
    /\ UNCHANGED <<hostmap, nopenhosts, ndown, registered, regOpen, oslOpen,
                   servePc, cpc, newpc, hdown, hclosed, locked, socketv, skof,
                   obj, peer, lcpc, lcarg, darg, wire, lpc, llis, apc, alis,
                   areq, purge, aerr, lwhy>>

-----------------------------------------------------------------------------
(* _serve, _loaccept and _vnet_accept: the accepting end of the handshake *)

\* _serve: accept one OS connection from the backlog and run _loaccept on
\* it in a new thread.  ready(n._down) was polled before the accept, so
\* n._down may have fired since; the accept succeeds while _oslistener is
\* open.
ServeAccept(d) ==
    /\ servePc = "loop"
    /\ oslOpen
    /\ wire[d].os = "backlog"
    /\ wire' = [wire EXCEPT ![d].os = "served"]
    /\ lpc' = [lpc EXCEPT ![d] = "lookup"]
    /\ UNCHANGED <<hostmap, nopenhosts, ndown, registered, regOpen, oslOpen,
                   servePc, cpc, newpc, hdown, hclosed, locked, socketv, skof,
                   obj, peer, lcpc, lcarg, dpc, darg, llis, apc, alis, areq,
                   purge, aerr, lwhy>>

\* _serve: ready(n._down) ends the loop (an accept on the closed
\* _oslistener raises, and _vnet_down finds the shutdown latched).
ServeExit ==
    /\ servePc = "loop"
    /\ ndown
    /\ servePc' = "exited"
    /\ UNCHANGED <<hostmap, nopenhosts, ndown, registered, regOpen, oslOpen,
                   cpc, newpc, hdown, hclosed, locked, socketv, skof, obj, peer,
                   lcpc, lcarg, dpc, darg, wire, lpc, llis, apc, alis, areq,
                   purge, aerr, lwhy>>

\* _serve: _oslistener.accept raises an error other than net.timeout, and
\* _serve calls _vnet_down(e) -> __shutdown(e, True): if close took the
\* _down_once latch first it returns and the thread exits; otherwise it
\* fires n._down and runs the shutdown itself.
ServeFail ==
    /\ servePc = "loop"
    /\ EngineFailure
    /\ oslOpen
    /\ servePc' = IF ndown THEN "exited" ELSE "hosts"
    /\ ndown' = TRUE
    /\ UNCHANGED <<hostmap, nopenhosts, registered, regOpen, oslOpen, cpc,
                   newpc, hdown, hclosed, locked, socketv, skof, obj, peer,
                   lcpc, lcarg, dpc, darg, wire, lpc, llis, apc, alis, areq,
                   purge, aerr, lwhy>>

\* __shutdown's host loop, run by the _serve thread
ServeShutdownHosts ==
    /\ servePc = "hosts"
    /\ HostsShutdown(servePc' = "vnet", servePc' = "blocked")
    /\ UNCHANGED <<hostmap, nopenhosts, ndown, registered, regOpen, oslOpen,
                   cpc, newpc, hclosed, locked, socketv, skof, peer, lcpc,
                   lcarg, dpc, darg, lpc, llis, apc, alis, areq, purge, aerr>>

\* log.error(exc), then _vnet_close: n._oslistener.close(), and
\* n._tserve.join() from the _serve thread itself raises RuntimeError, which
\* errctx wraps and which ends the thread: n._registry.close() is not
\* reached.
ServeVnetClose ==
    /\ servePc = "vnet"
    /\ VnetClose
    /\ servePc' = "died"
    /\ UNCHANGED <<hostmap, nopenhosts, ndown, registered, regOpen, cpc,
                   newpc, hdown, hclosed, locked, socketv, skof, obj, peer,
                   lcpc, lcarg, dpc, darg, lpc, llis, apc, alis, areq, purge, aerr, lwhy>>

\* __loaccept fails: reply "E <reason>" (reason "connection refused" for
\* ErrConnRefused) and _loaccept closes osconn
EReply(d, reason) ==
    /\ wire' = [wire EXCEPT ![d].reply = reason, ![d].srvOpen = FALSE]
    /\ lpc' = [lpc EXCEPT ![d] = "done"]

\* __loaccept reads and parses the request line and calls _vnet_accept up
\* to the send on l._dialq: the host must be in n._hostmap, and under
\* host._sockmu the slot socketv[dst.port] must hold a socket with a
\* listener.  dst.port >= len refuses; a negative port indexes from the end
\* of the list and, below -len, raises IndexError between
\* host._sockmu.acquire() and release(): the lock is never released.
LoAcceptLookup(d) ==
    LET n  == darg[d].dst.host
        p  == darg[d].dst.port
        sv == socketv[n]
    IN
    /\ lpc[d] = "lookup"
    /\ \/ /\ wire[d].line = "bad"
          /\ EReply(d, "error") /\ UNCHANGED <<locked, llis>>
       \/ /\ wire[d].line = "ok"
          /\ ~HostmuStuck
          /\ n \notin hostmap
          /\ EReply(d, "error") /\ UNCHANGED <<locked, llis>>
       \/ /\ wire[d].line = "ok"
          /\ ~HostmuStuck
          /\ n \in hostmap
          /\ ~locked[n]
          /\ \/ /\ p >= Len(sv)
                /\ EReply(d, "refused") /\ UNCHANGED <<locked, llis>>
             \/ /\ p < Len(sv) /\ ~PyInRange(sv, p)
                /\ locked' = [locked EXCEPT ![n] = TRUE]
                /\ EReply(d, "error") /\ UNCHANGED llis
             \/ /\ p < Len(sv) /\ PyInRange(sv, p)
                /\ ~HasListener(sv, p)
                /\ EReply(d, "refused") /\ UNCHANGED <<locked, llis>>
             \/ /\ p < Len(sv)
                /\ HasListener(sv, p)
                /\ llis' = [llis EXCEPT ![d] = Slot(sv, PyIndex(sv, p)).id]
                /\ lpc' = [lpc EXCEPT ![d] = "dialq"]
                /\ UNCHANGED <<locked, wire>>
    /\ UNCHANGED <<hostmap, nopenhosts, ndown, registered, regOpen, oslOpen,
                   servePc, cpc, newpc, hdown, hclosed, socketv, skof, obj,
                   peer, lcpc, lcarg, dpc, darg, apc, alis, areq, purge, aerr, lwhy>>

\* _vnet_accept: select(l._down.recv, l._dialq.send) takes l._down and
\* raises ErrConnRefused.
LoAcceptRefused(d) ==
    /\ lpc[d] = "dialq"
    /\ obj[llis[d]] \in {"down", "closed"}
    /\ EReply(d, "refused")
    /\ UNCHANGED <<hostmap, nopenhosts, ndown, registered, regOpen, oslOpen,
                   servePc, cpc, newpc, hdown, hclosed, locked, socketv, skof,
                   obj, peer, lcpc, lcarg, dpc, darg, llis, apc, alis, areq,
                   purge, aerr, lwhy>>

\* __loaccept: reply "connected <addr>" with the Accept the listener sent
\* on resp; then accept.ack.send(None), or, if the write raised (the peer
\* is gone), accept.ack.send(e).
LoAcceptReply(d) ==
    /\ lpc[d] = "reply"
    /\ \/ wire' = [wire EXCEPT ![d].reply = "connected", ![d].ack = "ok"]
       \/ /\ ~wire[d].cliOpen
          /\ wire' = [wire EXCEPT ![d].ack = "err"]
    /\ lpc' = [lpc EXCEPT ![d] = "ack"]
    /\ UNCHANGED <<hostmap, nopenhosts, ndown, registered, regOpen, oslOpen,
                   servePc, cpc, newpc, hdown, hclosed, locked, socketv, skof,
                   obj, peer, lcpc, lcarg, dpc, darg, llis, apc, alis, areq,
                   purge, aerr, lwhy>>

-----------------------------------------------------------------------------
(* listener.accept *)

\* variant: the host's down checked before the subnetwork's
ExcDownHostFirst(s) ==
    IF hdown[skof[s].host] THEN "ErrHostDown"
    ELSE IF ndown THEN "ErrNetDown" ELSE "ErrSockDown"

\* listener._excDown: the error is chosen when it is raised, from which of
\* n._down and h._down are ready then
ExcDown(s) ==
    IF ndown THEN "ErrNetDown"
    ELSE IF hdown[skof[s].host] THEN "ErrHostDown" ELSE "ErrSockDown"

\* a thread calls l.accept() on a listener it holds
Accept(x, lc) ==
    /\ apc[x] = "idle"
    /\ obj[<<"L", lc>>] # "none"
    /\ alis' = [alis EXCEPT ![x] = lc]
    /\ apc' = [apc EXCEPT ![x] = "recv"]
    /\ UNCHANGED <<hostmap, nopenhosts, ndown, registered, regOpen, oslOpen,
                   servePc, cpc, newpc, hdown, hclosed, locked, socketv, skof,
                   obj, peer, lcpc, lcarg, dpc, darg, wire, lpc, llis, areq,
                   purge, aerr, lwhy>>

\* select(l._down.recv, l._dialq.recv) takes l._down: l._excDown() raises
AcceptDown(x) ==
    /\ apc[x] = "recv"
    /\ obj[<<"L", alis[x]>>] \in {"down", "closed"}
    /\ apc' = [apc EXCEPT ![x] = "done"]
    /\ aerr' = [aerr EXCEPT ![x] = ExcDown(<<"L", alis[x]>>)]
    /\ UNCHANGED <<hostmap, nopenhosts, ndown, registered, regOpen, oslOpen,
                   servePc, cpc, newpc, hdown, hclosed, locked, socketv, skof,
                   obj, peer, lcpc, lcarg, dpc, darg, wire, lpc, llis, alis,
                   areq, purge, lwhy>>

\* the rendezvous on l._dialq: the accept call receives the dialReq that
\* _vnet_accept of dial d sends
AcceptRecv(x, d) ==
    /\ apc[x] = "recv"
    /\ lpc[d] = "dialq"
    /\ llis[d] = <<"L", alis[x]>>
    /\ areq' = [areq EXCEPT ![x] = d]
    /\ apc' = [apc EXCEPT ![x] = "alloc"]
    /\ lpc' = [lpc EXCEPT ![d] = "resp"]
    /\ UNCHANGED <<hostmap, nopenhosts, ndown, registered, regOpen, oslOpen,
                   servePc, cpc, newpc, hdown, hclosed, locked, socketv, skof,
                   obj, peer, lcpc, lcarg, dpc, darg, wire, llis, alis, purge, aerr, lwhy>>

\* variant: the Accept sent back carries the listener's address instead of
\* the allocated socket's
AcceptAllocListenerPort(x) ==
    LET d == areq[x]
        n == skof[<<"L", alis[x]>>].host
    IN
    /\ apc[x] = "alloc"
    /\ ~locked[n]
    /\ AllocFor(n, <<"A", d>>, FALSE)
    /\ wire' = [wire EXCEPT ![d].port = skof[<<"L", alis[x]>>].port]
    /\ lpc' = [lpc EXCEPT ![d] = "reply"]
    /\ apc' = [apc EXCEPT ![x] = "ack"]
    /\ UNCHANGED <<hostmap, nopenhosts, ndown, registered, regOpen, oslOpen,
                   servePc, cpc, newpc, hdown, hclosed, locked, obj, peer,
                   lcpc, lcarg, dpc, darg, llis, alis, areq, purge, aerr, lwhy>>

\* with h._sockmu allocate the accepting socket, then
\* req._resp.send(Accept(sk.addr(), ack)) to _vnet_accept, which waits on
\* resp.recv().  No check of l._down or h._down.
AcceptAlloc(x) ==
    LET d == areq[x]
        n == skof[<<"L", alis[x]>>].host
    IN
    /\ apc[x] = "alloc"
    /\ ~locked[n]
    /\ AllocFor(n, <<"A", d>>, FALSE)
    /\ wire' = [wire EXCEPT ![d].port = AllocPort(socketv[n])]
    /\ lpc' = [lpc EXCEPT ![d] = "reply"]
    /\ apc' = [apc EXCEPT ![x] = "ack"]
    /\ UNCHANGED <<hostmap, nopenhosts, ndown, registered, regOpen, oslOpen,
                   servePc, cpc, newpc, hdown, hclosed, locked, obj, peer,
                   lcpc, lcarg, dpc, darg, llis, alis, areq, purge, aerr, lwhy>>

\* select(l._down.recv, ack.recv) takes the ack.  An error releases the
\* port and loops (the _loaccept thread closes osconn); None creates
\* conn(sk, req._from, req._netsk) and sets "sk.conn = c" -- an attribute
\* nothing reads: sk._conn stays None.
AcceptAck(x) ==
    LET d == areq[x]
        s == <<"A", d>>
    IN
    /\ apc[x] = "ack"
    /\ lpc[d] = "ack"
    /\ ~locked[skof[s].host]
    /\ lpc' = [lpc EXCEPT ![d] = "done"]
    /\ \/ /\ wire[d].ack = "ok"
          /\ obj' = [obj EXCEPT ![s] = "up"]
          /\ peer' = [peer EXCEPT ![s] = SrcAddr(d)]
          /\ apc' = [apc EXCEPT ![x] = "done"]
          /\ UNCHANGED <<socketv, wire, areq>>
       \/ /\ wire[d].ack = "err"
          /\ Release(s)
          /\ wire' = [wire EXCEPT ![d].srvOpen = FALSE]
          /\ apc' = [apc EXCEPT ![x] = "recv"]
          /\ areq' = [areq EXCEPT ![x] = None]
          /\ UNCHANGED <<obj, peer>>
    /\ UNCHANGED <<hostmap, nopenhosts, ndown, registered, regOpen, oslOpen,
                   servePc, cpc, newpc, hdown, hclosed, locked, skof, lcpc,
                   lcarg, dpc, darg, llis, alis, purge, aerr, lwhy>>

\* variant: the down path of the ack wait without go(purgesk)
AcceptAckDownNoPurge(x) ==
    /\ apc[x] = "ack"
    /\ obj[<<"L", alis[x]>>] \in {"down", "closed"}
    /\ apc' = [apc EXCEPT ![x] = "done"]
    /\ aerr' = [aerr EXCEPT ![x] = ExcDown(<<"L", alis[x]>>)]
    /\ UNCHANGED <<hostmap, nopenhosts, ndown, registered, regOpen, oslOpen,
                   servePc, cpc, newpc, hdown, hclosed, locked, socketv, skof,
                   obj, peer, lcpc, lcarg, dpc, darg, wire, lpc, llis, alis,
                   areq, purge, lwhy>>

\* select(l._down.recv, ack.recv) takes l._down: go(purgesk), then
\* l._excDown() raises
AcceptAckDown(x) ==
    /\ apc[x] = "ack"
    /\ obj[<<"L", alis[x]>>] \in {"down", "closed"}
    /\ purge' = [purge EXCEPT ![x] = TRUE]
    /\ apc' = [apc EXCEPT ![x] = "done"]
    /\ aerr' = [aerr EXCEPT ![x] = ExcDown(<<"L", alis[x]>>)]
    /\ UNCHANGED <<hostmap, nopenhosts, ndown, registered, regOpen, oslOpen,
                   servePc, cpc, newpc, hdown, hclosed, locked, socketv, skof,
                   obj, peer, lcpc, lcarg, dpc, darg, wire, lpc, llis, alis,
                   areq, lwhy>>

\* variant: purgesk closes req._netsk without waiting for the ack
PurgeSkNoAck(x) ==
    LET d == areq[x]
        s == <<"A", d>>
    IN
    /\ purge[x]
    /\ lpc[d] \in {"reply", "ack"}
    /\ ~locked[skof[s].host]
    /\ Release(s)
    /\ wire' = [wire EXCEPT ![d].srvOpen = FALSE]
    /\ lpc' = [lpc EXCEPT ![d] = "done"]
    /\ purge' = [purge EXCEPT ![x] = FALSE]
    /\ UNCHANGED <<hostmap, nopenhosts, ndown, registered, regOpen, oslOpen,
                   servePc, cpc, newpc, hdown, hclosed, locked, skof, obj,
                   peer, lcpc, lcarg, dpc, darg, llis, apc, alis, areq, aerr, lwhy>>

\* purgesk: err = ack.recv(); None closes req._netsk (on an error the
\* _loaccept thread closes it); with h._sockmu release the port.
PurgeSk(x) ==
    LET d == areq[x]
        s == <<"A", d>>
    IN
    /\ purge[x]
    /\ lpc[d] = "ack"
    /\ ~locked[skof[s].host]
    /\ Release(s)
    /\ wire' = [wire EXCEPT ![d].srvOpen = FALSE]
    /\ lpc' = [lpc EXCEPT ![d] = "done"]
    /\ purge' = [purge EXCEPT ![x] = FALSE]
    /\ UNCHANGED <<hostmap, nopenhosts, ndown, registered, regOpen, oslOpen,
                   servePc, cpc, newpc, hdown, hclosed, locked, skof, obj,
                   peer, lcpc, lcarg, dpc, darg, llis, apc, alis, areq, aerr, lwhy>>

-----------------------------------------------------------------------------
(* conn.close *)

\* conn.close: c._shutdown() closes c._netsk; then once: with h._sockmu
\* sk._conn = None and, the socket being empty (a conn's socket never has
\* a listener), h._socketv[sk._port] = None.  The step waits for
\* h._sockmu; that lock is only ever held forever on a host whose table was
\* empty (the IndexError of _vnet_accept), and such a host holds no conn.
ConnClose(s) ==
    /\ s[1] \in {"D", "A"}
    /\ obj[s] \in {"up", "down"}
    /\ ~locked[skof[s].host]
    /\ obj' = [obj EXCEPT ![s] = "closed"]
    /\ wire' = CloseNetsk(wire, {s})
    /\ Release(s)
    /\ UNCHANGED <<hostmap, nopenhosts, ndown, registered, regOpen, oslOpen,
                   servePc, cpc, newpc, hdown, hclosed, locked, skof, peer,
                   lcpc, lcarg, dpc, darg, lpc, llis, apc, alis, areq, purge, aerr, lwhy>>

-----------------------------------------------------------------------------
(* The specification *)

NoWire == [os |-> "none", line |-> "ok", reply |-> "none", port |-> 0,
           ack |-> "none", cliOpen |-> FALSE, srvOpen |-> FALSE]

\* a subnetwork right after lonet.join: registry set up, _oslistener bound,
\* _serve started, no hosts
Init ==
    /\ hostmap = {}
    /\ nopenhosts = 0
    /\ ndown = FALSE
    /\ registered = {}
    /\ regOpen = TRUE
    /\ oslOpen = TRUE
    /\ servePc = "loop"
    /\ cpc = "idle"
    /\ newpc = [n \in Names |-> "idle"]
    /\ hdown = [n \in Names |-> FALSE]
    /\ hclosed = [n \in Names |-> FALSE]
    /\ locked = [n \in Names |-> FALSE]
    /\ socketv = [n \in Names |-> <<>>]
    /\ skof = [s \in Sid |-> [host |-> None, port |-> 0, idx |-> 0]]
    /\ obj = [s \in Sid |-> "none"]
    /\ peer = [s \in Sid |-> None]
    /\ lcpc = [lc \in Listens |-> "idle"]
    /\ lcarg = [lc \in Listens |-> [host |-> None, port |-> 0]]
    /\ dpc = [d \in Dials |-> "idle"]
    /\ darg = [d \in Dials |-> [src |-> None, dst |-> None]]
    /\ wire = [d \in Dials |-> NoWire]
    /\ lpc = [d \in Dials |-> "idle"]
    /\ llis = [d \in Dials |-> None]
    /\ apc = [x \in Accepts |-> "idle"]
    /\ alis = [x \in Accepts |-> None]
    /\ areq = [x \in Accepts |-> None]
    /\ purge = [x \in Accepts |-> FALSE]
    /\ aerr = [x \in Accepts |-> None]
    /\ lwhy = [lc \in Listens |-> "none"]

DstAddrs == [host : Names, port : DialPorts]

\* calls user code may make at any time
UserCall ==
    \/ \E n \in Names : NewHost(n) \/ HostClose(n)
    \/ SubnetClose
    \/ \E lc \in Listens, n \in Names, p \in Ports : Listen(lc, n, p)
    \/ \E lc \in Listens : ListenerClose(lc)
    \/ \E x \in Accepts, lc \in Listens : Accept(x, lc)
    \/ \E d \in LocalDials, n \in Names, dst \in DstAddrs : Dial(d, n, dst)
    \/ \E s \in Sid : ConnClose(s)
    \/ \E d \in RemoteDials, dst \in DstAddrs, line \in {"ok", "bad"} :
          RemoteDial(d, dst, line)
    \/ \E d \in RemoteDials : RemoteCrash(d)

\* failures of the host's network stack
EngineFault == ServeFail

\* the steps of calls already running, per thread
NewHostStep(n)  == NewHostInsert(n)
ListenStep(lc)  == ListenLocked(lc)
DialStep(d)     == DialQuery(d) \/ DialConnect(d) \/ DialReply(d) \/ RemoteReply(d)
LoAcceptStep(d) == LoAcceptLookup(d) \/ LoAcceptRefused(d) \/ LoAcceptReply(d)
AcceptStep(x)   == AcceptDown(x) \/ (\E d \in Dials : AcceptRecv(x, d))
                   \/ AcceptAlloc(x) \/ AcceptAck(x) \/ AcceptAckDown(x)
PurgeStep(x)    == PurgeSk(x)
ServeStep       == ServeExit \/ (\E d \in Dials : ServeAccept(d))
                   \/ ServeShutdownHosts \/ ServeVnetClose
CloseStep       == SubnetShutdownHosts \/ SubnetVnetClose \/ SubnetJoinServe

Next ==
    \/ UserCall
    \/ EngineFault
    \/ \E n \in Names : NewHostStep(n)
    \/ \E lc \in Listens : ListenStep(lc)
    \/ \E d \in Dials : DialStep(d) \/ LoAcceptStep(d)
    \/ \E x \in Accepts : AcceptStep(x) \/ PurgeStep(x)
    \/ ServeStep
    \/ CloseStep

\* Threads that are running are scheduled (Python threads, the _serve
\* thread, purgesk goroutines); user calls are not forced to happen.
Fairness ==
    /\ \A n \in Names : WF_vars(NewHostStep(n))
    /\ \A lc \in Listens : WF_vars(ListenStep(lc))
    /\ \A d \in Dials : WF_vars(DialStep(d)) /\ WF_vars(LoAcceptStep(d))
    /\ \A x \in Accepts : WF_vars(AcceptStep(x)) /\ WF_vars(PurgeStep(x))
    /\ WF_vars(ServeStep)
    /\ WF_vars(CloseStep)

Spec == Init /\ [][Next]_vars /\ Fairness

-----------------------------------------------------------------------------
(* Properties *)

\* the sockets somebody still uses: a dial between reserving its source
\* port and returning, an accept call (or its purgesk) between allocating
\* and settling the ack, and every listener or conn not yet closed
InUse ==
    {<<"D", d>> : d \in {e \in LocalDials : dpc[e] \in {"query", "connect", "reply"}}}
    \cup {<<"A", areq[x]>> : x \in {y \in Accepts : apc[y] = "ack" \/ purge[y]}}
    \cup {s \in Sid : obj[s] \in {"up", "down"}}

\* No two users ever share a port: every socket in use still sits in the
\* table slot it was installed at.  Broken if _allocFreeSocket hands out an
\* occupied slot, if a listen on an explicit port overwrites one, or if an
\* error path (dial, accept ack, purgesk) or conn.close frees a slot that
\* another dial, accept or listener has taken since.
SocketsExclusive ==
    \A s \in InUse :
        LET k == skof[s] IN
        /\ k.idx < Len(socketv[k.host])
        /\ Slot(socketv[k.host], k.idx) # None
        /\ Slot(socketv[k.host], k.idx).id = s

\* The two ends of a dialed connection agree: the dialer's remote address is
\* the socket accept() allocated for its request (carried back in the
\* "connected" reply), the accepted conn's remote address is the dialer's
\* source socket, and while no accepted conn exists the accepting side of
\* the OS connection is either still settling the ack or closed -- never
\* left open with nobody owning it (listener.accept / purgesk / __loaccept).
ConnEndsMatch ==
    \A d \in LocalDials :
        LET c == <<"D", d>>
            a == <<"A", d>>
        IN  obj[c] # "none" =>
              /\ peer[c] = AddrOf(a)
              /\ obj[a] # "none" => peer[a] = AddrOf(c)
              /\ obj[a] = "none" => lpc[d] = "ack" \/ ~wire[d].srvOpen

\* a thread blocked on listener lc: an accept call on it, the _loaccept
\* thread of a dial routed to it, or that dial itself
WaitsOn(lc) ==
    \/ \E x \in Accepts : alis[x] = lc /\ apc[x] \in {"recv", "alloc", "ack"}
    \/ \E d \in Dials : llis[d] = <<"L", lc>> /\ lpc[d] \in {"dialq", "resp", "reply", "ack"}
    \/ \E d \in Dials : llis[d] = <<"L", lc>> /\ dpc[d] = "reply"

\* Closing a listener releases everybody blocked on it: accept() returns,
\* dials routed to it get their reply, and no _loaccept thread or purgesk
\* goroutine is left waiting on the dialq/resp/ack channels (every select
\* of listener.accept and _vnet_accept races l._down).
ListenerCloseReleasesWaiters ==
    \A lc \in Listens : obj[<<"L", lc>>] = "closed" ~> ~WaitsOn(lc)

\* the errors that name a cause at least as far out as why
DownErrors(why) ==
    CASE why = "net"  -> {"ErrNetDown"}
      [] why = "host" -> {"ErrNetDown", "ErrHostDown"}
      [] OTHER        -> {"ErrNetDown", "ErrHostDown", "ErrSockDown"}

\* An accept that fails because its listener went down reports the reason
\* at least as far out as the one that took the listener down: ErrNetDown
\* when a subnetwork shutdown (close, or _vnet_down after an engine
\* failure) did, never ErrSockDown when its host's close did.
\* listener._excDown picks the error only when it raises, from the down
\* channels that are ready then, so this rests on __shutdown firing n._down
\* before its host loop, Host._shutdown firing h._down before its
\* listeners, and the order of the checks in _excDown.
DownErrorNamesCause ==
    \A x \in Accepts :
        aerr[x] # None => aerr[x] \in DownErrors(lwhy[alis[x]])

\* The rendezvous as a user sees it.  A dial of this process is pending from
\* Host.dial until it returns, connected if it returned a conn.  An accept
\* call waits from listener.accept until it returns, on the address of its
\* listener, and has taken the dial whose dialReq it received.
AbsDial(d) ==
    CASE dpc[d] = "idle" -> "idle"
      [] dpc[d] = "done" -> IF obj[<<"D", d>>] # "none" THEN "connected" ELSE "failed"
      [] OTHER           -> "pending"

AbsAccept(x) ==
    CASE apc[x] = "idle" -> "idle"
      [] apc[x] = "done" -> "done"
      [] OTHER           -> "waiting"

\* Every dial of this process meets at most one accept call, on the listener
\* at the address it dialed; it returns a conn only after an accept call
\* took its request, and once taken it does not fail.  Broken if the lookup
\* of _vnet_accept finds the wrong listener, if the dialReq reaches two
\* accept calls, or if purgesk, __loaccept or a shutdown closes the
\* accepted OS connection before the "connected" reply is written.
CA == INSTANCE ConnAbs
        WITH Dials  <- LocalDials,
             Addrs  <- [host : Names, port : Ports \cup DialPorts \cup 0..MaxSock],
             dstate <- [d \in LocalDials |-> AbsDial(d)],
             dst    <- [d \in LocalDials |-> IF dpc[d] = "idle" THEN None ELSE darg[d].dst],
             astate <- [x \in Accepts |-> AbsAccept(x)],
             laddr  <- [x \in Accepts |-> IF apc[x] = "idle" THEN None ELSE AddrOf(<<"L", alis[x]>>)],
             match  <- [x \in Accepts |-> IF areq[x] \in LocalDials THEN areq[x] ELSE None]

ConnRefines == CA!Spec

-----------------------------------------------------------------------------
(* What the spec states of the subnetwork and its hosts.  The runs that    *)
(* check these find them violated by the code (see README.md).             *)

\* nopenhosts counts the hosts of the map not yet closed: Host.close
\* decrements it exactly once per host (its deferred autoclose).
NOpenHostsCount ==
    nopenhosts = Cardinality({n \in hostmap : ~hclosed[n]})

\* Every occupied index p > 0 of a host's table holds a socket with port p
\* that is in use by a dial, an accept, a listener or a conn (spec 8, the
\* first universal invariant): listen on an explicit port and
\* _allocFreeSocket install socket(h, p) at socketv[p], and listener.close
\* and conn.close null an emptied slot out.
OccupiedSlotsWellFormed ==
    \A n \in Names : \A p \in 1..Len(socketv[n]) - 1 :
        Slot(socketv[n], p) # None =>
            /\ skof[Slot(socketv[n], p).id].port = p
            /\ Slot(socketv[n], p).id \in InUse

\* Every live conn is reachable from its host's table through sk._conn, so
\* that Host._shutdown reaches it (listener.accept and Host.dial set it).
ConnsAttached ==
    \A s \in Sid :
        s[1] \in {"D", "A"} /\ obj[s] = "up" => s \in Attached(skof[s].host)

\* Shutdown is final (spec 4.6, 8): once a host is down no listener or conn
\* on it is up, and once a subnetwork shutdown (close, or _vnet_down run by
\* the _serve thread) is past its host loop every host of the map is down.
\* Host._shutdown shuts down everything the table holds, listen, dial and
\* accept on a down host fail, and no host is created after n._down fired.
\* Host._shutdown can only reach a conn through the table, so every live
\* conn must be attached there (ConnsAttached).
ShutdownIsFinal ==
    /\ ConnsAttached
    /\ \A s \in Sid : obj[s] = "up" => ~hdown[skof[s].host]
    /\ cpc \in {"vnet", "join", "done"} \/ servePc \in {"vnet", "died"}
       => \A n \in hostmap : hdown[n]

\* _vnet_accept releases host._sockmu after looking the port up, so every
\* _loaccept thread that starts the lookup eventually gets past it.
LookupCompletes ==
    \A d \in Dials : lpc[d] = "lookup" ~> lpc[d] # "lookup"

\* Once the subnetwork's down has fired, its registry is eventually closed
\* (spec 4.6: subnet shutdown invokes vnet_close and closes the registry,
\* spec 7: an engine failure triggers the full shutdown): __shutdown ends
\* with n._registry.close(), whether close or _vnet_down ran it.
DownClosesRegistry == ndown ~> ~regOpen

=============================================================================
