------------------------------ MODULE Registry ------------------------------
(***************************************************************************)
(* SQLiteRegistry and its DBPool (src/xnet/lonet/__init__.py 981-1144) as *)
(* one process uses them: the registry is set up once (join), then client *)
(* threads (new_host announcing, dial querying) take a connection from    *)
(* the pool, run their statement and put it back, while the subnetwork's  *)
(* close closes the pool.  Other processes write the shared hosts table.  *)
(*                                                                         *)
(* DBPool.get decides under its lock but calls the factory outside it;    *)
(* DBPool.close clears the free list under the lock and closes the        *)
(* connections it took one by one outside it.                             *)
(***************************************************************************)
EXTENDS Naturals, Sequences, SequencesExt

CONSTANTS
    Clients,      \* threads running announce / query
    Names,        \* host names
    Net,          \* the network name join() opens the registry for
    OtherNet,     \* a different network name a registry file may hold
    MaxConns,     \* sqlite connections the factory may open in a behaviour
    MaxOps,       \* registry calls per client thread
    None

Conns == 1..MaxConns
Ops   == [kind : {"announce", "query"}, name : Names]
SchemaVer == "lonet.1"

VARIABLES
    meta,         \* the meta table: [schemaver, network], "" when absent
    setup,        \* SQLiteRegistry.__init__: "pending" | "ok" | "failed"
    hosts,        \* the hosts table: name -> "none" | "self" | "other"
    factoryOpen,  \* DBPool._factory is not None
    connv,        \* DBPool._connv, the free list (pop/append at its end)
    cst,          \* sqlite connection: "new" | "open" | "closed"
    pc,           \* client: "idle" | "open" | "use" | "put"
    held,         \* the connection a client holds
    op,           \* the call a client runs
    nops,         \* calls a client has made
    cpc,          \* DBPool.close: "idle" | "closing" | "done"
    toclose       \* the free list close took, still to be closed

vars == <<meta, setup, hosts, factoryOpen, connv, cst, pc, held, op, nops,
          cpc, toclose>>

\* the connection the factory opens next
NewConn == Min({k \in Conns : cst[k] = "new"})

-----------------------------------------------------------------------------
(* SQLiteRegistry.__init__ *)

\* DBPool(dburi), then _setup through xget (the pool is empty: the factory
\* opens a connection, which is put back).  With isolation_level None
\* every statement commits on its own: a schema version or network
\* mismatch raises after the earlier writes are stored.
Setup ==
    LET svOk == meta.schemaver \in {"", SchemaVer}
        k    == NewConn
    IN
    /\ setup = "pending"
    /\ meta' = [schemaver |-> IF meta.schemaver = "" THEN SchemaVer ELSE meta.schemaver,
                network   |-> IF svOk /\ meta.network = "" THEN Net ELSE meta.network]
    /\ setup' = IF svOk /\ meta.network \in {"", Net} THEN "ok" ELSE "failed"
    /\ cst' = [cst EXCEPT ![k] = "open"]
    /\ connv' = <<k>>
    /\ UNCHANGED <<hosts, factoryOpen, pc, held, op, nops, cpc, toclose>>

-----------------------------------------------------------------------------
(* DBPool.get / put through _DBPoolContext, around announce and query *)

\* with self._lock: a closed pool raises RuntimeError (xget fails, nothing
\* to put back); a free connection is popped; otherwise the factory is
\* called after the lock is released.
Get(c, o) ==
    /\ setup = "ok"
    /\ pc[c] = "idle"
    /\ nops[c] < MaxOps
    /\ \/ /\ ~factoryOpen
          /\ nops' = [nops EXCEPT ![c] = @ + 1]
          /\ UNCHANGED <<pc, held, connv, op>>
       \/ /\ op' = [op EXCEPT ![c] = o]
          /\ factoryOpen
          /\ connv # <<>>
          /\ held' = [held EXCEPT ![c] = Last(connv)]
          /\ connv' = Front(connv)
          /\ pc' = [pc EXCEPT ![c] = "use"]
          /\ UNCHANGED nops
       \/ /\ op' = [op EXCEPT ![c] = o]
          /\ factoryOpen
          /\ connv = <<>>
          /\ pc' = [pc EXCEPT ![c] = "open"]
          /\ UNCHANGED <<held, connv, nops>>
    /\ UNCHANGED <<meta, setup, hosts, factoryOpen, cst, cpc, toclose>>

\* factory(): sqlite3.connect opens a new connection
Open(c) ==
    /\ pc[c] = "open"
    /\ \E k \in Conns : cst[k] = "new"
    /\ cst' = [cst EXCEPT ![NewConn] = "open"]
    /\ held' = [held EXCEPT ![c] = NewConn]
    /\ pc' = [pc EXCEPT ![c] = "use"]
    /\ UNCHANGED <<meta, setup, hosts, factoryOpen, connv, op, nops, cpc, toclose>>

\* announce: INSERT INTO hosts, a UNIQUE violation raising ErrHostDup;
\* query: SELECT osladdr.  Either way __exit__ puts the connection back.
Use(c) ==
    LET n == op[c].name IN
    /\ pc[c] = "use"
    /\ hosts' = IF op[c].kind = "announce" /\ hosts[n] = "none"
                THEN [hosts EXCEPT ![n] = "self"] ELSE hosts
    /\ pc' = [pc EXCEPT ![c] = "put"]
    /\ UNCHANGED <<meta, setup, factoryOpen, connv, cst, held, op, nops, cpc, toclose>>

\* variant: put that forgets the connection before appending it
PutNoHold(c) ==
    /\ pc[c] = "put"
    /\ held' = [held EXCEPT ![c] = None]
    /\ IF factoryOpen
       THEN connv' = Append(connv, held'[c]) /\ UNCHANGED cst
       ELSE cst' = [cst EXCEPT ![held[c]] = "closed"] /\ UNCHANGED connv
    /\ pc' = [pc EXCEPT ![c] = "idle"]
    /\ nops' = [nops EXCEPT ![c] = @ + 1]
    /\ UNCHANGED <<meta, setup, hosts, factoryOpen, op, cpc, toclose>>

\* variant: put that appends whether or not the pool is closed
PutAlwaysPools(c) ==
    /\ pc[c] = "put"
    /\ connv' = Append(connv, held[c])
    /\ held' = [held EXCEPT ![c] = None]
    /\ pc' = [pc EXCEPT ![c] = "idle"]
    /\ nops' = [nops EXCEPT ![c] = @ + 1]
    /\ UNCHANGED <<meta, setup, hosts, factoryOpen, cst, op, cpc, toclose>>

\* with self._lock: an open pool takes the connection back; after the
\* lock, a closed pool's connection is closed.
Put(c) ==
    /\ pc[c] = "put"
    /\ IF factoryOpen
       THEN connv' = Append(connv, held[c]) /\ UNCHANGED cst
       ELSE cst' = [cst EXCEPT ![held[c]] = "closed"] /\ UNCHANGED connv
    /\ held' = [held EXCEPT ![c] = None]
    /\ pc' = [pc EXCEPT ![c] = "idle"]
    /\ nops' = [nops EXCEPT ![c] = @ + 1]
    /\ UNCHANGED <<meta, setup, hosts, factoryOpen, op, cpc, toclose>>

-----------------------------------------------------------------------------
(* DBPool.close (SQLiteRegistry.close, from VirtSubNetwork.__shutdown) *)

\* variant: close that leaves the free list in place
CloseKeepsPool ==
    /\ setup = "ok"
    /\ cpc = "idle"
    /\ factoryOpen' = FALSE
    /\ toclose' = connv
    /\ cpc' = "closing"
    /\ UNCHANGED <<meta, setup, hosts, connv, cst, pc, held, op, nops>>

\* with self._lock: _factory = None, take the free list and empty it
Close ==
    /\ setup = "ok"
    /\ cpc = "idle"
    /\ factoryOpen' = FALSE
    /\ toclose' = connv
    /\ connv' = <<>>
    /\ cpc' = "closing"
    /\ UNCHANGED <<meta, setup, hosts, cst, pc, held, op, nops>>

\* for conn in connv: conn.close()
CloseConn ==
    /\ cpc = "closing"
    /\ \/ /\ toclose # <<>>
          /\ cst' = [cst EXCEPT ![Head(toclose)] = "closed"]
          /\ toclose' = Tail(toclose)
          /\ UNCHANGED cpc
       \/ /\ toclose = <<>>
          /\ cpc' = "done"
          /\ UNCHANGED <<cst, toclose>>
    /\ UNCHANGED <<meta, setup, hosts, factoryOpen, connv, pc, held, op, nops>>

\* another subnetwork's announce into the shared file
OtherAnnounce(n) ==
    /\ hosts[n] = "none"
    /\ hosts' = [hosts EXCEPT ![n] = "other"]
    /\ UNCHANGED <<meta, setup, factoryOpen, connv, cst, pc, held, op, nops, cpc, toclose>>

-----------------------------------------------------------------------------
(* The specification *)

\* join(): the registry file may be new, or hold the meta of this network
\* or of another; other subnetworks may have announced names already
Init ==
    /\ meta \in {[schemaver |-> "", network |-> ""],
                 [schemaver |-> SchemaVer, network |-> Net],
                 [schemaver |-> SchemaVer, network |-> OtherNet]}
    /\ setup = "pending"
    /\ hosts \in [Names -> {"none", "other"}]
    /\ factoryOpen = TRUE
    /\ connv = <<>>
    /\ cst = [k \in Conns |-> "new"]
    /\ pc = [c \in Clients |-> "idle"]
    /\ held = [c \in Clients |-> None]
    /\ op = [c \in Clients |-> CHOOSE o \in Ops : TRUE]
    /\ nops = [c \in Clients |-> 0]
    /\ cpc = "idle"
    /\ toclose = <<>>

Next ==
    \/ Setup
    \/ \E c \in Clients, o \in Ops : Get(c, o)
    \/ \E c \in Clients : Open(c) \/ Use(c) \/ Put(c)
    \/ Close
    \/ CloseConn
    \/ \E n \in Names : OtherAnnounce(n)

\* a client thread inside get/announce/query/put runs on, and so does the
\* thread inside close; calls are not forced to happen
Fairness ==
    /\ \A c \in Clients : WF_vars(Open(c)) /\ WF_vars(Use(c)) /\ WF_vars(Put(c))
    /\ WF_vars(CloseConn)

Spec == Init /\ [][Next]_vars /\ Fairness

-----------------------------------------------------------------------------
(* Properties *)

TypeOK ==
    /\ setup \in {"pending", "ok", "failed"}
    /\ hosts \in [Names -> {"none", "self", "other"}]
    /\ factoryOpen \in BOOLEAN
    /\ connv \in Seq(Conns)
    /\ toclose \in Seq(Conns)
    /\ cst \in [Conns -> {"new", "open", "closed"}]
    /\ pc \in [Clients -> {"idle", "open", "use", "put"}]
    /\ held \in [Clients -> Conns \cup {None}]
    /\ nops \in [Clients -> 0..MaxOps]
    /\ cpc \in {"idle", "closing", "done"}

\* how many times k occurs in a list
Occurrences(s, k) == Cardinality({i \in DOMAIN s : s[i] = k})

\* Every open sqlite connection has exactly one owner -- the free list
\* (once), one client thread, or the list close is working through -- and
\* a connection that is closed or not yet opened has none.  A get racing
\* close, or a put after close, must never hand a connection to two
\* threads or leave close closing one that a client uses.
ConnOwnership ==
    \A k \in Conns :
        Occurrences(connv, k) + Occurrences(toclose, k)
          + Cardinality({c \in Clients : held[c] = k})
        = IF cst[k] = "open" THEN 1 ELSE 0

\* Once DBPool.close has closed its free list, every connection is
\* eventually closed: those a get opened around the close are closed by
\* their put.
NoConnLeak ==
    cpc = "done" ~> \A k \in Conns : cst[k] # "open"

==============================================================================
