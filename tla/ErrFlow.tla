------------------------------- MODULE ErrFlow -------------------------------
(***************************************************************************)
(* How lonet's errors travel (src/xnet/lonet/__init__.py) through the     *)
(* xerr wrappers to what a caller catches and what the serve loop logs:   *)
(* join() and the registry setup, new_host's announce, and one dial with  *)
(* the _loaccept thread that answers it on the other end of the OS        *)
(* connection.  Where an operation fails (the registry, the OS, the       *)
(* acceptor's lookup) is a choice from the *Outcomes constants; either    *)
(* process may die in the middle of the handshake.                        *)
(***************************************************************************)
EXTENDS XErr

CONSTANTS
    JoinOutcomes,      \* SQLiteRegistry._setup: "ok" | "schema" | "network" | "dberr",
                       \* or "bind": _setup succeeds, binding the OS listener fails
    AnnounceOutcomes,  \* registry.announce: "ok" | "dup" | "dberr"
    QueryOutcomes,     \* registry.query in dial: "found" | "none" | "dberr"
    LookupOutcomes     \* _vnet_accept: "ok" | "nohost" | "refused" | "indexbug"

VARIABLES
    imported,   \* registrations the lonet module body has made
    jres,       \* join: "idle", or its JoinOutcomes value
    jerr,       \* the exception join raised, or None
    nres,       \* new_host: "idle", or the announce outcome
    nerr,       \* the exception new_host raised, or None
    dpc,        \* dial: "idle" | "connect" | "send" | "read" | "unwind" | "done" | "crashed"
    dexc,       \* the exception in flight in dial
    dinlc,      \* it was raised inside __loconnect
    derr,       \* the exception dial raised, or None
    apc,        \* _loaccept: "none" | "read" | "lookup" | "ereply" | "reply" | "unwind" | "done" | "crashed"
    alook,      \* what _vnet_accept did: "none" or a LookupOutcomes value
    aexc,       \* the exception in flight in _loaccept
    actx,       \* it was raised inside errctx("%s <- %s")
    logged,     \* the exception _serve logged, or None
    req,        \* the dial request line was sent
    reply,      \* the reply line read back: [verb, arg], NoReply before one
    dOpen,      \* the dialer's end of the OS connection is open
    aOpen       \* the acceptor's end is open

vars == <<wdeClassv, wdeObjectv, imported, jres, jerr, nres, nerr, dpc, dexc,
          dinlc, derr, apc, alook, aexc, actx, logged, req, reply, dOpen, aOpen>>

-----------------------------------------------------------------------------
(* Exception classes and error objects *)

\* the classes met here; socket.gaierror is a subclass of socket.error
LonetIsa ==
    [c \in {"Error", "net.error", "gaierror", "protocolError", "RegistryError",
            "sqlite3.Error", "AttributeError", "IndexError"} |->
        IF c = "gaierror" THEN {"gaierror", "net.error"} ELSE {c}]

\* neterror(...): module-level net.error objects
ErrConnRefused == Exc("net.error", "ErrConnRefused", <<"[Errno 111] connection refused">>)
ErrNoHost      == Exc("net.error", "ErrNoHost", <<"no such host">>)
ErrHostDup     == Exc("net.error", "ErrHostDup", <<"host already registered">>)

\* instances raised where they happen
GaiError       == Exc("gaierror", "", <<"no such host">>)
SqliteError    == Exc("sqlite3.Error", "", <<"database is locked">>)
SocketError    == Exc("net.error", "", <<"[Errno 32] broken pipe">>)
AttributeError == Exc("AttributeError", "", <<"no attribute '_schema_ver'">>)
BindError      == Exc("net.error", "", <<"[Errno 98] address already in use">>)
IndexError     == Exc("IndexError", "", <<"list index out of range">>)

\* RegistryError(err, registry, op): .err is kept in the cause field (xerr
\* never follows it: RegistryError is not an Error); its __str__ is
\* "%s: %s %s: %s" % (registry, op, argv, err)
RegistryError(err, op) ==
    [Exc("RegistryError", "", <<"registry.db", op>> \o StrOf(err)) EXCEPT !.cause = err]

\* _regerr: an error that is not well-defined is wrapped as a BUG
regerr(err, op) ==
    RegistryError(IF well_defined(err) THEN err ELSE Error("BUG", err, TRUE), op)

\* the messages _setup raises on a mismatch
SchemaMismatch  == "schema version mismatch"
NetworkMismatch == "network name mismatch"

\* what `with errctx('setup ...')` lets out of _setup.  The schema branch
\* formats qq(r._schema_ver): the class attribute is schema_ver, so the
\* format raises AttributeError before the Error is made.
SetupError(o) ==
    CASE o = "schema"  -> context_exit("setup", AttributeError)
      [] o = "network" -> context_exit("setup", Error(NetworkMismatch, None, FALSE))
      [] o = "dberr"   -> context_exit("setup", SqliteError)

\* what announce raises: a UNIQUE violation becomes ErrHostDup
AnnounceError(o) ==
    CASE o = "dup"   -> ErrHostDup
      [] o = "dberr" -> SqliteError

-----------------------------------------------------------------------------
(* Module load, join, new_host *)

\* the lonet module body's registrations, in order: neterror() for each
\* error object (lines 80-89), then protocolError (line 690)
LonetWde ==
    <<[obj |-> "ErrNetDown"], [obj |-> "ErrHostDown"], [obj |-> "ErrSockDown"],
      [obj |-> "ErrAddrAlreadyUsed"], [obj |-> "ErrAddrNoListen"],
      [obj |-> "ErrConnRefused"], [obj |-> "ErrNoHost"], [obj |-> "ErrHostDup"],
      [cls |-> "protocolError"]>>

\* one registration of the module body
ImportLonet ==
    LET r == LonetWde[imported + 1] IN
    /\ imported < Len(LonetWde)
    /\ imported' = imported + 1
    /\ IF "obj" \in DOMAIN r THEN register_wde_object(r.obj)
                             ELSE register_wde_class(r.cls)
    /\ UNCHANGED <<jres, jerr, nres, nerr, dpc, dexc, dinlc, derr, apc, alook,
                   aexc, actx, logged, req, reply, dOpen, aOpen>>

\* _SubNetwork.__init__: when socket/bind/listen of the OS listener fails
\* it closes the registry and re-raises the bare socket error
SubNetworkInitError == BindError

\* join: SQLiteRegistry(...) then _SubNetwork(...), both under
\* errctx("lonet: join ..."); the registry's __init__ is wrapped by _regerr
Join(o) ==
    /\ imported = Len(LonetWde)
    /\ jres = "idle"
    /\ jres' = o
    /\ jerr' = CASE o = "ok"   -> None
                  [] o = "bind" -> context_exit("lonet: join", SubNetworkInitError)
                  [] OTHER      -> context_exit("lonet: join", regerr(SetupError(o), "__init__"))
    /\ UNCHANGED <<wdeClassv, wdeObjectv, imported, nres, nerr, dpc, dexc, dinlc,
                   derr, apc, alook, aexc, actx, logged, req, reply, dOpen, aOpen>>

\* new_host: _vnet_newhost -> registry.announce under errctx("virtnet
\* ...: new host ...")
NewHost(o) ==
    /\ jres = "ok"
    /\ nres = "idle"
    /\ nres' = o
    /\ nerr' = IF o = "ok" THEN None
               ELSE context_exit("new host", regerr(AnnounceError(o), "announce"))
    /\ UNCHANGED <<wdeClassv, wdeObjectv, imported, jres, jerr, dpc, dexc, dinlc,
                   derr, apc, alook, aexc, actx, logged, req, reply, dOpen, aOpen>>

-----------------------------------------------------------------------------
(* Host.dial and the _loaccept thread answering it *)

\* the reply line "< lonet <network> <verb> <arg>" as __loconnect parses it
NoReply == [verb |-> "", arg |-> ""]
Refused == [verb |-> "E", arg |-> "connection refused"]

\* dial: registry.query (under _regerr); no entry raises ErrNoHost
DialQuery(o) ==
    /\ jres = "ok"
    /\ dpc = "idle"
    /\ dpc' = IF o = "found" THEN "connect" ELSE "unwind"
    /\ dexc' = CASE o = "found" -> None
                 [] o = "none"  -> ErrNoHost
                 [] o = "dberr" -> regerr(SqliteError, "query")
    /\ UNCHANGED <<wdeClassv, wdeObjectv, imported, jres, jerr, nres, nerr, dinlc,
                   derr, apc, alook, aexc, actx, logged, req, reply, dOpen, aOpen>>

\* _vnet_dial: osconn.connect to the destination's _oslistener; on success
\* _serve accepts it and starts a _loaccept thread
DialConnect ==
    /\ dpc = "connect"
    /\ \/ /\ dpc' = "send"
          /\ apc' = "read"
          /\ dOpen' = TRUE
          /\ aOpen' = TRUE
          /\ UNCHANGED dexc
       \/ /\ dpc' = "unwind"
          /\ dexc' = SocketError
          /\ UNCHANGED <<apc, dOpen, aOpen>>
    /\ UNCHANGED <<wdeClassv, wdeObjectv, imported, jres, jerr, nres, nerr, dinlc,
                   derr, alook, aexc, actx, logged, req, reply>>

\* __loconnect: sendall the dial request
DialSend ==
    /\ dpc = "send"
    /\ req' = TRUE
    /\ dpc' = "read"
    /\ UNCHANGED <<wdeClassv, wdeObjectv, imported, jres, jerr, nres, nerr, dexc,
                   dinlc, derr, apc, alook, aexc, actx, logged, reply, dOpen, aOpen>>

\* __loconnect: skreadline the reply (EOF raises Error('unexpected EOF'))
\* and act on its verb
DialRead ==
    /\ dpc = "read"
    /\ reply # NoReply \/ ~aOpen
    /\ dinlc' = TRUE
    /\ IF reply.verb = "connected"
       THEN dpc' = "done" /\ UNCHANGED dexc
       ELSE /\ dpc' = "unwind"
            /\ dexc' = CASE reply = NoReply -> Error("unexpected EOF", None, FALSE)
                         [] reply = Refused -> ErrConnRefused
                         [] OTHER           -> Error(reply.arg, None, FALSE)
    /\ UNCHANGED <<wdeClassv, wdeObjectv, imported, jres, jerr, nres, nerr, derr,
                   apc, alook, aexc, actx, logged, req, reply, dOpen, aOpen>>

\* variant: _loconnect wrapping every error
loconnect_exit_always(err) == Error("loconnect", err, TRUE)

\* _loconnect's except: close osconn; wrap all but ErrConnRefused
loconnect_exit(err) ==
    IF err.obj # "ErrConnRefused" THEN Error("loconnect", err, TRUE) ELSE err

\* variant: dial's except dropping the traceback
DialUnwindNoTb ==
    /\ dpc = "unwind"
    /\ derr' = Error("dial", IF dinlc THEN loconnect_exit(dexc) ELSE dexc, FALSE)
    /\ dOpen' = (dOpen /\ ~dinlc)
    /\ dpc' = "done"
    /\ UNCHANGED <<wdeClassv, wdeObjectv, imported, jres, jerr, nres, nerr, dexc,
                   dinlc, apc, alook, aexc, actx, logged, req, reply, aOpen>>

\* dial's except: free the port, raise Error("dial ...", err, tb)
DialUnwind ==
    /\ dpc = "unwind"
    /\ derr' = Error("dial", IF dinlc THEN loconnect_exit(dexc) ELSE dexc, TRUE)
    /\ dOpen' = (dOpen /\ ~dinlc)
    /\ dpc' = "done"
    /\ UNCHANGED <<wdeClassv, wdeObjectv, imported, jres, jerr, nres, nerr, dexc,
                   dinlc, apc, alook, aexc, actx, logged, req, reply, aOpen>>

\* __loaccept: skreadline the request (the dialer's lonet always sends a
\* well-formed one)
AcceptRead ==
    /\ apc = "read"
    /\ req \/ ~dOpen
    /\ apc' = IF req THEN "lookup" ELSE "unwind"
    /\ aexc' = IF req THEN aexc ELSE Error("unexpected EOF", None, FALSE)
    /\ UNCHANGED <<wdeClassv, wdeObjectv, imported, jres, jerr, nres, nerr, dpc,
                   dexc, dinlc, derr, alook, actx, logged, req, reply, dOpen, aOpen>>

\* with errctx("%s <- %s"): _vnet_accept raises for a host missing from
\* _hostmap (a fresh net.gaierror), a port past the table or without a
\* listener, or a listener going down (ErrConnRefused), or IndexError
\* (see VirtNet's sockmu_leak)
AcceptLookup(o) ==
    /\ apc = "lookup"
    /\ alook' = o
    /\ actx' = TRUE
    /\ apc' = IF o = "ok" THEN "reply" ELSE "ereply"
    /\ aexc' = CASE o = "ok"       -> aexc
                 [] o = "nohost"   -> GaiError
                 [] o = "refused"  -> ErrConnRefused
                 [] o = "indexbug" -> IndexError
    /\ UNCHANGED <<wdeClassv, wdeObjectv, imported, jres, jerr, nres, nerr, dpc,
                   dexc, dinlc, derr, logged, req, reply, dOpen, aOpen>>

\* the reply sendall: to a dialer that is gone it may fail
SendOutcomes == IF dOpen THEN {TRUE} ELSE BOOLEAN

\* variant: ereply wrapping as BUG before it replies, so the reply
\* carries the wrapped error
EreplyWrapFirst ==
    LET e == IF well_defined(aexc) THEN aexc ELSE Error("BUG", aexc, TRUE) IN
    /\ apc = "ereply"
    /\ \E sent \in SendOutcomes :
         /\ reply' = IF ~sent THEN reply
                     ELSE IF e.obj = "ErrConnRefused" THEN Refused
                     ELSE [verb |-> "E", arg |-> Head(StrOf(e))]
         /\ aexc' = IF ~sent THEN SocketError ELSE e
    /\ apc' = "unwind"
    /\ UNCHANGED <<wdeClassv, wdeObjectv, imported, jres, jerr, nres, nerr, dpc,
                   dexc, dinlc, derr, alook, actx, logged, req, dOpen, aOpen>>

\* ereply: reply "E <err>" ("connection refused" for ErrConnRefused); a
\* failing reply raises its own error; else raise err, as BUG unless
\* well-defined
Ereply ==
    /\ apc = "ereply"
    /\ \E sent \in SendOutcomes :
         /\ reply' = IF ~sent THEN reply
                     ELSE IF aexc.obj = "ErrConnRefused" THEN Refused
                     ELSE [verb |-> "E", arg |-> Head(aexc.text)]
         /\ aexc' = IF ~sent THEN SocketError
                    ELSE IF well_defined(aexc) THEN aexc
                    ELSE Error("BUG", aexc, TRUE)
    /\ apc' = "unwind"
    /\ UNCHANGED <<wdeClassv, wdeObjectv, imported, jres, jerr, nres, nerr, dpc,
                   dexc, dinlc, derr, alook, actx, logged, req, dOpen, aOpen>>

\* reply 'connected <addr>'; a failure is sent on ack and re-raised
AcceptReply ==
    /\ apc = "reply"
    /\ \E sent \in SendOutcomes :
         /\ reply' = IF sent THEN [verb |-> "connected", arg |-> "addr"] ELSE reply
         /\ aexc' = IF sent THEN aexc ELSE SocketError
         /\ apc' = IF sent THEN "done" ELSE "unwind"
    /\ UNCHANGED <<wdeClassv, wdeObjectv, imported, jres, jerr, nres, nerr, dpc,
                   dexc, dinlc, derr, alook, actx, logged, req, dOpen, aOpen>>

\* the exception leaving errctx("%s <- %s"), _loaccept's except (close
\* osconn) and errctx("loaccept")
loaccept_exit(err, inctx) ==
    context_exit("loaccept", IF inctx THEN context_exit("dst <- src", err) ELSE err)

\* variant: _serve testing the error itself, not its cause
AcceptUnwindNoCause ==
    LET e == loaccept_exit(aexc, actx) IN
    /\ apc = "unwind"
    /\ aOpen' = FALSE
    /\ logged' = IF e.obj # "ErrConnRefused" THEN e ELSE None
    /\ apc' = "done"
    /\ UNCHANGED <<wdeClassv, wdeObjectv, imported, jres, jerr, nres, nerr, dpc,
                   dexc, dinlc, derr, alook, aexc, actx, req, reply, dOpen>>

\* _serve's goroutine: log the error unless its cause is ErrConnRefused
AcceptUnwind ==
    LET e == loaccept_exit(aexc, actx) IN
    /\ apc = "unwind"
    /\ aOpen' = FALSE
    /\ logged' = IF cause(e).obj # "ErrConnRefused" THEN e ELSE None
    /\ apc' = "done"
    /\ UNCHANGED <<wdeClassv, wdeObjectv, imported, jres, jerr, nres, nerr, dpc,
                   dexc, dinlc, derr, alook, aexc, actx, req, reply, dOpen>>

\* a lonet process dies in the middle of the handshake; the OS closes its
\* end of the connection
CrashDialer ==
    /\ dpc \in {"send", "read"}
    /\ dpc' = "crashed"
    /\ dOpen' = FALSE
    /\ UNCHANGED <<wdeClassv, wdeObjectv, imported, jres, jerr, nres, nerr, dexc,
                   dinlc, derr, apc, alook, aexc, actx, logged, req, reply, aOpen>>

CrashAcceptor ==
    /\ apc \in {"read", "lookup", "ereply", "reply"}
    /\ apc' = "crashed"
    /\ aOpen' = FALSE
    /\ UNCHANGED <<wdeClassv, wdeObjectv, imported, jres, jerr, nres, nerr, dpc,
                   dexc, dinlc, derr, alook, aexc, actx, logged, req, reply, dOpen>>

-----------------------------------------------------------------------------
(* The specification *)

\* before the lonet module is imported: only xerr's Error is registered
Init ==
    /\ XErrInit
    /\ imported = 0
    /\ jres = "idle" /\ jerr = None
    /\ nres = "idle" /\ nerr = None
    /\ dpc = "idle" /\ dexc = None /\ dinlc = FALSE /\ derr = None
    /\ apc = "none" /\ alook = "none" /\ aexc = None /\ actx = FALSE
    /\ logged = None
    /\ req = FALSE /\ reply = NoReply /\ dOpen = FALSE /\ aOpen = FALSE

Next ==
    \/ ImportLonet
    \/ \E o \in JoinOutcomes : Join(o)
    \/ \E o \in AnnounceOutcomes : NewHost(o)
    \/ \E o \in QueryOutcomes : DialQuery(o)
    \/ DialConnect \/ DialSend \/ DialRead \/ DialUnwind
    \/ AcceptRead \/ \E o \in LookupOutcomes : AcceptLookup(o)
    \/ Ereply \/ AcceptReply \/ AcceptUnwind
    \/ CrashDialer \/ CrashAcceptor

Spec == Init /\ [][Next]_vars

-----------------------------------------------------------------------------
(* Properties *)

\* an exception value as the model builds them
RECURSIVE IsExc(_)
IsExc(e) ==
    /\ e.cls \in DOMAIN LonetIsa
    /\ \A i \in DOMAIN e.text : e.text[i] \in STRING
    /\ e.tb \in BOOLEAN
    /\ e.cause = None \/ IsExc(e.cause)

\* the text an "E" reply may carry: str() of what _vnet_accept raises
ReplyTexts == {Head(x.text) : x \in {GaiError, IndexError}}

TypeOK ==
    /\ imported \in 0..Len(LonetWde)
    /\ \A e \in {jerr, nerr, dexc, derr, aexc, logged} : e = None \/ IsExc(e)
    /\ reply \in {NoReply, Refused, [verb |-> "connected", arg |-> "addr"]}
                \cup [verb : {"E"}, arg : ReplyTexts]
    /\ dpc \in {"idle", "connect", "send", "read", "unwind", "done", "crashed"}
    /\ apc \in {"none", "read", "lookup", "ereply", "reply", "unwind", "done", "crashed"}

\* A dial the acceptor refused (no listener on the port, or it went down)
\* fails exactly as lonet_test.py expects (spec scenario 1): its cause is
\* the ErrConnRefused object and it renders "dial ...: [Errno 111]
\* connection refused", with no loconnect context and no traceback.  It
\* takes ereply's special case, __loconnect's decoding and _loconnect's
\* pass-through together.
RefusedDialReport ==
    dpc = "done" /\ reply = Refused =>
        /\ cause(derr).obj = "ErrConnRefused"
        /\ Str(derr) = <<"dial", "[Errno 111] connection refused">>

\* _serve logs every handshake that failed on the accepting side except a
\* refusal the dialer was told about (spec 7; the tests require an empty
\* error log after refused dials).
ServeLogPolicy ==
    apc = "done" => (logged = None <=> reply.verb = "connected" \/ reply = Refused)

\* the errors a caller or the log sees
Surfaced == {e \in {jerr, nerr, derr, logged} : e # None}

\* A surfaced error whose cause is not well-defined -- a bug by
\* construction (spec 9) -- renders with the cause traceback, through
\* every wrapper on the way (_regerr's BUG, ereply's BUG, errctx, dial's
\* and _loconnect's excepts).
BugsCarryTraceback ==
    \A e \in Surfaced : ~well_defined(cause(e)) => Contains(Str(e), Traceback)

\* A join whose registry was made for another schema version or network
\* fails with an error that names the mismatch (_setup's "... mismatch"
\* messages) and, the mismatch being a well-defined error wrapped in the
\* well-defined RegistryError, renders without a cause traceback (spec 7:
\* "a cause traceback is appended only when the leaf is not well-defined";
\* spec 8 scenario 5).
JoinMismatchReported ==
    jres \in {"schema", "network"} =>
        /\ Contains(Str(jerr), IF jres = "schema" THEN SchemaMismatch ELSE NetworkMismatch)
        /\ ~Contains(Str(jerr), Traceback)

==============================================================================
