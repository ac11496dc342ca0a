------------------------------- MODULE PureMC -------------------------------
(***************************************************************************)
(* The project's pure algorithms, each against its reference over bounded *)
(* inputs: Host._allocFreeSocket over every reachable port table          *)
(* (PortAllocMC), and the handshake's encoding and parsing over every      *)
(* network name, host name and port of the domains below.                 *)
(***************************************************************************)
EXTENDS PortAllocMC, Handshake

CONSTANTS
    NameChars,  \* bytes of network names
    HostChars,  \* bytes of host names
    MaxName,    \* bound on the length of a network name
    MaxHost,    \* bound on the length of a host name
    PortSet     \* ports of the dialer's and acceptor's sockets

\* the alphabets: a letter and every byte qq, the regexes, string_escape
\* or Addr.parse treat specially
NameAlphabet == {"a", Q, BS, SP, LF}
HostAlphabet == {"a", ":", BS}

\* a port of each sign (Host.listen and dial take negative ports)
DialPorts == {1, -1}

NetNames  == BoundedSeq(NameChars, MaxName)
HostNames == BoundedSeq(HostChars, MaxHost)
Addrs     == [host : HostNames, port : PortSet]

\* What spec 4.8 says a handshake gives: the acceptor parses both addresses
\* and calls vnet_accept, replying "protocol error: ..." for an address it
\* cannot parse; the dialer gets the accepted address, ErrConnRefused, or
\* an Error with the acceptor's reason.
SpecExchange(src, dst, accept, aport) ==
    CASE Contains(src.host, ":") -> ErrorText(<<"protocol error: src address invalid">>)
      [] Contains(dst.host, ":") -> ErrorText(<<"protocol error: dst address invalid">>)
      [] accept = "refused"      -> Refused
      [] accept = "nohost"       -> ErrorText(<<"no such host">>)
      [] OTHER                   -> Connected(addrstr4(dst.host, aport))

\* A name qq quotes so that _lodial_re and _loreply_re find its end
Delimited(network) == network # <<>> /\ Last(network) # BS

\* every handshake of the domains: the dialer's network (the acceptor's is
\* the same), both addresses, and what _vnet_accept does
Handshakes == [network : NetNames, src : Addrs, dst : Addrs,
               accept : {"ok", "refused", "nohost"}]

VARIABLE hs   \* the handshake under check, then Checked

Checked == [network |-> <<>>, src |-> <<>>, dst |-> <<>>, accept |-> "checked"]

\* Every handshake is an initial state and is checked there; the table
\* steps of PortAllocMC run once it is checked.
PureInit == Init /\ hs \in Handshakes

PureNext ==
    \/ hs # Checked /\ hs' = Checked /\ UNCHANGED sv
    \/ hs = Checked /\ Next /\ UNCHANGED hs

PureSpec == PureInit /\ [][PureNext]_<<sv, hs>>

\* The handshake between __loconnect and __loaccept, through qq, the lazy
\* groups of _lodial_re/_loreply_re with their backtracking, string_escape
\* and Addr.parse, ends as spec 4.8 says for every network name that is
\* non-empty and does not end in a backslash, and for every other name
\* fails every dial with "invalid dial reply": quotes, backslashes, spaces
\* and newlines inside a name all round-trip, and a host name with a colon
\* is refused as an invalid address.
HandshakeRoundTrip ==
    hs # Checked =>
        Exchange(hs.network, hs.src, hs.dst, hs.accept, 1) =
            IF Delimited(hs.network) THEN SpecExchange(hs.src, hs.dst, hs.accept, 1)
            ELSE Protocol("invalid dial reply")

=============================================================================
