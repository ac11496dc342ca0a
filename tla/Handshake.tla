------------------------------ MODULE Handshake ------------------------------
(***************************************************************************)
(* The lonet handshake's text encoding (src/xnet/lonet/__init__.py): the   *)
(* dial request __loconnect writes, how __loaccept matches it with         *)
(* _lodial_re and decodes it, the reply it writes, and how __loconnect     *)
(* matches that with _loreply_re.  Spec 8 says the round trip regenerates  *)
(* every string lonet's quoter can emit.                                   *)
(*                                                                         *)
(* A line is a sequence of tokens.  A character of a name or an address   *)
(* is one token; a fixed word ("lonet", "dial", "connected", "E") and a    *)
(* fixed error text are one token each.  No word is directly followed by  *)
(* a quote and none holds a quote, a backslash or whitespace, so a regex  *)
(* group can begin or end inside a word only where its following literal *)
(* (a quote or a space) cannot match: the matches are those of the bytes. *)
(***************************************************************************)
EXTENDS Integers, Sequences, SequencesExt, TLC

Q   == "\""    \* a double quote
BS  == "\\"    \* a backslash
SP  == " "
LF  == "\n"
BEL == "BEL"   \* the byte "\a" decodes to

Space == {SP, LF}
Digit == [d \in 0..9 |-> ToString(d)]

Drop(s, k) == SubSeq(s, k + 1, Len(s))

-----------------------------------------------------------------------------
(* Quoting and unquoting *)

\* gcompat.qq: wrap in quotes, escape the quote, the backslash and a newline
QEsc(c) ==
    CASE c = Q  -> <<BS, Q>>
      [] c = BS -> <<BS, BS>>
      [] c = LF -> <<BS, "n">>
      [] OTHER  -> <<c>>

qq(s) == <<Q>> \o FlattenSeq([i \in DOMAIN s |-> QEsc(s[i])]) \o <<Q>>

\* str.decode('string_escape') (Python 2): a backslash and the byte after
\* it are one escape; \\ \' \" \n \a decode to one byte, an unknown escape
\* stays as it is.
Unesc(c) ==
    CASE c \in {BS, Q, "'"} -> <<c>>
      [] c = "n"            -> <<LF>>
      [] c = "a"            -> <<BEL>>
      [] OTHER              -> <<BS, c>>

RECURSIVE string_escape(_)
string_escape(s) ==
    IF s = <<>> THEN <<>>
    ELSE IF Head(s) = BS /\ Len(s) >= 2
         THEN Unesc(s[2]) \o string_escape(Drop(s, 2))
         ELSE <<Head(s)>> \o string_escape(Tail(s))

-----------------------------------------------------------------------------
(* Addresses *)

RECURSIVE Digits(_)
Digits(n) == IF n < 10 THEN <<Digit[n]>> ELSE Digits(n \div 10) \o <<Digit[n % 10]>>

\* addrstr4: "%s:%d" % (host, port)
addrstr4(host, port) ==
    host \o <<":">> \o (IF port < 0 THEN <<"-">> \o Digits(-port) ELSE Digits(port))

\* int(s): surrounding whitespace, an optional sign, at least one digit;
\* ok is FALSE where it raises ValueError
RECURSIVE DigitsValue(_)
DigitsValue(s) == IF s = <<>> THEN 0
                  ELSE DigitsValue(Front(s)) * 10
                       + CHOOSE d \in 0..9 : Digit[d] = Last(s)

RECURSIVE Strip(_)
Strip(s) ==
    IF s # <<>> /\ Head(s) \in Space THEN Strip(Tail(s))
    ELSE IF s # <<>> /\ Last(s) \in Space THEN Strip(Front(s)) ELSE s

PyInt(s) ==
    LET t    == Strip(s)
        sign == IF t # <<>> /\ Head(t) \in {"+", "-"} THEN Head(t) ELSE ""
        ds   == IF sign = "" THEN t ELSE Tail(t)
    IN  IF ds # <<>> /\ \A i \in DOMAIN ds : ds[i] \in Range(Digit)
        THEN [ok |-> TRUE, val |-> IF sign = "-" THEN -DigitsValue(ds) ELSE DigitsValue(ds)]
        ELSE [ok |-> FALSE, val |-> 0]

\* Addr.parse(net, addr): addr.split(':') must give two parts and the
\* second must be an int; ok is FALSE where it raises ValueError
AddrParse(addr) ==
    LET colon == SelectInSeq(addr, LAMBDA c : c = ":")
        port  == PyInt(Drop(addr, colon))
    IN  IF colon = 0 \/ Contains(Drop(addr, colon), ":") \/ ~port.ok
        THEN [ok |-> FALSE, host |-> <<>>, port |-> 0]
        ELSE [ok |-> TRUE, host |-> SubSeq(addr, 1, colon - 1), port |-> port.val]

-----------------------------------------------------------------------------
(* re.match with Python's backtracking order *)

\* A pattern is a sequence of items: a literal, ".*?[^\\]" (lazy: the
\* shortest group first) or "[^\s]+" (greedy: the longest first).  A match
\* is ok with its groups, or not ok.
Lit(s)   == [kind |-> "lit", seq |-> s]
LazyQ    == [kind |-> "lazy", seq |-> <<>>]
NonSpace == [kind |-> "nonspace", seq |-> <<>>]

NoMatch == [ok |-> FALSE, groups |-> <<>>]
WithGroup(g, m) == IF m.ok THEN [ok |-> TRUE, groups |-> <<g>> \o m.groups] ELSE NoMatch

RECURSIVE Match(_, _), LazyFrom(_, _, _), GreedyFrom(_, _, _)
Match(pat, txt) ==
    IF pat = <<>> THEN [ok |-> TRUE, groups |-> <<>>]
    ELSE CASE Head(pat).kind = "lit" ->
                IF IsPrefix(Head(pat).seq, txt)
                THEN Match(Tail(pat), Drop(txt, Len(Head(pat).seq)))
                ELSE NoMatch
           [] Head(pat).kind = "lazy" -> LazyFrom(Tail(pat), txt, 1)
           [] OTHER ->
                LET sp == SelectInSeq(txt, LAMBDA c : c \in Space)
                IN  GreedyFrom(Tail(pat), txt, IF sp = 0 THEN Len(txt) ELSE sp - 1)

\* ".*?" never takes a newline; "[^\\]" takes any byte but a backslash
LazyFrom(rest, txt, k) ==
    IF k > Len(txt) \/ (k > 1 /\ txt[k - 1] = LF) THEN NoMatch
    ELSE LET m == IF txt[k] # BS
                  THEN WithGroup(SubSeq(txt, 1, k), Match(rest, Drop(txt, k)))
                  ELSE NoMatch
         IN  IF m.ok THEN m ELSE LazyFrom(rest, txt, k + 1)

GreedyFrom(rest, txt, k) ==
    IF k = 0 THEN NoMatch
    ELSE LET m == WithGroup(SubSeq(txt, 1, k), Match(rest, Drop(txt, k)))
         IN  IF m.ok THEN m ELSE GreedyFrom(rest, txt, k - 1)

\* _lodial_re  = '> lonet "(?P<network>.*?[^\\])" dial "(?P<src>.*?[^\\])" "(?P<dst>.*?[^\\])"\n'
\* _loreply_re = '< lonet "(?P<network>.*?[^\\])" (?P<reply>[^\s]+) "(?P<arg>.*?[^\\])"\n'
lodial_re  == <<Lit(<<">", SP, "lonet", SP, Q>>), LazyQ, Lit(<<Q, SP, "dial", SP, Q>>),
                LazyQ, Lit(<<Q, SP, Q>>), LazyQ, Lit(<<Q, LF>>)>>
loreply_re == <<Lit(<<"<", SP, "lonet", SP, Q>>), LazyQ, Lit(<<Q, SP>>), NonSpace,
                Lit(<<SP, Q>>), LazyQ, Lit(<<Q, LF>>)>>

-----------------------------------------------------------------------------
(* The two ends *)

\* what a dial ends with: connected to an address, ErrConnRefused, an Error
\* with the acceptor's text, or a protocolError with its reason
Connected(addr) == [kind |-> "connected", text |-> addr]
Refused         == [kind |-> "refused", text |-> <<>>]
ErrorText(t)    == [kind |-> "error", text |-> t]
Protocol(r)     == [kind |-> "protocol", text |-> <<r>>]

\* __loconnect: the request line
DialLine(network, src, dst) ==
    <<">", SP, "lonet", SP>> \o qq(network) \o <<SP, "dial", SP>>
    \o qq(src) \o <<SP>> \o qq(dst) \o <<LF>>

\* reply() writing the network name without qq
ReplyLineUnquoted(network, reply) == <<"<", SP, "lonet", SP>> \o network \o <<SP>> \o reply \o <<LF>>

\* reply(): '< lonet %s %s\n' % (qq(n._network), reply)
ReplyLine(network, reply) == <<"<", SP, "lonet", SP>> \o qq(network) \o <<SP>> \o reply \o <<LF>>

\* eproto replies qq(protocolError(ereason)), "protocol error: <reason>"
EProto(reason) == <<"E", SP>> \o qq(<<"protocol error: " \o reason>>)

\* __loaccept from the request line to the reply it writes.  accept is
\* what _vnet_accept does: "ok" with the accepted socket's port aport,
\* "refused" (ErrConnRefused, replied as "connection refused") or "nohost"
\* (ErrNoHost, "no such host").
loaccept(line, mynetwork, accept, aport) ==
    LET m       == Match(lodial_re, line)
        network == string_escape(m.groups[1])
        src     == AddrParse(string_escape(m.groups[2]))
        dst     == AddrParse(string_escape(m.groups[3]))
    IN  CASE ~m.ok                  -> EProto("invalid dial request")
          [] network # mynetwork    -> EProto("network mismatch")
          [] ~src.ok                -> EProto("src address invalid")
          [] ~dst.ok                -> EProto("dst address invalid")
          [] accept = "refused"     -> <<"E", SP>> \o qq(<<"connection refused">>)
          [] accept = "nohost"      -> <<"E", SP>> \o qq(<<"no such host">>)
          [] OTHER -> <<"connected", SP>> \o qq(addrstr4(dst.host, aport))

\* __loconnect from the reply line to what the dial ends with
loconnect(line, mynetwork, dsthost) ==
    LET m       == Match(loreply_re, line)
        network == string_escape(m.groups[1])
        reply   == m.groups[2]
        arg     == string_escape(m.groups[3])
        aaddr   == AddrParse(arg)
    IN  CASE ~m.ok                                   -> Protocol("invalid dial reply")
          [] reply = <<"E">> /\ arg = <<"connection refused">> -> Refused
          [] reply = <<"E">>                         -> ErrorText(arg)
          [] reply # <<"connected">>                 -> Protocol("invalid reply verb")
          [] network # mynetwork                     -> Protocol("connected, but network mismatch")
          [] ~aaddr.ok                               -> Protocol("UnboundLocalError")
          [] aaddr.host # dsthost                    -> Protocol("connected, but accept address is for different host")
          [] OTHER                                   -> Connected(addrstr4(aaddr.host, aaddr.port))

\* one handshake between two processes of the same network
Exchange(network, src, dst, accept, aport) ==
    loconnect(ReplyLine(network,
                        loaccept(DialLine(network, addrstr4(src.host, src.port),
                                          addrstr4(dst.host, dst.port)),
                                 network, accept, aport)),
              network, dst.host)

==============================================================================
