----------------------------- MODULE MCPodSpecs -----------------------------
(***************************************************************************)
(* Requests that differ in their names, and requests that differ in their  *)
(* ports.  Lengths are scaled: 8 characters for 63, "d" for dink, suffixes *)
(* of 2 for 6, integers of 31 bits for 64.                                 *)
(***************************************************************************)
EXTENDS PodSpecs

Alnum == {"a", "b", "d"}
LowerCase == [ch \in Alnum \cup {"A", "_", "-", "/", ":", "@"} |-> IF ch = "A" THEN "a" ELSE ch]
ShortDink == <<"d">>
TwoSuffixes == {<<"a", "b">>, <<"b", "d">>}

\* "" first: the texts in the order of strings.
TextOrder == <<"", "0", "50001", "50002", "50003", "8080", "9090", "http">>
AllTexts == ToSet(TextOrder)
TextRank == [t \in AllTexts |-> CHOOSE i \in DOMAIN TextOrder : TextOrder[i] = t]
Numbers == {"50001", "50002", "50003", "8080", "9090"}
KernelPorts == {"50001", "50002", "50003"}

\* Names of up to three characters, and of seven to nine, around the limit.
Long == <<"a", "b", "a", "b", "a", "b">>
SomeNames == LET short == BoundedSeq({"a", "A", "-", "_"}, 3) \ {<<>>}
             IN  short \cup {Long \o s : s \in short}

Key(port, proto) == [port |-> port, proto |-> proto]
NoBindings == <<>>
Plain == [name |-> <<"a">>, image |-> <<"b">>, component |-> <<"b">>,
          bindings |-> NoBindings, exposed |-> {}, nanoCPUs |-> 0, user |-> <<>>]

\* Images whose name leaves room for the suffix, part of it, a dash only, or nothing.
Registered == {<<>>, <<"a", "/">>, <<"a", ":", "d", "/", "b", "/">>}
Components == {<<"a">>, <<"a", "_", "b">>, <<"b", "a", "b">>, <<"b", "a", "b", "a">>,
               <<"b", "a", "b", "a", "b">>,
               <<"a", "b", "_", "_", "d", "a">>, <<"a", "b", "a", "b", "a", "b", "a">>}
Pinned == {<<>>, <<":", "d">>, <<"@", "a", ":", "d">>, <<":", "b", "@", "a", ":", "d">>}

NameRequests ==
    {[Plain EXCEPT !.name = n] : n \in SomeNames}
    \cup {[Plain EXCEPT !.name = n, !.image = <<>>, !.component = <<>>] : n \in {<<>>, <<"a">>, <<"-">>}}
    \cup {[Plain EXCEPT !.name = <<>>, !.image = r \o c \o p, !.component = c] :
              r \in Registered, c \in Components, p \in Pinned}

\* What 80/tcp and 80 are bound to, which is one port, beside 80/udp and 443.
Hosts == {<<>>, <<"8080">>, <<"9090", "8080">>, <<"", "8080">>, <<"http">>}
Web == {[k \in {Key(80, "tcp")} |-> h] : h \in Hosts}
Twice == {[k \in {Key(80, "tcp"), Key(80, None)} |-> IF k.proto = None THEN h ELSE <<"8080">>] :
              h \in Hosts}
Both == {[k \in {Key(80, "udp"), Key(80, "tcp")} |-> IF k.proto = "udp" THEN h ELSE <<"9090">>] :
              h \in Hosts}
Several == {[k \in {Key(443, None), Key(80, "udp"), Key(80, "tcp")} |->
               IF k.port = 443 THEN <<"0">> ELSE h] : h \in {<<"8080">>, <<"9090", "8080">>}}
Refused == {[k \in {Key(80, "tcp"), b} |-> <<"8080">>] :
               b \in {Key(0, "tcp"), Key(65536, "tcp"), Key(80, "other"), Key(65535, None)}}

PortRequests ==
    {[Plain EXCEPT !.bindings = b, !.exposed = e] :
        b \in {NoBindings} \cup Web \cup Twice \cup Both \cup Several \cup Refused,
        e \in {{}, {Key(80, None)}, {Key(80, "tcp"), Key(53, "udp")},
               {Key(80, "sctp"), Key(0, "udp")}}}

FitRequests ==
    {[Plain EXCEPT !.nanoCPUs = n, !.user = u] :
        n \in {-1000000, 0, 1, 999999, 1000000, 1000001, MaxInt - 999999, MaxInt - 999998, MaxInt},
        u \in {<<>>, <<0>>, <<1000, 1000>>, <<1000, -1>>, <<-1>>}}

AllRequests == NameRequests \cup PortRequests \cup FitRequests
=============================================================================
