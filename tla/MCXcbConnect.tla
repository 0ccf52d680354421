---------------------------- MODULE MCXcbConnect ----------------------------
(* Names, servers and failures for XcbConnect.                             *)
EXTENDS XcbConnect, TLC

CONSTANTS t1, t2

Two == {t1, t2}

Yes == [status |-> 1, length |-> 1]
MC1 == [name |-> "MC1", len |-> 1]
XA1 == [name |-> "XA1", len |-> 1]
NoFile == [f \in Family |-> NoEntry]
File(e) == [f \in Family |-> e]

Prog(n, places, file) ==
    [threads |-> {t1}, call |-> "connect", name |-> n, env |-> <<>>, supplied |-> FALSE,
     listens |-> places, addrs |-> <<"inet6", "inet">>, addrs6 |-> <<"inet6">>,
     xauth |-> file, answer |-> Yes, faults |-> {}]

\* Every name of up to NameLen tokens, as an argument and in DISPLAY.
NameLen == 5
Names == SeqOf({"/", ":", ".", "-", "1", "a"}, NameLen)
Strings ==
    {Prog(n, {"inet", "path"}, NoFile) : n \in Names}
        \cup {[Prog(<<>>, {}, NoFile) EXCEPT !.env = n, !.call = "parse_display"] : n \in Names}

Name(proto, host) == proto \o host \o <<":", "1">>
Hosts == {<<>>, <<"unix">>, <<"a">>, <<"[a]">>}
Protocols == {<<>>, <<"tcp", "/">>, <<"unix", "/">>, <<"/">>}

\* Every kind of name, server and entry, and nothing fails.
Places == {{}, {"path"}, {"abstract"}, {"inet"}, {"inet6"}, {"path", "inet6"}, {"inet", "inet6"}}
Reachable ==
    {Prog(Name(p, h), l, File(e)) : p \in Protocols, h \in Hosts, l \in Places,
                                    e \in {NoEntry, MC1}}

\* An entry is filed under one family only.
Loops ==
    {[Prog(<<"a", ":", "1">>, {a}, [NoFile EXCEPT ![f] = e]) EXCEPT !.addrs = <<a>>] :
        a \in Address, f \in Family, e \in {MC1, XA1, [MC1 EXCEPT !.len = 0]}}

\* The server refuses, or asks for more authentication, or says nothing.
Refusals ==
    {[Prog(<<":", "1">>, {"path"}, NoFile) EXCEPT !.answer = [status |-> s, length |-> n]] :
        s \in 0 .. 2, n \in 0 .. 1}

\* Everything fails but the second call for a long name.
Failures ==
    {[Prog(n, l, File(e)) EXCEPT !.faults = Fault \ {"vanish"}] :
        n \in {Name(<<>>, <<>>), Name(<<"tcp", "/">>, <<"a">>)},
        l \in {{"path", "inet"}, {"abstract", "inet6"}}, e \in {MC1, XA1}}

\* Two threads connect at once.
Nonces == {[Prog(<<":", "1">>, {"abstract"}, File(XA1)) EXCEPT !.threads = Two]}

\* The application brings its authorization.
Supplied == {[Prog(<<":", "1">>, {"path"}, NoFile) EXCEPT !.supplied = TRUE]}

ConnectPrograms ==
    Strings \cup Reachable \cup Loops \cup Refusals \cup Failures \cup Nonces \cup Supplied
=============================================================================
