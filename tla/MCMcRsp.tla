------------------------------- MODULE MCMcRsp --------------------------------
(* Replies of every kind a memcached server sends, for memcache_parse_rsp: no,   *)
(* one or two values, with and without a cas number, one-word answers, numbers   *)
(* and error lines.                                                              *)
EXTENDS MemcacheParse

VARIABLES size, sent, net, msg, out, err

Line(bytes) == bytes \o <<CR, LF>>

\* A reply is its lines; its type is that of the last one.
EncodeRsp(rsp) ==
    LET All[i \in 0..Len(rsp.lines)] ==
            IF i = 0 THEN <<>> ELSE All[i - 1] \o Line(rsp.lines[i])
    IN  All[Len(rsp.lines)]

Parsed(m) == [type |-> m.type]
Answered(rsp, mbuf) == [type |-> rsp.type]

-----------------------------------------------------------------------------
Text(n) == [i \in 1..n |-> "x"]

ValueLines(key, value, cas) ==
    << <<"V", "A", SP>> \o key \o <<SP, "0", SP, Digits[Len(value) + 1]>> \o cas, value >>

Values == {ValueLines(k, v, c) : k \in {Text(1), Text(3)},
                                 v \in {<<>>, <<"E", "N", CR, LF>>, Text(9)},
                                 c \in {<<>>, <<SP, "4", "2">>}}

End == <<"E", "N">>
Get(lines) == [lines |-> lines \o <<End>>, type |-> End]
One(line, type) == [lines |-> <<line>>, type |-> type]

Short == {Get(<<>>), One(<<"S", "T">>, <<"S", "T">>), One(<<"4", "2">>, <<"NUM">>),
          One(<<"4", SP, SP>>, <<"NUM">>), One(<<"E", "R">>, <<"E", "R">>),
          One(<<"C", "L", SP>> \o Text(9), <<"C", "L">>)}

Singles == Short \cup {Get(a) : a \in Values}

\* The size of an mbuf: as long as the longest line, or little more.
Cases ==
    [size : {15}, sent : {<<a, b>> : a, b \in Singles}]
    \cup [size : {17}, sent : {<<Get(a \o b)>> : a, b \in Values}]

INSTANCE MsgRecv WITH Encode <- EncodeRsp, Step <- StepRsp, Moved <- Restarts,
                      Delivered <- Parsed, Expected <- Answered
=============================================================================
