------------------------------- MODULE MCMcReq --------------------------------
(* Requests of every class of memcache commands for memcache_parse_req, with     *)
(* values that hold CR and LF and keys at the length limit.                      *)
EXTENDS MemcacheParse

VARIABLES size, sent, net, msg, out, err

\* A request: its words, and the value of a storage command.
Words_(list) ==
    LET All[i \in 0..Len(list)] ==
            IF i = 0 THEN <<>>
            ELSE All[i - 1] \o (IF i = 1 THEN <<>> ELSE <<SP>>) \o list[i]
    IN  All[Len(list)]

EncodeReq(req) ==
    Words_(req.words) \o <<CR, LF>> \o
    (IF req.words[1][1] \in {"s", "c"} THEN req.value \o <<CR, LF>> ELSE <<>>)

Parsed(m) == [type |-> m.type, keys |-> m.keys, noreply |-> m.noreply]

\* What the protocol says of a request: the keys are the words of a retrieval,
\* the second word of the others; the last word may be "noreply".
Supported(req, mbuf) ==
    LET w    == req.words
        keys == SubSeq(w, 2, IF w[1] = <<"q">> THEN 1 ELSE IF w[1] = <<"g">> THEN Len(w) ELSE 2)
    IN  IF \E i \in DOMAIN keys : Len(keys[i]) > MaxKey
        THEN [type |-> "unsupported"]
        ELSE [type |-> w[1][1], keys |-> keys,
              noreply |-> w[1][1] # "g" /\ w[Len(w)] = Noreply]

-----------------------------------------------------------------------------
Text(n) == [i \in 1..n |-> "x"]
Digit(n) == <<Digits[n + 1]>>

Req(words)          == [words |-> words, value |-> <<>>]
Store(words, value) == [words |-> words, value |-> value]

Set(key, value, rest) ==
    Store(<< <<"s">>, key, <<"0">>, <<"1", "2">>, Digit(Len(value)) >> \o rest, value)
Swap(key, value, rest) ==
    Store(<< <<"c">>, key, <<"0">>, <<"1">>, Digit(Len(value)), <<"7", "8">> >> \o rest, value)

Plain ==
    {Req(<< <<"g">>, Text(4) >>), Req(<< <<"g">>, <<"p">>, Text(3), Noreply >>),
     Req(<< <<"i">>, Text(2), <<"5", "6">> >>), Req(<< <<"d">>, Text(4) >>),
     Req(<< <<"t">>, Text(2), <<"9">> >>), Req(<< <<"q">> >>),
     Req(<< <<"g">>, Text(5) >>), Req(<< <<"d">>, Text(6) >>)}
    \cup {Set(k, v, <<>>) : k \in {Text(1), Text(4), Text(5)}, v \in {<<>>, <<CR, LF>>, Text(9)}}
    \cup {Swap(Text(3), v, <<>>) : v \in {<<>>, <<LF, "s", SP>>}}

\* Requests with "noreply" or a negative number.
Quiet ==
    {Req(<< <<"t">>, Text(2), <<"-", "1">> >>),
     Set(Text(2), <<CR, LF>>, <<Noreply>>), Swap(Text(2), Text(1), <<Noreply>>),
     Req(<< <<"i">>, Text(2), <<"5">>, Noreply >>), Req(<< <<"d">>, Text(4), Noreply >>),
     Req(<< <<"t">>, Text(2), <<"9">>, Noreply >>)}

\* The requests of Quiet lie in one mbuf: "noreply" that ends exactly where an
\* mbuf ends is refused.
Cases ==
    [size : {6, 7, 8}, sent : {<<a, b>> : a, b \in Plain}]
    \cup [size : {99}, sent : {<<a, b>> : a, b \in Quiet}]

INSTANCE MsgRecv WITH Encode <- EncodeReq, Step <- StepReq, Moved <- Stays,
                      Delivered <- Parsed, Expected <- Supported
=============================================================================
