------------------------------ MODULE MCRedisRsp ------------------------------
(* Replies of every kind a redis server sends, one after the other, for          *)
(* redis_parse_rsp: lines, null and empty replies, bulks that hold CR and LF,    *)
(* elements of every kind, and the nested reply of the scan commands.            *)
EXTENDS RedisParse

VARIABLES size, sent, net, msg, out, err

Digit(n) == <<Digits[n + 1]>>
Line(bytes) == bytes \o <<CR, LF>>

RECURSIVE EncodeRsp(_)
EncodeRsp(rsp) ==
    LET Elements[i \in 0..Len(rsp.of)] ==
            IF i = 0 THEN <<>> ELSE Elements[i - 1] \o EncodeRsp(rsp.of[i])
    IN  CASE rsp.kind = "status"  -> Line(<<"+">> \o rsp.text)
          [] rsp.kind = "error"   -> Line(<<"-">> \o rsp.text)
          [] rsp.kind = "integer" -> Line(<<":">> \o rsp.text)
          [] rsp.kind = "bulk"    -> Line(<<"$">> \o Digit(Len(rsp.text))) \o Line(rsp.text)
          [] rsp.kind = "null"    -> Line(<<rsp.text[1], "-", "1">>)
          [] rsp.kind = "multi"   -> Line(<<"*">> \o Digit(Len(rsp.of))) \o Elements[Len(rsp.of)]

Parsed(m) == [type |-> m.type]

Kind(rsp) ==
    CASE rsp.kind = "null"  -> IF rsp.text = <<"$">> THEN "bulk" ELSE "multibulk"
      [] rsp.kind = "multi" -> "multibulk"
      [] OTHER              -> rsp.kind

Answered(rsp, mbuf) == [type |-> Kind(rsp)]

-----------------------------------------------------------------------------
Of(kind, text) == [kind |-> kind, text |-> text, of |-> <<>>]
Multi(list)    == [kind |-> "multi", text |-> <<>>, of |-> list]

Text(n) == [i \in 1..n |-> "x"]

Lines == {Of("status", <<"O", "K">>), Of("error", <<"E", "R", " ", "x">>),
          Of("integer", <<"4", "2">>), Of("integer", <<"-", "1">>)}
Bulks == {Of("bulk", <<>>), Of("bulk", <<CR, LF>>), Of("bulk", Text(9)), Of("null", <<"$">>)}

Scan == Multi(<<Of("bulk", <<"0">>), Multi(<<Of("bulk", <<"*", "1">>), Of("null", <<"$">>)>>)>>)

Singles ==
    Lines \cup Bulks \cup
    {Of("null", <<"*">>), Multi(<<>>), Scan, Multi(<<Of("bulk", <<"0">>), Multi(<<>>)>>)}
    \cup {Multi(<<a, b>>) : a \in Bulks \cup {Of("integer", <<"7">>)}, b \in Lines \cup Bulks}

\* Errors have at least two words, as the ones redis makes: one of a single word,
\* which a script may return, is only delivered with the reply behind it.
Cases == [size : {5}, sent : {<<a, b>> : a, b \in Singles}]
         \cup [size : {7}, sent : {<<a, b>> : a \in Singles, b \in Lines}]

INSTANCE MsgRecv WITH Encode <- EncodeRsp, Moved <- Stays, Step <- StepRsp, Fresh <- FreshRsp,
                      Delivered <- Parsed, Expected <- Answered
=============================================================================
