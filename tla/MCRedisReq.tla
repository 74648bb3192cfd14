------------------------------ MODULE MCRedisReq ------------------------------
(* Requests of every class of commands, sent one after the other, for            *)
(* redis_parse_req.  Values hold CR and LF bytes; keys are empty, short, as long *)
(* as an mbuf allows, and longer.                                                *)
EXTENDS RedisParse

VARIABLES size, sent, net, msg, out, err

Number(n) == IF n < 10 THEN <<Digits[n + 1]>> ELSE <<Digits[(n \div 10) + 1], Digits[(n % 10) + 1]>>

Bulk(text) == <<"$">> \o Number(Len(text)) \o <<CR, LF>> \o text \o <<CR, LF>>

RECURSIVE Bulks(_)
Bulks(texts) == IF texts = <<>> THEN <<>> ELSE Bulk(Head(texts)) \o Bulks(Tail(texts))

\* A request: the command and its arguments.
EncodeReq(req) == <<"*">> \o Number(Len(req)) \o <<CR, LF>> \o Bulks(req)

Parsed(m) == [type |-> m.type, keys |-> m.keys]

\* How many arguments follow a command of each class, and where its keys are,
\* by the comments of redis_argz .. redis_argeval.
Arity(c, n) ==
    CASE c = "z" -> n = 0
      [] c = "a" -> n = 1
      [] c = "b" -> n = 2
      [] c = "c" -> n = 3
      [] c = "d" -> n = 4
      [] c \in {"n", "x"} -> n >= 1
      [] c = "k" -> n >= 2 /\ n % 2 = 0
      [] c = "e" -> n >= 3
      [] OTHER -> FALSE

KeysAt(c, n) ==
    CASE c = "z" -> {}
      [] c = "x" -> 1..n
      [] c = "k" -> {i \in 1..n : i % 2 = 1}
      [] c = "e" -> {3}
      [] OTHER   -> {1}

Supported(req, mbuf) ==
    LET c == req[1][1]
        n == Len(req) - 1
    IN  IF Len(req[1]) # 1 \/ ~Arity(c, n) \/ \E i \in KeysAt(c, n) : Len(req[i + 1]) >= mbuf
        THEN [type |-> "unsupported", keys |-> <<>>]
        ELSE [type |-> c,
              keys |-> [i \in 1..(IF c = "x" THEN n ELSE IF c = "k" THEN n \div 2
                                  ELSE IF c = "z" THEN 0 ELSE 1) |->
                            req[IF c = "x" THEN i + 1 ELSE IF c = "e" THEN 4 ELSE 2 * i]]]

-----------------------------------------------------------------------------
Text(n) == [i \in 1..n |-> "x"]
NoText  == <<>>
CrLf    == <<CR, LF>>
Key3    == <<"p", "q", "r">>

Singles ==
    {<< <<"z">> >>, << <<"a">>, Key3 >>, << <<"a">>, NoText >>,
     << <<"b">>, Key3, CrLf >>, << <<"c">>, <<"p">>, NoText, Text(7) >>,
     << <<"d">>, <<"p">>, CrLf, <<"$">>, Text(2) >>,
     << <<"n">>, Text(4) >>, << <<"n">>, <<"p">>, CrLf, <<"*">>, NoText, Text(11) >>,
     << <<"x">>, Key3, <<"q">>, CrLf >>, << <<"k">>, Key3, CrLf, <<"q">>, NoText >>,
     \* what is not supported: a key too long, a wrong number of arguments, an
     \* unknown command
     << <<"a">>, Text(5) >>, << <<"a">>, Text(6) >>, << <<"a">>, <<"p">>, <<"q">> >>,
     << <<"b">>, <<"p">> >>, << <<"c">>, <<"p">>, <<"q">> >>,
     << <<"d">>, <<"p">>, <<"q">>, <<"r">> >>, << <<"k">>, <<"p">>, <<"q">>, <<"r">> >>,
     << <<"x">> >>, << <<"a", "a">>, <<"p">> >>}

Streams == {<<a>> : a \in Singles} \cup {<<a, b>> : a, b \in Singles}

Script == {<< <<"e">>, Text(3), <<"1">>, Key3 >>,
           << <<"e">>, CrLf, <<"1", "2">>, Key3, CrLf, <<"q">> >>}

\* The size of an mbuf: small ones, so that every part of a request may lie
\* across the end of one, and for scripts one that holds a whole request: EVAL
\* whose number of keys is cut by the end of a read is not parsed.
Cases == [size : {5, 6, 7}, sent : Streams] \cup [size : {99}, sent : {<<a, b>> : a, b \in Script}]

INSTANCE MsgRecv WITH Encode <- EncodeReq, Moved <- Stays, Step <- StepReq, Delivered <- Parsed,
                      Expected <- Supported
=============================================================================
