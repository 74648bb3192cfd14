------------------------------ MODULE RedisParse ------------------------------
(* The redis parsers, redis_parse_req and redis_parse_rsp of nc_redis.c, byte by *)
(* byte over the last mbuf of a message.  A state is a field of the protocol and *)
(* where in it the parser is: its length line (LEN), the line feed after that    *)
(* (LEN_LF), its bytes (DATA) or the line feed after them (LF).  A command is    *)
(* one byte, the class of commands that redis_arg0 .. redis_argeval put it in.   *)
EXTENDS Naturals, Sequences

CR == "CR"
LF == "LF"
Digits == <<"0", "1", "2", "3", "4", "5", "6", "7", "8", "9">>
IsDigit(ch) == \E i \in DOMAIN Digits : Digits[i] = ch
Value(ch) == (CHOOSE i \in DOMAIN Digits : Digits[i] = ch) - 1

\* The classes of commands: no key, a key and as many arguments, a key and any
\* number of arguments, keys, pairs of a key and a value, EVAL and EVALSHA.
Argz    == "z"
Arg0    == "a"
Arg1    == "b"
Arg2    == "c"
Arg3    == "d"
Argn    == "n"
Argx    == "x"
Argkvx  == "k"
Argeval == "e"
Classes == {Argz, Arg0, Arg1, Arg2, Arg3, Argn, Argx, Argkvx, Argeval}

\* The parser's fields of a message as _msg_get leaves them.
Fresh ==
    [buf |-> <<>>, pos |-> 1, token |-> 0, state |-> <<"NARG", "LEN">>,
     rlen |-> 0, rnarg |-> 0, narg |-> 0, type |-> "unknown", keys |-> <<>>,
     result |-> "OK"]

FreshRsp == [Fresh EXCEPT !.state = <<"START", "DATA">>]

\* The state of a redis parser whose token is moved.
Stays(state) == state

\* What one turn of the loop leaves: the message, the index it is at, and
\* whether it goes on.
Goes(m, p)     == [m |-> m, p |-> p, to |-> "on"]
Goto(m, p, to) == [m |-> m, p |-> p, to |-> to]
At(m, p, state) == Goes([m EXCEPT !.state = state], p)

-----------------------------------------------------------------------------
(* Parts the states share.                                                       *)

\* The line "$<digits> CR" (or "*<digits> CR") of a field.  Ok(m, p) is the
\* field's own condition at CR, Then(m) what it does there.
LengthLine(m, p, sign, num, Ok(_, _), Then(_)) ==
    LET ch == m.buf[p]
    IN  IF m.token = 0
        THEN IF ch # sign THEN Goto(m, p, "error")
             ELSE Goes([m EXCEPT !.token = p, ![num] = 0], p)
        ELSE IF IsDigit(ch) THEN Goes([m EXCEPT ![num] = @ * 10 + Value(ch)], p)
        ELSE IF ch = CR /\ Ok(m, p) THEN Goes([Then(m) EXCEPT !.token = 0], p)
        ELSE Goto(m, p, "error")

\* Bytes that need not be in one mbuf: what is still missing is kept in rlen.
SkipData(m, p, state) ==
    LET e == p + m.rlen
    IN  IF e > Len(m.buf)
        THEN Goes([m EXCEPT !.rlen = @ - (Len(m.buf) + 1 - p)], Len(m.buf))
        ELSE IF m.buf[e] # CR THEN Goto(m, p, "error")
        ELSE At([m EXCEPT !.rlen = 0], e, state)

\* Bytes that must be in one mbuf: the token marks their start.  Got(m, text)
\* is what is done with them.
TokenData(m, p, Got(_, _), state) ==
    LET start == IF m.token = 0 THEN p ELSE m.token
        e     == start + m.rlen
    IN  IF e > Len(m.buf) THEN Goes([m EXCEPT !.token = start], Len(m.buf))
        ELSE IF m.buf[e] # CR THEN Goto(m, p, "error")
        ELSE At(Got([m EXCEPT !.rlen = 0, !.token = 0], SubSeq(m.buf, start, e - 1)),
                e, state)

\* The line feed after a line or after a field's bytes.
LineFeed(m, p, next) == IF m.buf[p] = LF THEN next ELSE Goto(m, p, "error")

-----------------------------------------------------------------------------
(* redis_parse_req.                                                              *)

\* Where SW_REQ_TYPE_LF, SW_KEY_LF and SW_ARG1_LF to SW_ARGN_LF go: the next
\* field, "done" or "error", by the command and the arguments that remain.
After(field, m) ==
    LET c == m.type
        n == m.rnarg
        Exactly(k, next) == IF n = k THEN next ELSE "error"
        AtLeast(k, next) == IF n >= k THEN next ELSE "error"
        OrDone(next)     == IF n = 0 THEN "done" ELSE next
    IN  CASE field = "TYPE" ->
               IF c = Argz THEN "done" ELSE IF m.narg = 1 THEN "error"
               ELSE IF c = Argeval THEN "ARG1" ELSE "KEY"
          [] field = "KEY" ->
              (CASE c = Arg0    -> Exactly(0, "done")
                 [] c = Arg1    -> Exactly(1, "ARG1")
                 [] c = Arg2    -> Exactly(2, "ARG1")
                 [] c = Arg3    -> Exactly(3, "ARG1")
                 [] c = Argn    -> OrDone("ARG1")
                 [] c = Argx    -> OrDone("KEY")
                 [] c = Argkvx  -> IF m.narg % 2 = 0 THEN "error" ELSE "ARG1"
                 [] c = Argeval -> OrDone("ARGN"))
          [] field = "ARG1" ->
              (CASE c = Arg1    -> Exactly(0, "done")
                 [] c = Arg2    -> Exactly(1, "ARG2")
                 [] c = Arg3    -> Exactly(2, "ARG2")
                 [] c = Argn    -> OrDone("ARGN")
                 [] c = Argeval -> AtLeast(2, "ARG2")
                 [] c = Argkvx  -> OrDone("KEY")
                 [] OTHER       -> "error")
          [] field = "ARG2" ->
              (CASE c = Arg2    -> Exactly(0, "done")
                 [] c = Arg3    -> Exactly(1, "ARG3")
                 [] c = Argn    -> OrDone("ARGN")
                 [] c = Argeval -> AtLeast(1, "KEY")
                 [] OTHER       -> "error")
          [] field = "ARG3" ->
              (CASE c = Arg3    -> Exactly(0, "done")
                 [] c = Argn    -> OrDone("ARGN")
                 [] OTHER       -> "error")
          [] field = "ARGN" ->
               IF c \in {Argn, Argeval} THEN OrDone("ARGN") ELSE "error"

\* SW_START, SW_NARG and SW_NARG_LF.
Narg(m, p) ==
    IF m.state[2] = "LEN"
    THEN LengthLine(m, p, "*", "rnarg", LAMBDA r, q : r.rnarg # 0,
                    LAMBDA r : [r EXCEPT !.narg = r.rnarg, !.state = <<"NARG", "LF">>])
    ELSE LineFeed(m, p, At(m, p, <<"TYPE", "LEN">>))

\* SW_REQ_TYPE_LEN, SW_KEY_LEN and SW_ARG1_LEN to SW_ARGN_LEN: a command is not
\* empty, a key fits in an mbuf with the CR after it, and an argument has a length.
FieldLen(m, p, size) ==
    LET field == m.state[1]
        Ok(r, q) ==
            /\ r.rnarg # 0
            /\ CASE field = "TYPE" -> r.rlen # 0
                 [] field = "KEY"  -> r.rlen < size
                 [] OTHER          -> q - r.token > 1
    IN  LengthLine(m, p, "$", "rlen", Ok,
                   LAMBDA r : [r EXCEPT !.rnarg = @ - 1, !.state = <<field, "LEN_LF">>])

\* SW_REQ_TYPE: the command must be known.  The table of names is abstracted
\* to the classes of commands.
ReqType(m, p) ==
    LET s == TokenData(m, p, LAMBDA r, text : [r EXCEPT !.type =
                 IF Len(text) = 1 /\ text[1] \in Classes THEN text[1] ELSE "unknown"],
                 <<"TYPE", "LF">>)
    IN  IF s.m.state[2] = "LF" /\ s.m.type = "unknown" THEN Goto(s.m, s.p, "error")
        ELSE s


\* SW_KEY: the key is kept.
KeyData(m, p) ==
    TokenData(m, p, LAMBDA r, text : [r EXCEPT !.keys = Append(@, text)], <<"KEY", "LF">>)

\* SW_ARG2 of EVAL: the number of keys is looked at, so its start is marked,
\* and then the bytes are passed over like those of any argument.
EvalData(m, p) ==
    LET marked == IF m.token = 0 THEN [m EXCEPT !.token = p] ELSE m
        s      == SkipData(marked, p, <<"ARG2", "LF">>)
        text   == SubSeq(m.buf, marked.token, s.p - 1)
    IN  IF s.to = "error" \/ s.m.state[2] = "DATA" THEN s
        ELSE IF /\ text # <<>>
                /\ \A i \in DOMAIN text : IsDigit(text[i])
                /\ \E i \in DOMAIN text : text[i] # "0"
        THEN Goes([s.m EXCEPT !.token = 0], s.p)
        ELSE Goto(s.m, s.p, "error")

\* The bytes of a field.
FieldData(m, p) ==
    CASE m.state[1] = "TYPE" -> ReqType(m, p)
      [] m.state[1] = "KEY"  -> KeyData(m, p)
      [] m.state = <<"ARG2", "DATA">> /\ m.type = Argeval -> EvalData(m, p)
      [] OTHER               -> SkipData(m, p, <<m.state[1], "LF">>)

\* The line feed after the bytes of a field.
FieldLf(m, p) ==
    LET next == After(m.state[1], m)
    IN  LineFeed(m, p, IF next \in {"done", "error"} THEN Goto(m, p, next)
                       ELSE At(m, p, <<next, "LEN">>))

StepReq(m, p, size) ==
    CASE m.state[1] = "NARG"   -> Narg(m, p)
      [] m.state[2] = "LEN"    -> FieldLen(m, p, size)
      [] m.state[2] = "LEN_LF" -> LineFeed(m, p, At(m, p, <<m.state[1], "DATA">>))
      [] m.state[2] = "DATA"   -> FieldData(m, p)
      [] m.state[2] = "LF"     -> FieldLf(m, p)

-----------------------------------------------------------------------------
(* redis_parse_rsp.                                                              *)

\* SW_START: the first byte tells the kind of the reply; the state it leads to
\* looks at that byte again.
Start(m, p) ==
    LET Kind(type, state) == At([m EXCEPT !.type = type], p - 1, state)
        ch == m.buf[p]
    IN  CASE ch = "+" -> Kind("status", <<"STATUS", "DATA">>)
          [] ch = "-" -> Kind("error", <<"ERROR", "DATA">>)
          [] ch = ":" -> Kind("integer", <<"INTEGER", "DATA">>)
          [] ch = "$" -> Kind("bulk", <<"BULK", "LEN">>)
          [] ch = "*" -> Kind("multibulk", <<"MULTIBULK", "LEN">>)
          [] OTHER    -> Goto(m, p, "error")

RunTo    == <<"RUNTO_CRLF", "DATA">>
Almost   == <<"ALMOST_DONE", "LF">>
ElemLen  == <<"ARGN", "LEN">>
ElemLf   == <<"ARGN", "LF">>

\* SW_ERROR: the word that names the error, up to a blank or the end of the line.
ErrorWord(m, p) ==
    LET ch == m.buf[p]
        marked == IF m.token = 0 THEN [m EXCEPT !.token = p] ELSE m
    IN  IF m.token = 0 /\ ch # "-" THEN Goto(m, p, "error")
        ELSE IF ch \in {" ", CR} THEN At([marked EXCEPT !.token = 0], p, RunTo)
        ELSE Goes(marked, p)

\* SW_INTEGER and SW_INTEGER_START.
IntegerLine(m, p) ==
    LET ch == m.buf[p]
    IN  IF m.state[2] = "DATA" THEN At(m, p, <<"INTEGER", "REST">>)
        ELSE IF ch = CR THEN At(m, p, Almost)
        ELSE IF ch = "-" \/ IsDigit(ch) THEN Goes(m, p) ELSE Goto(m, p, "error")

\* SW_BULK and SW_MULTIBULK: the length, or the null reply "-1".
ReplyLen(m, p, sign, num, then) ==
    IF m.token # 0 /\ m.buf[p] = "-" THEN At(m, p, RunTo)
    ELSE LengthLine(m, p, sign, num, LAMBDA r, q : q - r.token > 1,
                    LAMBDA r : [r EXCEPT !.narg = r.rnarg, !.state = then])

\* SW_MULTIBULK_ARGN_LEN: an element is a nested reply, one line, a null bulk,
\* or a bulk.
ElementLen(m, p) ==
    LET ch   == m.buf[p]
        null == m.rlen = 1 /\ p - m.token = 3
    IN  IF m.token = 0 /\ ch = "*" THEN At(m, p - 1, <<"MULTIBULK", "LEN">>)
        ELSE IF m.token = 0 /\ ch \in {":", "+", "-"} THEN At(m, p, <<"SIMPLE", "DATA">>)
        ELSE IF m.token # 0 /\ ch = "-" THEN Goes(m, p)
        ELSE LengthLine(m, p, "$", "rlen", LAMBDA r, q : q - r.token > 1 /\ r.rnarg # 0,
                LAMBDA r : [r EXCEPT !.rnarg = @ - 1, !.rlen = IF null THEN 0 ELSE @,
                                     !.state = IF null THEN ElemLf ELSE <<"ARGN", "LEN_LF">>])

\* SW_SIMPLE.
Simple(m, p) ==
    IF m.buf[p] = CR THEN At([m EXCEPT !.rnarg = @ - 1], p, ElemLf) ELSE Goes(m, p)

\* SW_MULTIBULK_NARG_LF and SW_MULTIBULK_ARGN_LF: the reply ends with its last
\* element.
ElementsLf(m, p) ==
    LineFeed(m, p, IF m.rnarg = 0 THEN Goto(m, p, "done") ELSE At(m, p, ElemLen))

StepRsp(m, p, size) ==
    CASE m.state[1] = "START"       -> Start(m, p)
      [] m.state[1] = "STATUS"      -> At(m, p, RunTo)
      [] m.state[1] = "ERROR"       -> ErrorWord(m, p)
      [] m.state[1] = "INTEGER"     -> IntegerLine(m, p)
      [] m.state[1] = "RUNTO_CRLF"  -> IF m.buf[p] = CR THEN At(m, p, Almost) ELSE Goes(m, p)
      [] m.state[1] = "ALMOST_DONE" -> LineFeed(m, p, Goto(m, p, "done"))
      [] m.state[1] = "SIMPLE"      -> Simple(m, p)
      [] m.state = <<"BULK", "LEN">>       -> ReplyLen(m, p, "$", "rlen", <<"BULK", "LEN_LF">>)
      [] m.state = <<"BULK", "LF">>        -> LineFeed(m, p, Goto(m, p, "done"))
      [] m.state = <<"MULTIBULK", "LEN">>  -> ReplyLen(m, p, "*", "rnarg", <<"MULTIBULK", "LF">>)
      [] m.state = <<"MULTIBULK", "LF">>   -> ElementsLf(m, p)
      [] m.state = ElemLen                 -> ElementLen(m, p)
      [] m.state = ElemLf                  -> ElementsLf(m, p)
      [] m.state[2] = "LEN_LF"      -> LineFeed(m, p, At(m, p, <<m.state[1], "DATA">>))
      [] m.state[2] = "DATA" /\ m.state[1] \in {"BULK", "ARGN"} ->
             SkipData(m, p, <<m.state[1], "LF">>)
=============================================================================
