----------------------------- MODULE MemcacheParse ----------------------------
(* The memcache parsers, memcache_parse_req and memcache_parse_rsp of            *)
(* nc_memcache.c, byte by byte over the last mbuf of a message.  A command is    *)
(* one byte that stands for its class, a word of a reply and "noreply" two.      *)
EXTENDS Naturals, Sequences

CONSTANT MaxKey    \* MEMCACHE_MAX_KEY_LENGTH

CR == "CR"
LF == "LF"
SP == " "
Digits == <<"0", "1", "2", "3", "4", "5", "6", "7", "8", "9">>
IsDigit(ch) == \E i \in DOMAIN Digits : Digits[i] = ch
Value(ch) == (CHOOSE i \in DOMAIN Digits : Digits[i] = ch) - 1

\* memcache_storage (set, add, replace, append, prepend, and cas), memcache_cas,
\* memcache_retrieval, memcache_arithmetic, memcache_delete, memcache_touch; quit.
Storage(m)    == m.type \in {"s", "c"}
Cas(m)        == m.type = "c"
Retrieval(m)  == m.type = "g"
Arithmetic(m) == m.type = "i"
Delete(m)     == m.type = "d"
Touch(m)      == m.type = "t"
Commands      == {"s", "c", "g", "i", "d", "t", "q"}

Noreply == <<"n", "y">>

\* The parser's fields of a message as _msg_get leaves them.
Fresh ==
    [buf |-> <<>>, pos |-> 1, token |-> 0, state |-> "START", vlen |-> 0,
     type |-> "unknown", keys |-> <<>>, noreply |-> FALSE, result |-> "OK"]

Goes(m, p)     == [m |-> m, p |-> p, to |-> "on"]
Goto(m, p, to) == [m |-> m, p |-> p, to |-> to]
At(m, p, state) == Goes([m EXCEPT !.state = state], p)
Error(m, p)    == Goto(m, p, "error")

\* A line feed that ends the message, or a line.
LineFeed(m, p, next) == IF m.buf[p] = LF THEN next ELSE Error(m, p)

\* Blanks before a number, or before a key: Then is what the first other byte leads to.
Blanks(m, p, then) == IF m.buf[p] = SP THEN Goes(m, p) ELSE then

\* Digits up to a blank, or up to one of the ends.
Number(m, p, ends, then) ==
    IF IsDigit(m.buf[p]) THEN Goes(m, p)
    ELSE IF m.buf[p] \in ends THEN then ELSE Error(m, p)

\* SW_VAL of both parsers: vlen bytes, over as many mbufs as they need.
Val(m, p, state) ==
    LET e == p + m.vlen
    IN  IF e > Len(m.buf)
        THEN Goes([m EXCEPT !.vlen = @ - (Len(m.buf) + 1 - p)], Len(m.buf))
        ELSE IF m.buf[e] = CR THEN At(m, e, state) ELSE Error(m, p)

-----------------------------------------------------------------------------
(* memcache_parse_req.                                                           *)

\* SW_REQ_TYPE.
ReqType(m, p) ==
    LET ch == m.buf[p]
        c  == m.buf[m.token]
        r  == [m EXCEPT !.token = 0, !.type = c]
    IN  IF ch \notin {SP, CR} THEN Goes(m, p)     \* commands are lower case letters
        ELSE IF m.token = 0 \/ p - m.token # 1 \/ c \notin Commands THEN Error(m, p)
        ELSE IF c = "q" THEN At(r, p - 1, "CRLF")
        ELSE IF ch = CR THEN Error(m, p) ELSE At(r, p, "SPACES_BEFORE_KEY")

\* The state after a key.
AfterKey(m) ==
    IF Storage(m) THEN "SPACES_BEFORE_FLAGS"
    ELSE IF Arithmetic(m) \/ Touch(m) THEN "SPACES_BEFORE_NUM"
    ELSE IF Retrieval(m) THEN "SPACES_BEFORE_KEYS"
    ELSE "RUNTO_CRLF"

\* SW_KEY.
Key(m, p) ==
    LET ch    == m.buf[p]
        start == IF m.token = 0 THEN p ELSE m.token
        text  == SubSeq(m.buf, start, p - 1)
    IN  IF ch \notin {SP, CR} THEN Goes([m EXCEPT !.token = start], p)
        ELSE IF Len(text) > MaxKey \/ Len(text) = 0 THEN Error(m, p)
        ELSE IF ch = CR /\ (Storage(m) \/ Arithmetic(m)) THEN Error(m, p)
        ELSE At([m EXCEPT !.keys = Append(@, text), !.token = 0],
                IF ch = CR THEN p - 1 ELSE p, AfterKey(m))

\* The end of the command line, in SW_RUNTO_CRLF and SW_AFTER_NOREPLY: a value
\* follows a storage command.
EndOfLine(m, p) == At(m, p, IF Storage(m) THEN "RUNTO_VAL" ELSE "ALMOST_DONE")

\* SW_RUNTO_CRLF.
RunToCrLf(m, p) ==
    LET ch == m.buf[p]
    IN  IF ch = SP THEN Goes(m, p)
        ELSE IF ch = CR THEN EndOfLine(m, p)
        ELSE IF ch = "n" /\ (Storage(m) \/ Arithmetic(m) \/ Delete(m) \/ Touch(m))
        THEN At([m EXCEPT !.token = p], p, "NOREPLY")
        ELSE Error(m, p)

\* SW_NOREPLY: the word is looked at where the token starts.
NoreplyWord(m, p) ==
    IF m.buf[p] \notin {SP, CR} THEN Goes(m, p)
    ELSE IF m.token # 0 /\ SubSeq(m.buf, m.token, p - 1) = Noreply
    THEN At([m EXCEPT !.token = 0, !.noreply = TRUE], p - 1, "AFTER_NOREPLY")
    ELSE Error(m, p)

\* Blanks up to the end of the line, SW_CRLF of both parsers.
CrLf(m, p, end) ==
    IF m.buf[p] = SP THEN Goes(m, p) ELSE IF m.buf[p] = CR THEN end ELSE Error(m, p)

\* The number fields of a storage or arithmetic command: SW_SPACES_BEFORE_x marks
\* the first digit.
FirstDigit(m, p, more, state) ==
    Blanks(m, p, IF IsDigit(m.buf[p]) \/ m.buf[p] \in more
                 THEN At([m EXCEPT !.token = p], p, state) ELSE Error(m, p))

\* SW_VLEN: cas needs its number, other storage commands may end here.
Vlen(m, p) ==
    IF IsDigit(m.buf[p]) THEN Goes([m EXCEPT !.vlen = @ * 10 + Value(m.buf[p])], p)
    ELSE IF m.buf[p] = SP /\ Cas(m) THEN At(m, p - 1, "SPACES_BEFORE_CAS")
    ELSE IF m.buf[p] \in {SP, CR} /\ ~Cas(m) THEN At(m, p - 1, "RUNTO_CRLF")
    ELSE Error(m, p)

StepReq(m, p, size) ==
    LET ch   == m.buf[p]
        then == [m EXCEPT !.token = 0]
    IN  CASE m.state = "START" ->
               Blanks(m, p, At([m EXCEPT !.token = p], p, "REQ_TYPE"))
          [] m.state = "REQ_TYPE"               -> ReqType(m, p)
          [] m.state = "SPACES_BEFORE_KEY"      -> Blanks(m, p, At(then, p - 1, "KEY"))
          [] m.state = "KEY"                    -> Key(m, p)
          [] m.state = "SPACES_BEFORE_KEYS"     ->
               IF ch = CR THEN At(m, p, "ALMOST_DONE") ELSE Blanks(m, p, At(then, p - 1, "KEY"))
          [] m.state = "SPACES_BEFORE_FLAGS"    -> FirstDigit(m, p, {}, "FLAGS")
          [] m.state = "FLAGS"                  -> Number(m, p, {SP}, At(then, p, "SPACES_BEFORE_EXPIRY"))
          [] m.state = "SPACES_BEFORE_EXPIRY"   -> FirstDigit(m, p, {}, "EXPIRY")
          [] m.state = "EXPIRY"                 -> Number(m, p, {SP}, At(then, p, "SPACES_BEFORE_VLEN"))
          [] m.state = "SPACES_BEFORE_VLEN"     ->
               Blanks(m, p, IF IsDigit(ch) THEN At([m EXCEPT !.vlen = Value(ch)], p, "VLEN")
                            ELSE Error(m, p))
          [] m.state = "VLEN"                   -> Vlen(m, p)
          [] m.state = "SPACES_BEFORE_CAS"      -> FirstDigit(m, p, {}, "CAS")
          [] m.state = "CAS"                    -> Number(m, p, {SP, CR}, At(then, p - 1, "RUNTO_CRLF"))
          [] m.state = "RUNTO_VAL"              -> LineFeed(m, p, At(m, p, "VAL"))
          [] m.state = "VAL"                    -> Val(m, p, "ALMOST_DONE")
          [] m.state = "SPACES_BEFORE_NUM"      -> FirstDigit(m, p, {"-"}, "NUM")
          [] m.state = "NUM"                    -> Number(m, p, {SP, CR}, At(then, p - 1, "RUNTO_CRLF"))
          [] m.state = "RUNTO_CRLF"             -> RunToCrLf(m, p)
          [] m.state = "NOREPLY"                -> NoreplyWord(m, p)
          [] m.state = "AFTER_NOREPLY"          -> CrLf(m, p, EndOfLine(m, p))
          [] m.state = "CRLF"                   -> CrLf(m, p, At(m, p, "ALMOST_DONE"))
          [] m.state = "ALMOST_DONE"            -> LineFeed(m, p, Goto(m, p, "done"))

\* The state of the request parser whose token is moved.
Stays(state) == state

-----------------------------------------------------------------------------
(* memcache_parse_rsp.  From the first byte of a line on, the token marks the    *)
(* start of the line: a line that does not fit is moved and parsed again.        *)

\* VALUE, END, the one-word answers (STORED, NOT_STORED, EXISTS, NOT_FOUND,
\* DELETED, TOUCHED), ERROR, and the lines CLIENT_ERROR and SERVER_ERROR.
Words == {<<"V", "A">>, <<"E", "N">>, <<"S", "T">>, <<"E", "R">>, <<"C", "L">>}

\* SW_RSP_STR: the first word of a line.
RspStr(m, p) ==
    LET ch    == m.buf[p]
        start == IF m.token = 0 THEN p ELSE m.token
        word  == SubSeq(m.buf, start, p - 1)
        r     == [m EXCEPT !.token = start, !.type = word]
    IN  IF ch \notin {SP, CR} THEN Goes([m EXCEPT !.token = start], p)
        ELSE IF word \notin Words \/ (word = <<"E", "N">> /\ ch # CR) THEN Error(m, p)
        ELSE At(r, p - 1, CASE word = <<"V", "A">> -> "SPACES_BEFORE_KEY"
                            [] word = <<"C", "L">> -> "RUNTO_CRLF"
                            [] OTHER               -> "CRLF")

\* SW_RSP_NUM.
RspNum(m, p) ==
    LET r == [m EXCEPT !.token = IF @ = 0 THEN p ELSE @]
    IN  IF IsDigit(m.buf[p]) THEN Goes(r, p)
        ELSE IF m.buf[p] \in {SP, CR}
        THEN At([m EXCEPT !.token = 0, !.type = <<"NUM">>], p - 1, "CRLF")
        ELSE Error(m, p)

\* SW_RUNTO_CRLF: a VALUE line is followed by the value.
RunToEnd(m, p) ==
    IF m.buf[p] # CR THEN Goes(m, p)
    ELSE At(m, p, IF m.type = <<"V", "A">> THEN "RUNTO_VAL" ELSE "ALMOST_DONE")

StepRsp(m, p, size) ==
    LET ch == m.buf[p]
    IN  CASE m.state = "START" -> At(m, p - 1, IF IsDigit(ch) THEN "RSP_NUM" ELSE "RSP_STR")
          [] m.state = "RSP_NUM"              -> RspNum(m, p)
          [] m.state = "RSP_STR"              -> RspStr(m, p)
          [] m.state = "SPACES_BEFORE_KEY"    -> Blanks(m, p, At(m, p - 1, "KEY"))
          [] m.state = "KEY"                  ->
               IF ch = SP THEN At(m, p, "SPACES_BEFORE_FLAGS") ELSE Goes(m, p)
          [] m.state = "SPACES_BEFORE_FLAGS"  ->
               Blanks(m, p, IF IsDigit(ch) THEN At(m, p - 1, "FLAGS") ELSE Error(m, p))
          [] m.state = "FLAGS"                -> Number(m, p, {SP}, At(m, p, "SPACES_BEFORE_VLEN"))
          [] m.state = "SPACES_BEFORE_VLEN"   ->
               Blanks(m, p, IF IsDigit(ch) THEN At([m EXCEPT !.vlen = 0], p - 1, "VLEN")
                            ELSE Error(m, p))
          [] m.state = "VLEN"                 ->
               IF IsDigit(ch) THEN Goes([m EXCEPT !.vlen = @ * 10 + Value(ch)], p)
               ELSE IF ch \in {SP, CR} THEN At(m, p - 1, "RUNTO_CRLF") ELSE Error(m, p)
          [] m.state = "RUNTO_VAL"            ->
               LineFeed(m, p, At([m EXCEPT !.token = 0], p, "VAL"))
          [] m.state = "VAL"                  -> Val(m, p, "VAL_LF")
          [] m.state = "VAL_LF"               -> LineFeed(m, p, At(m, p, "RSP_STR"))
          [] m.state = "RUNTO_CRLF"           -> RunToEnd(m, p)
          [] m.state = "CRLF"                 -> CrLf(m, p, At(m, p, "ALMOST_DONE"))
          [] m.state = "ALMOST_DONE"          -> LineFeed(m, p, Goto(m, p, "done"))

\* The end of memcache_parse_rsp: a line that is moved is parsed from its start,
\* except the rest of a line that is only run through.
Restarts(state) ==
    IF state \in {"START", "RSP_NUM", "RSP_STR", "SPACES_BEFORE_KEY", "KEY",
                  "SPACES_BEFORE_FLAGS", "FLAGS", "SPACES_BEFORE_VLEN", "VLEN",
                  "RUNTO_VAL", "CRLF", "ALMOST_DONE"}
    THEN "START" ELSE state
=============================================================================
