------------------------------- MODULE MsgRecv --------------------------------
(* Receiving and cutting a byte stream into messages (nc_message.c, nc_mbuf.c):  *)
(* msg_recv_chain reads what the socket holds into the last mbuf of the message  *)
(* being parsed, and msg_parse runs the connection's parser over it, which may   *)
(* ask for more bytes, finish a message, or ask for a repair: the token it was   *)
(* in the middle of must be moved to an mbuf of its own.  The parser is a        *)
(* parameter.  What a peer sends, and how the stream is cut into reads, is any   *)
(* of Cases, in any way.                                                         *)
EXTENDS Naturals, Sequences

CONSTANTS
    Cases,        \* set of [size, sent]: the data size of an mbuf, what is sent
    Encode(_),    \* the bytes of one message
    Step(_, _, _),\* one turn of the parser's loop: message, index, size of an mbuf
    Moved(_),     \* the parser's state when its token is moved to a new mbuf
    Fresh,        \* a message as msg_get returns it: the parser's fields
    Delivered(_), \* what recv_done is told of a parsed message
    Expected(_, _)\* what it should be told of a message sent

VARIABLES
    size,         \* mbuf_data_size()
    sent,         \* the messages the peer sends
    net,          \* the bytes not yet read
    msg,          \* the message being parsed; buf is its last mbuf
    out,          \* the messages handed to recv_done
    err           \* conn->err

vars == <<size, sent, net, msg, out, err>>

\* The bytes of a sequence of messages.
RECURSIVE Stream(_)
Stream(ms) == IF ms = <<>> THEN <<>> ELSE Encode(Head(ms)) \o Stream(Tail(ms))

\* msg_get: parsing starts at the start of an mbuf.
Message(buf) == [Fresh EXCEPT !.buf = buf, !.pos = 1]

\* The end of the loop: a token in a full mbuf has to be moved.
Ended(m) ==
    IF Len(m.buf) = size /\ m.token # 0
    THEN [m EXCEPT !.pos = m.token, !.token = 0, !.state = Moved(@), !.result = "REPAIR"]
    ELSE [m EXCEPT !.pos = Len(m.buf) + 1, !.result = "AGAIN"]

\* The loop of a parser, from an index on.
RECURSIVE Loop(_, _)
Loop(m, p) ==
    IF p > Len(m.buf) THEN Ended(m)
    ELSE LET s == Step(m, p, size)
         IN  CASE s.to = "on"    -> Loop(s.m, s.p + 1)
               [] s.to = "done"  -> [s.m EXCEPT !.pos = s.p + 1, !.token = 0,
                                                !.result = "OK"]
               [] s.to = "error" -> [s.m EXCEPT !.result = "ERROR"]

\* msg->parser, from msg->pos on.
Parser(m) == Loop(m, m.pos)

Rest(m) == SubSeq(m.buf, m.pos, Len(m.buf))

\* mbuf_split: the unparsed bytes, copied to an mbuf of their own.
Split(m) == Rest(m)

\* msg_repair: the token continues in a new mbuf.
Repaired(m) == [m EXCEPT !.buf = Split(m), !.pos = 1]

\* The loop of msg_recv_chain over msg_parse and msg_parsed: every complete
\* message is handed on, the bytes after it start the next.
RECURSIVE Chain(_, _)
Chain(m, done) ==
    LET p == Parser(m)
    IN  CASE p.result = "OK" ->
               IF p.pos > Len(p.buf)
               THEN [msg |-> Message(<<>>), out |-> Append(done, Delivered(p)), err |-> FALSE]
               ELSE Chain(Message(Split(p)), Append(done, Delivered(p)))
          [] p.result = "REPAIR" -> [msg |-> Repaired(p), out |-> done, err |-> FALSE]
          [] p.result = "AGAIN"  -> [msg |-> p, out |-> done, err |-> FALSE]
          [] p.result = "ERROR"  -> [msg |-> p, out |-> done, err |-> TRUE]

Init ==
    /\ \E c \in Cases : size = c.size /\ sent = c.sent /\ net = Stream(c.sent)
    /\ msg = Message(<<>>)
    /\ out = <<>>
    /\ err = FALSE

\* msg_recv_chain on a read of n bytes: a full mbuf is followed by a new one.
Recv(n) ==
    LET m == IF Len(msg.buf) = size THEN [msg EXCEPT !.buf = <<>>, !.pos = 1] ELSE msg
    IN  /\ ~err
        /\ n <= size - Len(m.buf)
        /\ LET after == Chain([m EXCEPT !.buf = @ \o SubSeq(net, 1, n)], out)
           IN  msg' = after.msg /\ out' = after.out /\ err' = after.err
        /\ net' = SubSeq(net, n + 1, Len(net))
        /\ UNCHANGED <<size, sent>>

Next == \E n \in 1..Len(net) : Recv(n)

Spec == Init /\ [][Next]_vars

-----------------------------------------------------------------------------
\* What should be delivered of the messages sent: all of them, up to the first
\* that the proxy does not support.
RECURSIVE Wanted(_)
Wanted(ms) ==
    IF ms = <<>> \/ Expected(Head(ms), size).type = "unsupported" THEN <<>>
    ELSE <<Expected(Head(ms), size)>> \o Wanted(Tail(ms))


\* The parser's position never leaves the mbuf it reads, and a token it is in
\* the middle of is in that mbuf: no pointer into an mbuf that was left behind.
InBounds ==
    /\ Len(msg.buf) <= size
    /\ msg.pos \in 1..Len(msg.buf) + 1
    /\ msg.token \in 0..Len(msg.buf)
=============================================================================
