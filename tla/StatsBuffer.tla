---------------------------- MODULE StatsBuffer ----------------------------
(***************************************************************************)
(* The response of a process as stats_make_rsp writes it, call by call,    *)
(* into the buffer that stats_create_buf sized once at start (nc_stats.c). *)
(* A call that finds no room ends the response, and with it the thread of  *)
(* a worker for good (stats_worker_loop).                                  *)
(*                                                                         *)
(* The text is kept as tokens: a member (a key and its number, string or   *)
(* latencies), a key, a brace, a comma, a space, a newline.  Its length is *)
(* kept in bytes.                                                          *)
(***************************************************************************)
EXTENDS Integers, Sequences, SequencesExt, FiniteSets

CONSTANTS Shapes,         \* the configurations: for each pool its number of servers
          NameLen,        \* the length of the name of a pool or of a server
          Digits,         \* how many characters a number may take
          NBucket         \* the length of the latencies

VARIABLES shape, digits,  \* the configuration, and the characters of the numbers
          pc,             \* the next call
          len, size,      \* buf.len and buf.size
          text,           \* what is written
          status          \* "ok", "failed" or "done"

vars == <<shape, digits, pc, len, size, text, status>>

Total(s) == FoldLeft(LAMBDA a, b : a + b, 0, s)

\* The lengths of the keys (stats_create, STATS_POOL_CODEC,
\* STATS_SERVER_CODEC) and of the two strings without a bound, the source
\* and the version.
Strings == <<7 + 10, 6 + NameLen, 7 + 5>>   \* service, source, version
HeaderNums == <<6, 9, 3, 17, 16>>           \* uptime ... pid ... curr_connections
PoolKeys == <<10, 10, 18, 13, 13, 9>>
ServerKeys == <<10, 10, 15, 18, 17, 8, 13, 9, 14, 8, 14, 9, 15>>
RequestLatency == 15
ServerLatency == 14

-----------------------------------------------------------------------------
(* stats_create_buf.                                                       *)

MaxDigits == 20
KeyValueExtra == 8
PoolExtra == 8
ServerExtra == 8
PoolsTagExtra == 14
ServersTagExtra == 16
LatencyExtra == 8

NumSize(keys) == Total(keys) + Len(keys) * (MaxDigits + KeyValueExtra)
LatencySize == NBucket * (MaxDigits + 1) + LatencyExtra
ServerSize == NameLen + ServerExtra + NumSize(ServerKeys) + LatencySize
PoolSize(n) ==
  NameLen + PoolExtra + NumSize(PoolKeys) + LatencySize + ServersTagExtra + n * ServerSize

\* The process id is not counted.
Sized(sh) ==
  1 + Total(Strings) + Len(Strings) * KeyValueExtra + NumSize(<<6, 9, 17, 16>>)
    + PoolsTagExtra + Total([i \in DOMAIN sh |-> PoolSize(sh[i])]) + 2

\* NC_ALIGN to the size of a long.
Align(n) == ((n + 7) \div 8) * 8

-----------------------------------------------------------------------------
(* stats_make_rsp as the sequence of its calls.                            *)

\* A call: the bytes it writes, and those it compares with the room.
Writing(op, bytes, checked) == [op |-> op, bytes |-> bytes, checked |-> checked]
BeginNesting(key) == Writing("begin", key + 5, key + 5)
EndNesting == Writing("end", 0, 0)
Footer == Writing("footer", 1, 0)

AddString(n) == Writing("member", n + 7, n + 7)
AddNum(key) == Writing("member", key + digits + 5, key + digits + 5)
\* stats_add_latency compares before each bucket and not after the last.
AddLatency(key) ==
  Writing("member", key + 5 + NBucket * digits + (NBucket - 1) + 3,
          key + 5 + (NBucket - 1) * (digits + 1))

Each(Op(_), s) == [i \in DOMAIN s |-> Op(s[i])]

ServerCalls ==
  <<BeginNesting(NameLen)>> \o Each(AddNum, ServerKeys) \o <<AddLatency(ServerLatency), EndNesting>>

PoolCalls(n) ==
  <<BeginNesting(NameLen)>> \o Each(AddNum, PoolKeys) \o <<AddLatency(RequestLatency), BeginNesting(7)>>
    \o FlattenSeq([j \in 1 .. n |-> ServerCalls]) \o <<EndNesting, EndNesting>>

Calls(sh) ==
  Each(AddString, Strings) \o Each(AddNum, HeaderNums) \o <<BeginNesting(5)>>
    \o FlattenSeq([i \in DOMAIN sh |-> PoolCalls(sh[i])]) \o <<EndNesting, Footer>>

-----------------------------------------------------------------------------
(* The calls.                                                              *)

Call == Calls(shape)[pc]
Tail2 == SubSeq(text, Len(text) - 1, Len(text))

\* stats_add_string, stats_add_num, stats_add_latency and
\* stats_begin_nesting: nc_snprintf must fit in the room less one.
Room == size - len - 1

Written ==
  IF Call.op = "member" THEN <<"member", ",", " ">> ELSE <<"key", " ", "{">>

Add ==
  /\ status = "ok" /\ Call.op \in {"member", "begin"}
  /\ IF Call.checked >= Room
     THEN status' = "failed" /\ UNCHANGED <<text, len, pc>>
     ELSE text' = text \o Written /\ len' = len + Call.bytes /\ pc' = pc + 1 /\ UNCHANGED status
  /\ UNCHANGED <<shape, digits, size>>

\* stats_end_nesting after a member takes the place of ", ".
EndAfterMember ==
  /\ status = "ok" /\ Call.op = "end" /\ Tail2 = <<",", " ">>
  /\ text' = SubSeq(text, 1, Len(text) - 2) \o <<"}", ",">>
  /\ pc' = pc + 1
  /\ UNCHANGED <<shape, digits, len, size, status>>

\* ... and after another nesting the place of ",", plus one byte.
Closed == Front(text) \o <<"}", ",">>

EndAfterEnd ==
  /\ status = "ok" /\ Call.op = "end" /\ Tail2 = <<"}", ",">>
  /\ IF len = size
     THEN status' = "failed" /\ UNCHANGED <<text, len, pc>>
     ELSE text' = Closed /\ len' = len + 1 /\ pc' = pc + 1 /\ UNCHANGED status
  /\ UNCHANGED <<shape, digits, size>>

\* stats_add_footer.
AddFooter ==
  /\ status = "ok" /\ Call.op = "footer"
  /\ IF len = size
     THEN status' = "failed" /\ UNCHANGED <<text, len>>
     ELSE text' = Front(text) \o <<"}", "\n">> /\ len' = len + 1 /\ status' = "done"
  /\ UNCHANGED <<shape, digits, size, pc>>

\* The next interval starts again from the header, with larger numbers or
\* smaller ones.
Again ==
  /\ status = "done"
  /\ pc' = 1 /\ len' = 1 /\ text' = <<"{">> /\ status' = "ok"
  /\ \E d \in Digits : digits' = d
  /\ UNCHANGED <<shape, size>>

Init ==
  /\ shape \in Shapes /\ digits \in Digits
  /\ size = Align(Sized(shape))
  /\ pc = 1 /\ len = 1 /\ text = <<"{">> /\ status = "ok"

Next == Add \/ EndAfterMember \/ EndAfterEnd \/ AddFooter \/ Again

Spec == Init /\ [][Next]_vars

-----------------------------------------------------------------------------
(* Properties.                                                             *)

\* The size computed at start is enough for every response that is ever
\* made, up to numbers of 20 characters, although it leaves out the process
\* id and the keys of the latencies: so the thread of a worker goes on.
NeverShort == status # "failed" /\ len < size

\* The document, member by member, with commas between members only.
Object(parts) ==
  <<"{">> \o FlattenSeq([i \in DOMAIN parts |-> parts[i] \o
                           (IF i < Len(parts) THEN <<",">> ELSE <<"}">>)])
Members(n) == [i \in 1 .. n |-> <<"member">>]
Keyed(object) == <<"key">> \o object
ServerDoc == Keyed(Object(Members(Len(ServerKeys) + 1)))
PoolDoc(n) ==
  Keyed(Object(Members(Len(PoolKeys) + 1) \o <<Keyed(Object([j \in 1 .. n |-> ServerDoc]))>>))
Document(sh) ==
  Object(Members(8) \o <<Keyed(Object([i \in DOMAIN sh |-> PoolDoc(sh[i])]))>>) \o <<"\n">>

\* The response is the JSON object of its configuration: the edits that
\* stats_end_nesting and stats_add_footer make at the end of the text leave
\* no comma too many and close every brace.
ResponseIsJson ==
  status = "done" => SelectSeq(text, LAMBDA t : t # " ") = Document(shape)

============================================================================
