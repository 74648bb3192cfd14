---------------------------- MODULE MCStatistics ----------------------------
(***************************************************************************)
(* The statistics from an update to what a collector receives: the arrays  *)
(* of one process (Stats), the response made of them (StatsBuffer, with    *)
(* numbers of few digits and of as many as an int64_t may have), and the   *)
(* reply of the master made of the responses of two workers (StatsReply).  *)
(* A behaviour is that of one of the three.                                *)
(***************************************************************************)
EXTENDS MCStats

VARIABLES
  part,
  shape, digits, pc, len, size, text, status,  \* of StatsBuffer
  mem, buf, pos, place, who, length, reply     \* of StatsReply

buffer == <<shape, digits, pc, len, size, text, status>>
pages  == <<mem, buf, pos, place, who, length, reply>>

Buffer == INSTANCE StatsBuffer WITH
  Shapes <- {<<1>>, <<2>>, <<1, 1>>, <<2, 1>>, <<1, 3>>}, NameLen <- 5,
  Digits <- {1, 7, 20}, NBucket <- 11

\* Responses of one length, and every worker has made one before the first
\* collector comes.
Reply == INSTANCE StatsReply WITH
  Workers <- 2, Digit <- {"1", "2"}, Lengths <- {2}, Written <- TRUE,
  at <- place, size <- length

NoBuffer ==
  /\ shape = 0 /\ digits = 0 /\ pc = 0 /\ len = 0 /\ size = 0 /\ text = 0 /\ status = 0
NoPages ==
  /\ mem = 0 /\ buf = 0 /\ pos = 0 /\ place = 0 /\ who = 0 /\ length = 0 /\ reply = 0

AllInit ==
  \/ part = "arrays" /\ Init /\ NoBuffer /\ NoPages
  \/ part = "buffer" /\ Init /\ Buffer!Init /\ NoPages
  \/ part = "reply"  /\ Init /\ NoBuffer /\ Reply!Init

AllNext ==
  \/ part = "arrays" /\ MCNext /\ UNCHANGED <<part, buffer, pages>>
  \/ part = "buffer" /\ Buffer!Next /\ UNCHANGED <<part, vars, pages>>
  \/ part = "reply"  /\ Reply!Next /\ UNCHANGED <<part, vars, buffer>>

AllSpec == AllInit /\ [][AllNext]_<<part, vars, buffer, pages>>

-----------------------------------------------------------------------------
=============================================================================
