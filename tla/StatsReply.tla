---------------------------- MODULE StatsReply -----------------------------
(***************************************************************************)
(* How the statistics of the workers reach a collector when there are      *)
(* several processes (nc_stats.c).  The thread of each worker copies its   *)
(* response into a page it shares with the master and ends it with a NUL.  *)
(* The thread of the master takes the length of every page, allocates,     *)
(* takes the lengths again and copies.  Nothing orders the threads.        *)
(*                                                                         *)
(* A response is an opening brace, the digits of its numbers, a closing    *)
(* brace and a newline.                                                    *)
(***************************************************************************)
EXTENDS Integers, Sequences, FiniteSets, SequencesExt, FiniteSetsExt

CONSTANTS Workers,  \* how many workers there are
          Digit,    \* the digits
          Lengths,  \* how many digits a response may have
          Written   \* whether every worker wrote once before the first read

Worker == 1 .. Workers
MaxLen == Max(Lengths) + 4
Nul == "NUL"

VARIABLES mem,   \* the page of a worker (ctx->shared_mem)
          buf,   \* the response a worker is copying (st->buf), or <<>>
          pos,   \* how much of it is copied
          at,    \* where the master is: "idle", "measure", "copy" or "send"
          who,   \* the worker it is at
          size,  \* the length it has measured (buf.size)
          reply  \* what it has put together (buf.data)

vars == <<mem, buf, pos, at, who, size, reply>>

Responses == {<<"{">> \o d \o <<"}", "\n">> : d \in UNION {[1 .. n -> Digit] : n \in Lengths}}

Page(s) == [i \in 1 .. MaxLen |-> IF i <= Len(s) THEN s[i] ELSE Nul]

Strlen(page) == Min({i \in 1 .. MaxLen : page[i] = Nul}) - 1

-----------------------------------------------------------------------------
(* The thread of a worker (stats_worker_loop).                             *)

\* stats_make_rsp has a new response.
MakeRsp(w) ==
  /\ buf[w] = <<>>
  /\ \E r \in Responses : buf' = [buf EXCEPT ![w] = r]
  /\ pos' = [pos EXCEPT ![w] = 0]
  /\ UNCHANGED <<mem, at, who, size, reply>>

\* memcpy, in order.
CopyByte(w) ==
  /\ pos[w] < Len(buf[w])
  /\ mem' = [mem EXCEPT ![w][pos[w] + 1] = buf[w][pos[w] + 1]]
  /\ pos' = [pos EXCEPT ![w] = @ + 1]
  /\ UNCHANGED <<buf, at, who, size, reply>>

\* The NUL after it, and the sleep.
Ended(w) == [mem EXCEPT ![w][pos[w] + 1] = Nul]

EndCopy(w) ==
  /\ buf[w] # <<>> /\ pos[w] = Len(buf[w])
  /\ mem' = Ended(w)
  /\ buf' = [buf EXCEPT ![w] = <<>>]
  /\ UNCHANGED <<pos, at, who, size, reply>>

-----------------------------------------------------------------------------
(* The thread of the master (stats_master_loop_callback).                  *)

Collect ==
  /\ at = "idle"
  /\ at' = "measure" /\ who' = 1 /\ size' = 0 /\ reply' = <<>>
  /\ UNCHANGED <<mem, buf, pos>>

\* stats_each_calc_shared_mem_size.
Measure ==
  /\ at = "measure" /\ who <= Workers
  /\ size' = size + Strlen(mem[who])
  /\ who' = who + 1
  /\ UNCHANGED <<mem, buf, pos, at, reply>>

\* stats_master_send_resp allocates and starts the array.
Spare == 2

Allocate ==
  /\ at = "measure" /\ who > Workers
  /\ size' = size + Spare
  /\ reply' = <<"[">>
  /\ at' = "copy" /\ who' = 1
  /\ UNCHANGED <<mem, buf, pos>>

\* stats_each_shared_mem_aggregate: the comma takes the place of the last
\* byte there is, which is not the page's if the page is empty.
Appended(page) ==
  LET text == reply \o SubSeq(page, 1, Strlen(page))
  IN [text EXCEPT ![Len(text)] = ","]

Copy ==
  /\ at = "copy" /\ who <= Workers
  /\ reply' = Appended(mem[who])
  /\ who' = who + 1
  /\ UNCHANGED <<mem, buf, pos, at, size>>

\* The end of the array and a NUL, then the answer is sent.
Finish ==
  /\ at = "copy" /\ who > Workers
  /\ reply' = [reply EXCEPT ![Len(reply)] = "]"]
  /\ at' = "send"
  /\ UNCHANGED <<mem, buf, pos, who, size>>

Send ==
  /\ at = "send"
  /\ at' = "idle" /\ who' = 1 /\ size' = 0 /\ reply' = <<>>
  /\ UNCHANGED <<mem, buf, pos>>

-----------------------------------------------------------------------------

Init ==
  /\ \E r \in Responses : mem = [w \in Worker |-> Page(IF Written THEN r ELSE <<>>)]
  /\ buf = [w \in Worker |-> <<>>] /\ pos = [w \in Worker |-> 0]
  /\ at = "idle" /\ who = 1 /\ size = 0 /\ reply = <<>>

Next ==
  \/ \E w \in Worker : MakeRsp(w) \/ CopyByte(w) \/ EndCopy(w)
  \/ Collect \/ Measure \/ Allocate \/ Copy \/ Finish \/ Send

Spec == Init /\ [][Next]_vars

-----------------------------------------------------------------------------
(* Properties.                                                             *)

\* The reply and its NUL fit in the buffer that was allocated for them from
\* the first reading of the lengths (stats_master_send_resp).
ReplyFits == at = "send" => Len(reply) + 1 <= size

\* The response of one worker without its newline, and those of all of them
\* as a JSON array.
Documents == {Front(r) : r \in Responses}
Array(docs) ==
  <<"[">> \o FlattenSeq([i \in 1 .. Workers |->
                           docs[i] \o <<IF i < Workers THEN "," ELSE "]">>])

\* What a collector receives is a JSON array with one document for each
\* worker, although the pages are rewritten while they are read.
ReplyIsJson == at = "send" => \E docs \in [Worker -> Documents] : reply = Array(docs)

============================================================================
