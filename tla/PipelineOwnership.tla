------------------------- MODULE PipelineOwnership --------------------------
(***************************************************************************)
(* Who owns a message.  The first half is what all proofs about the request *)
(* pipeline share: facts about queues, the invariants of messages and      *)
(* connections, and what the larger handlers do, in the terms of these     *)
(* invariants.  The second half: the handlers that take messages from the  *)
(* pool and queue them, those that finish requests (Finished) and those    *)
(* that put them back into the pool (Put) preserve the invariant OwnInv.   *)
(***************************************************************************)
EXTENDS Pipeline, TLAPS

\* Most leaves are first-order and set reasoning, for which Zenon is enough;
\* the others cite SMT.
USE ZenonT(60)

-----------------------------------------------------------------------------
(* What queues hold, and that nothing occurs in them twice *)

LEMMA RangeOfSeq ==
    ASSUME NEW S, NEW q \in Seq(S)
    PROVE  Range(q) \subseteq S
BY SMTT(60) DEF Range

LEMMA RangeEmpty == Range(<<>>) = {} /\ IsInjective(<<>>)
BY SMTT(60) DEF Range, IsInjective

LEMMA RangeOne ==
    ASSUME NEW x
    PROVE  Range(<<x>>) = {x} /\ IsInjective(<<x>>)
BY SMTT(60) DEF Range, IsInjective

LEMMA RangeAppend ==
    ASSUME NEW S, NEW q \in Seq(S), NEW x \in S
    PROVE  /\ Append(q, x) \in Seq(S)
           /\ Range(Append(q, x)) = Range(q) \cup {x}
           /\ IsInjective(q) /\ x \notin Range(q) => IsInjective(Append(q, x))
<1> DEFINE r == Append(q, x)
<1>1. r \in Seq(S) /\ Len(r) = Len(q) + 1 /\ r[Len(q) + 1] = x
      /\ DOMAIN r = 1..(Len(q) + 1) /\ DOMAIN q = 1..Len(q) /\ Len(q) \in Nat
  BY SMTT(60)
<1>2. \A i \in 1..Len(q) : r[i] = q[i]
  BY SMTT(60)
<1> HIDE DEF r
<1>3. Range(r) = Range(q) \cup {x}
  <2>1. \A y \in Range(r) : y \in Range(q) \cup {x}
    <3> TAKE y \in Range(r)
    <3>1. PICK i \in DOMAIN r : y = r[i]
      BY DEF Range
    <3>2. i = Len(q) + 1 \/ i \in 1..Len(q)
      BY SMTT(60), <1>1
    <3> QED BY <1>1, <1>2, <3>1, <3>2 DEF Range
  <2>2. \A y \in Range(q) : y \in Range(r)
    <3> TAKE y \in Range(q)
    <3>1. PICK i \in DOMAIN q : y = q[i]
      BY DEF Range
    <3>2. i \in DOMAIN r
      BY SMTT(60), <1>1
    <3> QED BY <1>1, <1>2, <3>1, <3>2 DEF Range
  <2>3. x \in Range(r)
    <3>1. Len(q) + 1 \in DOMAIN r
      BY SMTT(60), <1>1
    <3> QED BY <1>1, <3>1 DEF Range
  <2> QED BY <2>1, <2>2, <2>3
<1>4. ASSUME IsInjective(q), x \notin Range(q)
      PROVE  IsInjective(r)
  <2> SUFFICES ASSUME NEW a \in DOMAIN r, NEW b \in DOMAIN r, r[a] = r[b]
               PROVE  a = b
    BY DEF IsInjective
  <2>1. a \in 1..Len(q) \/ a = Len(q) + 1
    BY SMTT(60), <1>1
  <2>2. b \in 1..Len(q) \/ b = Len(q) + 1
    BY SMTT(60), <1>1
  <2>3. \A i \in 1..Len(q) : q[i] # x
    BY <1>1, <1>4 DEF Range
  <2> QED BY <1>1, <1>2, <1>4, <2>1, <2>2, <2>3 DEF IsInjective
<1> QED BY <1>1, <1>3, <1>4 DEF r

LEMMA RangeConcat ==
    ASSUME NEW S, NEW p \in Seq(S), NEW q \in Seq(S)
    PROVE  /\ p \o q \in Seq(S)
           /\ Range(p \o q) = Range(p) \cup Range(q)
           /\ IsInjective(p) /\ IsInjective(q) /\ Range(p) \cap Range(q) = {}
                => IsInjective(p \o q)
<1> DEFINE r == p \o q
           n == Len(p)
<1>1. r \in Seq(S) /\ DOMAIN r = 1..(n + Len(q)) /\ DOMAIN p = 1..n
      /\ DOMAIN q = 1..Len(q) /\ n \in Nat /\ Len(q) \in Nat
  BY SMTT(60)
<1>2. \A i \in 1..n : r[i] = p[i]
  BY SMTT(60)
<1>3. \A i \in 1..Len(q) : r[n + i] = q[i]
  BY SMTT(60)
<1> HIDE DEF r, n
<1>4. \A i \in DOMAIN r : \/ i \in DOMAIN p /\ r[i] = p[i]
                          \/ i - n \in DOMAIN q /\ r[i] = q[i - n]
  <2> TAKE i \in DOMAIN r
  <2>1. CASE i <= n
    BY SMTT(60), <1>1, <1>2, <2>1
  <2>2. CASE i > n
    <3>1. i - n \in 1..Len(q) /\ i = n + (i - n)
      BY SMTT(60), <1>1, <2>2
    <3> QED BY <1>1, <1>3, <3>1
  <2> QED BY SMTT(60), <1>1, <2>1, <2>2
<1>5. Range(r) = Range(p) \cup Range(q)
  <2>1. \A y \in Range(r) : y \in Range(p) \cup Range(q)
    BY <1>4 DEF Range
  <2>2. \A y \in Range(p) : y \in Range(r)
    <3>1. \A i \in DOMAIN p : i \in DOMAIN r /\ r[i] = p[i]
      BY SMTT(60), <1>1, <1>2
    <3> QED BY <3>1 DEF Range
  <2>3. \A y \in Range(q) : y \in Range(r)
    <3>1. \A i \in DOMAIN q : n + i \in DOMAIN r /\ r[n + i] = q[i]
      BY SMTT(60), <1>1, <1>3
    <3> QED BY <3>1 DEF Range
  <2> QED BY <2>1, <2>2, <2>3
<1>6. ASSUME IsInjective(p), IsInjective(q), Range(p) \cap Range(q) = {}
      PROVE  IsInjective(r)
  <2> SUFFICES ASSUME NEW a \in DOMAIN r, NEW b \in DOMAIN r, r[a] = r[b]
               PROVE  a = b
    BY DEF IsInjective
  <2>1. \A i \in DOMAIN p, j \in DOMAIN q : p[i] # q[j]
    BY <1>6 DEF Range
  <2>2. CASE a \in DOMAIN p /\ r[a] = p[a]
    BY <1>4, <1>6, <2>1, <2>2 DEF IsInjective
  <2>3. CASE a - n \in DOMAIN q /\ r[a] = q[a - n]
    <3>1. b - n \in DOMAIN q /\ r[b] = q[b - n]
      BY <1>4, <2>1, <2>3
    <3>2. a - n = b - n
      BY <1>6, <2>3, <3>1 DEF IsInjective
    <3> QED BY SMTT(60), <1>1, <3>2
  <2> QED BY <1>4, <2>2, <2>3
<1> QED BY <1>1, <1>5, <1>6 DEF r

LEMMA RangeQueued ==
    ASSUME NEW S, NEW p \in Seq(S), NEW q \in Seq(S), NEW x \in S
    PROVE  /\ p \o q \o <<x>> \in Seq(S)
           /\ Range(p \o q \o <<x>>) = Range(p) \cup Range(q) \cup {x}
           /\ IsInjective(p) /\ IsInjective(q) /\ Range(p) \cap Range(q) = {}
                /\ x \notin Range(p) /\ x \notin Range(q) => IsInjective(p \o q \o <<x>>)
<1> DEFINE r == p \o q
<1>1. /\ r \in Seq(S) /\ Range(r) = Range(p) \cup Range(q)
      /\ IsInjective(p) /\ IsInjective(q) /\ Range(p) \cap Range(q) = {} => IsInjective(r)
  BY SMTT(60), RangeConcat
<1> HIDE DEF r
<1>2. /\ r \o <<x>> \in Seq(S) /\ Range(r \o <<x>>) = Range(r) \cup {x}
      /\ IsInjective(r) /\ x \notin Range(r) => IsInjective(r \o <<x>>)
  <2>1. <<x>> \in Seq(S)
    BY SMTT(60)
  <2>2. Range(<<x>>) = {x} /\ IsInjective(<<x>>)
    BY RangeOne
  <2>3. \A t \in Seq(S) :
           /\ r \o t \in Seq(S) /\ Range(r \o t) = Range(r) \cup Range(t)
           /\ IsInjective(r) /\ IsInjective(t) /\ Range(r) \cap Range(t) = {} => IsInjective(r \o t)
    <3> TAKE t \in Seq(S)
    <3>1. r \in Seq(S)
      BY <1>1
    <3> QED BY SMTT(60), <3>1, RangeConcat
  <2>4. x \notin Range(r) => Range(r) \cap {x} = {}
    OBVIOUS
  <2> QED BY <2>1, <2>2, <2>3, <2>4
<1> QED BY <1>1, <1>2 DEF r

LEMMA RangeTail ==
    ASSUME NEW S, NEW q \in Seq(S), q # <<>>
    PROVE  /\ Head(q) \in S /\ Tail(q) \in Seq(S)
           /\ Head(q) \in Range(q)
           /\ Range(q) = Range(Tail(q)) \cup {Head(q)}
           /\ IsInjective(q) => IsInjective(Tail(q)) /\ Head(q) \notin Range(Tail(q))
<1> DEFINE t == Tail(q)
<1>1. t \in Seq(S) /\ Len(q) \in Nat \ {0} /\ DOMAIN q = 1..Len(q)
      /\ DOMAIN t = 1..(Len(q) - 1) /\ Head(q) = q[1] /\ q[1] \in S
  BY SMTT(60)
<1>2. \A i \in 1..(Len(q) - 1) : t[i] = q[i + 1]
  BY SMTT(60)
<1> HIDE DEF t
<1>3. 1 \in DOMAIN q
  BY SMTT(60), <1>1
<1>4. \A i \in DOMAIN t : i + 1 \in DOMAIN q /\ t[i] = q[i + 1]
  BY SMTT(60), <1>1, <1>2
<1>5. \A i \in DOMAIN q : i = 1 \/ (i - 1 \in DOMAIN t /\ q[i] = t[i - 1])
  <2> TAKE i \in DOMAIN q
  <2> SUFFICES ASSUME i # 1 PROVE i - 1 \in DOMAIN t /\ q[i] = t[i - 1]
    OBVIOUS
  <2>1. i - 1 \in 1..(Len(q) - 1) /\ (i - 1) + 1 = i
    BY SMTT(60), <1>1
  <2> QED BY <1>1, <1>2, <2>1
<1>6. Range(q) = Range(t) \cup {q[1]}
  <2>1. \A y \in Range(q) : y \in Range(t) \cup {q[1]}
    BY SMTT(60), <1>5 DEF Range
  <2>2. \A y \in Range(t) : y \in Range(q)
    BY <1>4 DEF Range
  <2>3. q[1] \in Range(q)
    BY <1>3 DEF Range
  <2> QED BY <2>1, <2>2, <2>3
<1>7. ASSUME IsInjective(q)
      PROVE  IsInjective(t) /\ q[1] \notin Range(t)
  <2>1. \A a, b \in DOMAIN t : t[a] = t[b] => a = b
    <3> TAKE a, b \in DOMAIN t
    <3> HAVE t[a] = t[b]
    <3>1. a + 1 = b + 1
      BY <1>4, <1>7 DEF IsInjective
    <3> QED BY SMTT(60), <1>1, <3>1
  <2>2. \A i \in DOMAIN t : t[i] # q[1]
    <3> TAKE i \in DOMAIN t
    <3>1. i + 1 # 1
      BY SMTT(60), <1>1
    <3> QED BY <1>3, <1>4, <1>7, <3>1 DEF IsInjective
  <2> QED BY <2>1, <2>2 DEF IsInjective, Range
<1>8. Head(q) \in Range(q)
  BY <1>1, <1>6
<1> QED BY <1>1, <1>6, <1>7, <1>8 DEF t

-----------------------------------------------------------------------------
(* Who owns a message *)

Requests(c) == Range(c_omsg_q[c])

Forwarding == Range(frag_msgq)

\* A message of the pool carries nothing over; only requests that expect an
\* answer have timers, or have it swallowed.
PoolClean ==
    /\ \A m \in Free : m \notin done /\ m \notin fdone /\ m \notin swallow /\ frags[m] = {}
    /\ \A m \in Msg : m \in Free \/ Noreply(m) => tmo[m] = Nil
    /\ \A m \in swallow : ~Noreply(m)

\* What the client queues hold.
ClientsOK ==
    \A c \in Client :
        /\ IsInjective(c_omsg_q[c])
        /\ \A m \in Requests(c) :
              /\ m \notin Free /\ m \notin swallow /\ m \notin Forwarding
              /\ req[m].owner = c /\ req[m].part = 0 /\ ~Noreply(m)

\* What is queued behind a vector.
FragsOK ==
    \A m \in Msg : \A f \in frags[m] :
        /\ f \notin swallow /\ f \notin Forwarding /\ ~Noreply(f)
        /\ req[f].frag_owner = m /\ req[f].part # 0
        /\ req[m].part = 0 /\ m \in done

\* What the server queues hold; a fragment that somebody waits for is behind
\* its vector.
ServersOK ==
    \A s \in Server : \A m \in Carried(s) :
        /\ m \notin Free /\ m \notin done /\ m \notin Forwarding
        /\ m \notin swallow /\ req[m].part # 0 =>
              req[m].frag_owner \in Msg /\ m \in frags[req[m].frag_owner]

CarriedOnce ==
    \A s \in Server :
        /\ IsInjective(imsg_q[s]) /\ IsInjective(s_omsg_q[s])
        /\ \A m \in Range(imsg_q[s]) : m \notin Range(s_omsg_q[s])
        /\ \A m \in Range(s_omsg_q[s]) : ~Noreply(m)
        /\ \A t \in Server : \A m \in Carried(s) : m \in Carried(t) => s = t

\* A vector of which no fragment has been answered or failed.
Uncounted(m) ==
    m \in done /\ m \notin fdone /\ req[m].nfrag > 0 /\ nfrag_done[m] = 0

\* A message req_recv_done is about to forward.
ToForward(m) ==
    /\ m \notin Free /\ m \notin swallow /\ m \notin done
    /\ req[m].owner = recving
    /\ req[m].part # 0 => /\ ~Noreply(m)
                          /\ req[m].frag_owner \in Requests(recving)
                          /\ Uncounted(req[m].frag_owner)

ForwardOK ==
    /\ IsInjective(frag_msgq)
    /\ \A m \in Forwarding : ToForward(m)
    /\ recving = Nil => frag_msgq = <<>>
    /\ recving = Nil \/ sending = Nil

\* Only vectors count fragments, they are done from the start, and what was
\* found complete is complete.
VectorsOK ==
    /\ \A m \in Msg :
          /\ nfrag_done[m] # 0 => m \in done /\ req[m].part = 0
          /\ req[m].part = 0 /\ req[m].frag_owner # Nil => m \in done
          /\ req[m].nfrag # 0 => req[m].part = 0
    /\ \A m \in fdone : m \in done /\ req[m].part = 0 /\ frags[m] \subseteq done

OwnInv ==
    /\ PoolClean /\ ClientsOK /\ FragsOK /\ ServersOK /\ CarriedOnce
    /\ ForwardOK /\ VectorsOK

-----------------------------------------------------------------------------
(* Where the pointers of a message lead, and what handlers run for *)

\* A request with a server that somebody waits for is held by its owner, or its
\* vector is.
OwnersOK ==
    \A s \in Server : \A m \in Carried(s) : m \notin swallow /\ ~Noreply(m) =>
        /\ req[m].owner \in Client
        /\ req[m].part = 0 => m \in Requests(req[m].owner)
        /\ req[m].part # 0 => req[m].frag_owner \in Requests(req[m].owner)

\* A message in use that is not done is about to be forwarded or with a server.
KeptOK ==
    \A m \in Msg : m \notin Free /\ m \notin done =>
        m \in Forwarding \/ \E s \in Server : m \in Carried(s)

TimersOK ==
    /\ \A m \in Msg : tmo[m] # Nil /\ m \notin done => m \in Carried(tmo[m])
    /\ HasTimeout => \A s \in Server : \A m \in Carried(s) : ~Noreply(m) => tmo[m] = s

LinkInv == error \subseteq done /\ OwnersOK /\ KeptOK /\ TimersOK

\* Closed connections are clean, and handlers run for open ones.
ConnInv ==
    /\ ClosedIsClean
    /\ recving # Nil => recving \in open
    /\ sending # Nil => sending \in open

-----------------------------------------------------------------------------
(* Facts that follow from the invariants *)

\* Only messages of the pool are queued.
LEMMA QueuedIsMsg ==
    ASSUME TypeOK
    PROVE  /\ \A c \in Client : Range(c_omsg_q[c]) \subseteq Msg
           /\ \A s \in Server : Carried(s) \subseteq Msg
           /\ Range(frag_msgq) \subseteq Msg
           /\ frag_msgq # <<>> => Head(frag_msgq) \in Msg /\ Tail(frag_msgq) \in Seq(Msg)
<1>1. \A c \in Client : Range(c_omsg_q[c]) \subseteq Msg
  BY RangeOfSeq DEF TypeOK, QueueTypes
<1>2. \A s \in Server : Carried(s) \subseteq Msg
  BY RangeOfSeq DEF TypeOK, QueueTypes, Carried
<1>3. /\ Range(frag_msgq) \subseteq Msg
      /\ frag_msgq # <<>> => Head(frag_msgq) \in Msg /\ Tail(frag_msgq) \in Seq(Msg)
  BY SMTT(60), RangeOfSeq DEF TypeOK, QueueTypes
<1> QED BY <1>1, <1>2, <1>3

\* req_done marks only messages that are done, and sets the err of clients it was
\* asked about.
LEMMA HeadsTyped ==
    ASSUME NEW C, NEW gone, CheckHeads(C, gone)
    PROVE  /\ fdone' \subseteq fdone \cup done'
           /\ err' \subseteq err \cup C
           /\ Answered(C) \subseteq C
<1> DEFINE fresh == {c \in Answered(C) : HeadOf(c)' \notin fdone /\ req[HeadOf(c)'].nfrag > 0}
<1>1. /\ fdone' = (fdone \ gone) \cup {HeadOf(c)' : c \in fresh}
      /\ \E odd \in SUBSET {c \in fresh : Odd(HeadOf(c))'} :
            err' = err \cup odd \cup {c \in fresh : Missing(HeadOf(c))'}
  BY DEF CheckHeads
<1>2. fresh \subseteq C /\ \A c \in fresh : HeadOf(c)' \in done'
  BY DEF Answered, Complete
<1>3. Answered(C) \subseteq C
  BY DEF Answered
<1> HIDE DEF fresh
<1> QED BY <1>1, <1>2, <1>3

LEMMA NilIsNone == Nil \notin Client /\ Nil \notin Server /\ Nil \notin Msg
BY ConstantsAssumption

LEMMA QueuesTyped ==
    ASSUME TypeOK
    PROVE  /\ \A c \in Client : c_omsg_q[c] \in Seq(Msg) /\ Requests(c) \subseteq Msg
           /\ \A s \in Server : /\ imsg_q[s] \in Seq(Msg) /\ s_omsg_q[s] \in Seq(Msg)
                                /\ Carried(s) \subseteq Msg
           /\ Forwarding \subseteq Msg
BY RangeOfSeq DEF TypeOK, QueueTypes, Requests, Carried, Forwarding

LEMMA FlagsTyped ==
    ASSUME TypeOK
    PROVE  /\ done \subseteq Msg /\ fdone \subseteq Msg /\ swallow \subseteq Msg
           /\ frags \in [Msg -> SUBSET Msg]
BY DEF TypeOK, FlagTypes, MsgTypes

\* A message taken from the pool is nowhere else, and clean.
LEMMA FreeNowhere ==
    ASSUME TypeOK, OwnInv, NEW m \in Free
    PROVE  /\ m \in Msg
           /\ \A s \in Server : m \notin Carried(s)
           /\ \A c \in Client : m \notin Requests(c)
           /\ \A x \in Msg : m \notin frags[x]
           /\ m \notin Forwarding /\ frags[m] = {} /\ tmo[m] = Nil
           /\ m \notin done /\ m \notin fdone /\ m \notin swallow /\ nfrag_done[m] = 0
<1>1. m \in Msg
  BY DEF Free
<1>2. \A s \in Server : m \notin Carried(s)
  BY DEF OwnInv, ServersOK
<1>3. \A c \in Client : m \notin Requests(c)
  BY DEF OwnInv, ClientsOK
<1>4. req[m].frag_owner = Nil
  BY SMTT(60) DEF Free, Blank, Message
<1>5. \A x \in Msg : m \notin frags[x]
  BY <1>4, NilIsNone DEF OwnInv, FragsOK
<1>6. m \notin Forwarding
  BY DEF OwnInv, ForwardOK, ToForward
<1>7. m \notin done /\ m \notin fdone /\ m \notin swallow /\ frags[m] = {} /\ tmo[m] = Nil
  BY <1>1 DEF OwnInv, PoolClean
<1>8. nfrag_done[m] = 0
  BY <1>1, <1>7 DEF OwnInv, VectorsOK
<1> QED BY <1>1, <1>2, <1>3, <1>5, <1>6, <1>7, <1>8

\* What the invariant is for: no message in use is in the pool.
LEMMA OwnershipIsSafe ==
    ASSUME TypeOK, OwnInv
    PROVE  NoUseAfterFree
<1>1. \A c \in Client : \A m \in Held(c) : m \notin Free
  <2>1. \A c \in Client : \A m \in Range(c_omsg_q[c]) : m \in Msg /\ m \notin Free
    BY RangeOfSeq DEF OwnInv, ClientsOK, Requests, TypeOK, QueueTypes
  <2>2. \A m \in Msg : \A f \in frags[m] : f \notin Free
    BY SMTT(60), NilIsNone DEF OwnInv, FragsOK, Free, Blank, Message
  <2> QED BY <2>1, <2>2 DEF Held, Behind
<1>2. \A s \in Server : \A m \in Carried(s) : m \notin Free
  BY DEF OwnInv, ServersOK
<1>3. \A m \in Range(frag_msgq) : m \notin Free
  BY DEF OwnInv, ForwardOK, ToForward, Forwarding
<1>4. \A m \in Msg : tmo[m] # Nil => m \notin Free
  BY DEF OwnInv, PoolClean
<1> SUFFICES ASSUME NEW m \in Referenced, m \in Free
             PROVE  FALSE
  BY DEF NoUseAfterFree
<1>5. \/ \E c \in Client : m \in Held(c)
      \/ \E s \in Server : m \in Carried(s)
      \/ m \in Range(frag_msgq)
      \/ m \in Msg /\ tmo[m] # Nil
  <2> DEFINE H == UNION {Held(c) : c \in Client}
             C == UNION {Carried(s) : s \in Server}
  <2>1. m \in H => \E c \in Client : m \in Held(c)
    OBVIOUS
  <2>2. m \in C => \E s \in Server : m \in Carried(s)
    OBVIOUS
  <2>3. Referenced = H \cup C \cup Range(frag_msgq) \cup {x \in Msg : tmo[x] # Nil}
    BY DEF Referenced
  <2> HIDE DEF H, C
  <2> QED BY <2>1, <2>2, <2>3
<1> QED BY <1>1, <1>2, <1>3, <1>4, <1>5

\* A client connection that may write has the event loop, or will be closed.
LEMMA WriterAlone ==
    ASSUME OwnInv, NEW c \in Client, CanReply(c)
    PROVE  recving = Nil /\ frag_msgq = <<>>
BY NilIsNone DEF OwnInv, ForwardOK, CanReply, Idle

\* While nothing is being forwarded.
LEMMA NothingForwarded ==
    ASSUME OwnInv, recving = Nil \/ frag_msgq = <<>>, UNCHANGED frag_msgq,
           recving' = Nil \/ sending' = Nil
    PROVE  Forwarding = {} /\ Forwarding' = {} /\ ForwardOK'
<1>1. frag_msgq = <<>>
  BY DEF OwnInv, ForwardOK
<1> QED BY <1>1, RangeEmpty DEF Forwarding, ForwardOK

\* A request on a server connection; one whose answer nobody waits for is held
\* by nobody else.
LEMMA CarriedAlone ==
    ASSUME TypeOK, OwnInv, NEW s \in Server, NEW m \in Carried(s)
    PROVE  /\ m \in Msg /\ m \notin Free /\ m \notin done /\ m \notin fdone
           /\ frags[m] = {} /\ nfrag_done[m] = 0
           /\ Noreply(m) => m \notin swallow /\ tmo[m] = Nil
           /\ m \in swallow \/ Noreply(m) => /\ \A c \in Client : m \notin Requests(c)
                                            /\ \A x \in Msg : m \notin frags[x]
<1>1. m \in Msg /\ m \notin Free /\ m \notin done
  BY QueuesTyped DEF OwnInv, ServersOK
<1>2. m \notin fdone /\ frags[m] = {} /\ nfrag_done[m] = 0
  BY <1>1 DEF OwnInv, FragsOK, VectorsOK
<1>3. Noreply(m) => m \notin swallow /\ tmo[m] = Nil
  BY <1>1 DEF OwnInv, PoolClean
<1>4. m \in swallow \/ Noreply(m) => /\ \A c \in Client : m \notin Requests(c)
                                     /\ \A x \in Msg : m \notin frags[x]
  BY DEF OwnInv, ClientsOK, FragsOK
<1> QED BY <1>1, <1>2, <1>3, <1>4

\* The requests of a client and the fragments behind them, told apart.
LEMMA HeldApart ==
    ASSUME TypeOK, OwnInv, NEW c \in Client
    PROVE  /\ \A x \in Requests(c) : /\ x \in Msg /\ x \notin Free /\ x \notin swallow
                                     /\ ~Noreply(x) /\ \A y \in Msg : x \notin frags[y]
           /\ \A x \in Msg : \A f \in frags[x] :
                 /\ f \in Msg /\ f \notin Free /\ f \notin swallow /\ ~Noreply(f)
                 /\ f \notin fdone /\ nfrag_done[f] = 0 /\ frags[f] = {} /\ f # x
                 /\ \A d \in Client : f \notin Requests(d)
                 /\ \A y \in Msg : f \in frags[y] => x = y
<1>1. \A d \in Client : \A x \in Requests(d) :
         /\ x \in Msg /\ x \notin Free /\ x \notin swallow
         /\ ~Noreply(x) /\ req[x].part = 0
  BY QueuesTyped DEF OwnInv, ClientsOK
<1>2. \A x \in Msg : \A f \in frags[x] :
         /\ f \in Msg /\ f \notin swallow /\ ~Noreply(f)
         /\ req[f].frag_owner = x /\ req[f].part # 0 /\ req[x].part = 0
  BY FlagsTyped DEF OwnInv, FragsOK
<1>3. \A x \in Msg : req[x].part # 0 =>
         x \notin Free /\ x \notin fdone /\ nfrag_done[x] = 0 /\ frags[x] = {}
  <2>1. \A x \in Free : req[x].part = 0
    BY SMTT(60) DEF Free, Blank, Message
  <2>2. \A x \in Msg : req[x].part # 0 => frags[x] = {}
    BY <1>2
  <2> QED BY <2>1, <2>2 DEF OwnInv, VectorsOK
<1>4. \A x \in Requests(c) : \A y \in Msg : x \notin frags[y]
  BY <1>1, <1>2
<1>5. \A x \in Msg : \A f \in frags[x] :
         /\ f \notin Free /\ f \notin fdone /\ nfrag_done[f] = 0 /\ frags[f] = {}
         /\ \A d \in Client : f \notin Requests(d)
  BY <1>1, <1>2, <1>3
<1>6. \A x \in Msg : \A f \in frags[x] : f # x /\ \A y \in Msg : f \in frags[y] => x = y
  BY SMTT(60), <1>2
<1> QED BY <1>1, <1>2, <1>4, <1>5, <1>6

\* The oldest request of a client.
LEMMA HeadIsRequest ==
    ASSUME TypeOK, NEW c \in Client, c_omsg_q[c] # <<>>
    PROVE  HeadOf(c) \in Requests(c) /\ HeadOf(c) \in Msg
BY RangeTail DEF HeadOf, Requests, TypeOK, QueueTypes

\* A client whose messages are being forwarded is open.
LEMMA ForwardingOpen ==
    ASSUME TypeOK, OwnInv, ConnInv, frag_msgq # <<>>
    PROVE  recving \in Client /\ recving \in open /\ sending = Nil
BY NilIsNone DEF TypeOK, LoopTypes, OwnInv, ForwardOK, ConnInv

\* The client that a request on a server connection leads to is open.
LEMMA OwnerOpen ==
    ASSUME LinkInv, ConnInv, NEW s \in Server, NEW m \in Carried(s), m \notin swallow, ~Noreply(m)
    PROVE  /\ req[m].owner \in Client /\ req[m].owner \in open
           /\ c_omsg_q[req[m].owner] # <<>>
<1>1. PICK c \in Client : c = req[m].owner /\ Requests(c) # {}
  BY DEF LinkInv, OwnersOK
<1>2. c_omsg_q[c] # <<>>
  BY <1>1, RangeEmpty DEF Requests
<1>3. c \in open
  BY <1>2 DEF ConnInv, ClosedIsClean
<1> QED BY <1>1, <1>2, <1>3

-----------------------------------------------------------------------------
(* Operators of the model *)

\* A request is queued on the client that sent it.
LEMMA QueuedOnClient ==
    ASSUME TypeOK, OwnInv, NEW c \in Client, NEW m \in Msg, m \notin Requests(c),
           c_omsg_q' = [c_omsg_q EXCEPT ![c] = Append(@, m)]
    PROVE  /\ Requests(c)' = Requests(c) \cup {m} /\ IsInjective(c_omsg_q'[c])
           /\ \A d \in Client : d # c => Requests(d)' = Requests(d) /\ c_omsg_q'[d] = c_omsg_q[d]
<1>1. c_omsg_q \in [Client -> Seq(Msg)] /\ IsInjective(c_omsg_q[c])
  BY DEF TypeOK, QueueTypes, OwnInv, ClientsOK
<1>2. c_omsg_q'[c] = Append(c_omsg_q[c], m) /\ \A d \in Client : d # c => c_omsg_q'[d] = c_omsg_q[d]
  BY <1>1
<1>3. m \notin Range(c_omsg_q[c]) /\ c_omsg_q[c] \in Seq(Msg)
  BY <1>1 DEF Requests
<1> QED BY SMTT(60), <1>1, <1>2, <1>3, RangeAppend DEF Requests

LEMMA EnqueueElsewhere ==
    ASSUME TypeOK, NEW c \in Client, NEW m \in Msg, EnqueueOutq(c, m)
    PROVE  \A d \in Client : d # c => c_omsg_q'[d] = c_omsg_q[d]
BY DEF EnqueueOutq, TypeOK, QueueTypes

\* Where conn->enqueue_outq puts it.
LEMMA Enqueued ==
    ASSUME TypeOK, OwnInv, NEW m \in Msg, ToForward(m), NEW c \in Client,
           c = recving, \A d \in Client : m \notin Requests(d), EnqueueOutq(c, m)
    PROVE  /\ \A d \in Client : /\ IsInjective(c_omsg_q'[d])
                                /\ Requests(d) \subseteq Requests(d)'
                                /\ \A x \in Requests(d)' : \/ x \in Requests(d)
                                                           \/ x = m /\ d = c /\ ~Noreply(m)
                                                              /\ req[m].part = 0
           /\ ~Noreply(m) /\ req[m].part = 0 => m \in Requests(c)'
           /\ \A x \in Msg : /\ frags[x] \subseteq frags'[x]
                             /\ \A f \in frags'[x] : \/ f \in frags[x]
                                                     \/ f = m /\ req[m].part # 0
                                                        /\ x = req[m].frag_owner
           /\ req[m].part # 0 => req[m].frag_owner \in Msg /\ m \in frags'[req[m].frag_owner]
<1>1. c_omsg_q \in [Client -> Seq(Msg)] /\ frags \in [Msg -> SUBSET Msg] /\ req[m].part \in Nat
  BY DEF TypeOK, QueueTypes, MsgTypes, Request
<1>2. \A d \in Client : IsInjective(c_omsg_q[d])
  BY DEF OwnInv, ClientsOK
<1>3. req[m].part # 0 => req[m].frag_owner \in Msg /\ ~Noreply(m)
  BY QueuesTyped DEF ToForward
<1>4. CASE Noreply(m) \/ req[m].part > 0
  <2>1. c_omsg_q' = c_omsg_q /\ \A d \in Client : Requests(d)' = Requests(d)
    BY <1>4 DEF EnqueueOutq, Requests
  <2>2. CASE req[m].part = 0
    <3>1. frags' = frags
      BY SMTT(60), <2>2 DEF EnqueueOutq
    <3>2. Noreply(m)
      BY SMTT(60), <1>4, <2>2
    <3> QED BY <1>2, <2>1, <2>2, <3>1, <3>2
  <2>3. CASE req[m].part # 0
    <3>1. frags' = [frags EXCEPT ![req[m].frag_owner] = @ \cup {m}]
      BY SMTT(60), <1>1, <2>3 DEF EnqueueOutq
    <3> QED BY <1>1, <1>2, <1>3, <2>1, <2>3, <3>1
  <2> QED BY <2>2, <2>3
<1>5. CASE ~Noreply(m) /\ ~(req[m].part > 0)
  <2>1. c_omsg_q' = [c_omsg_q EXCEPT ![c] = Append(@, m)] /\ frags' = frags /\ req[m].part = 0
    BY SMTT(60), <1>1, <1>5 DEF EnqueueOutq
  <2>2. /\ Requests(c)' = Requests(c) \cup {m} /\ IsInjective(c_omsg_q'[c])
        /\ \A d \in Client : d # c => Requests(d)' = Requests(d) /\ c_omsg_q'[d] = c_omsg_q[d]
    BY <2>1, QueuedOnClient
  <2> QED BY <1>2, <1>5, <2>1, <2>2
<1> QED BY <1>4, <1>5

\* What req_done marks: a vector is found complete when everything in it is done.
LEMMA HeadsMarked ==
    ASSUME NEW C, NEW gone, CheckHeads(C, gone)
    PROVE  /\ \A x \in fdone : x \in gone \/ x \in fdone'
           /\ \A x \in fdone' : \/ x \in fdone /\ x \notin gone
                                \/ /\ x \in done' /\ frags'[x] \subseteq done'
                                   /\ nfrag_done'[x] >= req'[x].nfrag /\ req[x].nfrag > 0
<1> DEFINE fresh == {c \in Answered(C) : /\ HeadOf(c)' \notin fdone
                                         /\ req[HeadOf(c)'].nfrag > 0}
<1>1. fdone' = (fdone \ gone) \cup {HeadOf(c)' : c \in fresh}
  BY DEF CheckHeads
<1>2. \A c \in fresh : /\ HeadOf(c)' \in done' /\ frags'[HeadOf(c)'] \subseteq done'
                       /\ nfrag_done'[HeadOf(c)'] >= req'[HeadOf(c)'].nfrag
                       /\ req[HeadOf(c)'].nfrag > 0
  BY DEF Answered, Complete
<1> HIDE DEF fresh
<1> QED BY <1>1, <1>2

\* The messages of gone go back to the pool.
LEMMA Freed ==
    ASSUME TypeOK, NEW gone, req' = Reset(req, gone, Blank)
    PROVE  /\ \A x \in Msg : x \notin gone => req'[x] = req[x]
           /\ \A x \in Msg : x \in gone => req'[x] = Blank
           /\ \A x \in Msg : x \in Free' <=> x \in Free \/ x \in gone
           /\ \A x \in Msg : Noreply(x)' <=> Noreply(x) /\ x \notin gone
           /\ Free' \subseteq Msg
<1>1. /\ \A x \in Msg : x \notin gone => req'[x] = req[x]
      /\ \A x \in Msg : x \in gone => req'[x] = Blank
  BY DEF Reset
<1>2. Blank.kind = "free"
  BY DEF Blank, Message
<1> QED BY <1>1, <1>2 DEF Free, Noreply

\* A message the proxy adds comes from the pool.
LEMMA ProxyMsgFree ==
    ASSUME NEW due, NEW a \in ProxyMsg(due)
    PROVE  a \in Seq(Msg) /\ IsInjective(a) /\ \A x \in Range(a) : x \in Free
<1>1. CASE a = <<>>
  BY SMTT(60), <1>1, RangeEmpty
<1>2. CASE \E x \in Free : a = <<x>>
  <2>1. PICK x \in Free : a = <<x>>
    BY <1>2
  <2>2. a \in Seq(Msg)
    BY SMTT(60), <2>1 DEF Free
  <2>3. Range(a) = {x} /\ IsInjective(a)
    BY <2>1, RangeOne
  <2> QED BY <2>2, <2>3
<1> QED BY <1>1, <1>2 DEF ProxyMsg

-----------------------------------------------------------------------------
(* Forwarding, failing to forward, and connecting *)

\* The message to be forwarded is nowhere else.
LEMMA ForwardHead ==
    ASSUME TypeOK, OwnInv, frag_msgq # <<>>, NEW m, m = Head(frag_msgq), ForwardNext
    PROVE  /\ m \in Msg /\ m \in Forwarding /\ ToForward(m)
           /\ recving \in Client /\ sending = Nil
           /\ IsInjective(frag_msgq') /\ \A x \in Forwarding' : x \in Forwarding /\ x # m
           /\ \A x \in Forwarding : x = m \/ x \in Forwarding'
           /\ recving' = Nil => frag_msgq' = <<>>
           /\ frag_msgq' # <<>> => recving' = recving
           /\ \A s \in Server : m \notin Carried(s)
           /\ \A c \in Client : m \notin Requests(c)
           /\ \A x \in Msg : m \notin frags[x]
           /\ frags[m] = {} /\ nfrag_done[m] = 0 /\ m \notin fdone
<1>1. frag_msgq \in Seq(Msg) /\ recving \in Client \cup {Nil}
  BY DEF TypeOK, QueueTypes, LoopTypes
<1>2. /\ IsInjective(frag_msgq) /\ \A x \in Forwarding : ToForward(x)
      /\ recving = Nil => frag_msgq = <<>>
      /\ recving = Nil \/ sending = Nil
  BY DEF OwnInv, ForwardOK
<1>3. /\ m \in Msg /\ m \in Forwarding /\ Forwarding = Forwarding' \cup {m}
      /\ IsInjective(frag_msgq') /\ m \notin Forwarding'
  BY <1>1, <1>2, RangeTail DEF Forwarding, ForwardNext
<1>4. recving \in Client /\ sending = Nil
  BY <1>1, <1>2
<1>5. frag_msgq' # <<>> => recving' = recving
  <2>1. Tail(frag_msgq) # <<>> => Len(frag_msgq) > 1
    BY SMTT(60), <1>1
  <2> QED BY <2>1 DEF ForwardNext
<1>6. recving' = Nil => frag_msgq' = <<>>
  BY <1>4, <1>5, NilIsNone
<1>7. ToForward(m)
  BY <1>2, <1>3
<1>8. /\ \A s \in Server : m \notin Carried(s)
      /\ \A c \in Client : m \notin Requests(c)
      /\ \A x \in Msg : m \notin frags[x]
  BY <1>3 DEF OwnInv, ServersOK, ClientsOK, FragsOK
<1>9. frags[m] = {} /\ nfrag_done[m] = 0 /\ m \notin fdone
  BY <1>3, <1>7 DEF OwnInv, FragsOK, VectorsOK, ToForward
<1> QED BY <1>3, <1>4, <1>5, <1>6, <1>7, <1>8, <1>9

\* What req_forward does with m, the next message, and with the messages of a, an
\* AUTH or none, that go ahead of it to s.
Forwarded(s, m, a) ==
    /\ m \in Msg /\ m \in Forwarding /\ m \notin Free /\ m \notin swallow /\ m \notin done
    /\ req[m].owner = recving /\ recving \in Client
    /\ req[m].part # 0 => /\ ~Noreply(m) /\ req[m].frag_owner \in Msg
                          /\ req[m].frag_owner \in Requests(recving)
                          /\ m \in frags'[req[m].frag_owner]
                          /\ Uncounted(req[m].frag_owner)
    /\ \A x \in a : x \in Free /\ x # m
    /\ \A x \in a : /\ x \notin Free' /\ ~Noreply(x)' /\ req'[x].part = 0
                    /\ req'[x].frag_owner = Nil /\ req'[x].nfrag = 0
    /\ \A x \in Msg : x \notin a => /\ req'[x] = req[x]
                                    /\ (x \in Free' <=> x \in Free) /\ (Noreply(x)' <=> Noreply(x))
    /\ swallow' = swallow \cup a /\ UNCHANGED <<done, error, fdone, nfrag_done, s_omsg_q>>
    /\ \A x \in Msg : IF HasTimeout /\ (x \in a \/ (x = m /\ ~Noreply(m)))
                      THEN tmo'[x] = s ELSE tmo'[x] = tmo[x]
    /\ \A d \in Client : /\ IsInjective(c_omsg_q'[d])
                         /\ Requests(d) \subseteq Requests(d)'
                         /\ \A x \in Requests(d)' : \/ x \in Requests(d)
                                                    \/ x = m /\ d = recving /\ ~Noreply(m)
                                                       /\ req[m].part = 0
                         /\ d = recving /\ ~Noreply(m) /\ req[m].part = 0 => m \in Requests(d)'
    /\ \A x \in Msg : /\ frags[x] \subseteq frags'[x]
                      /\ \A f \in frags'[x] : \/ f \in frags[x]
                                              \/ f = m /\ req[m].part # 0
                                                 /\ x = req[m].frag_owner
    /\ Range(imsg_q'[s]) = Range(imsg_q[s]) \cup a \cup {m} /\ IsInjective(imsg_q'[s])
    /\ \A t \in Server : t # s => imsg_q'[t] = imsg_q[t]
    /\ Carried(s)' = Carried(s) \cup a \cup {m}
    /\ \A t \in Server : t # s => Carried(t)' = Carried(t)
    /\ IsInjective(frag_msgq') /\ sending' = Nil
    /\ \A x \in Forwarding' : x \in Forwarding /\ x # m
    /\ \A x \in Forwarding : x = m \/ x \in Forwarding'
    /\ recving' = Nil => frag_msgq' = <<>>
    /\ frag_msgq' # <<>> => recving' = recving
    /\ \A t \in Server : m \notin Carried(t)
    /\ \A d \in Client : m \notin Requests(d)
    /\ \A x \in Msg : m \notin frags[x]

LEMMA ReqForwardFacts ==
    ASSUME TypeOK, OwnInv, NEW s \in Server, ReqForward(s)
    PROVE  \E m \in Msg, a \in SUBSET Msg : Forwarded(s, m, a)
<1>1. PICK m, c : m = Head(frag_msgq) /\ c = recving
  OBVIOUS
<1>2. PICK auth \in ProxyMsg(RequireAuth /\ s \notin authenticated) :
         /\ req' = Reset(req, Range(auth), Message("auth", 0, 0, recving, Nil, 0))
         /\ swallow' = swallow \cup Range(auth)
         /\ imsg_q' = [imsg_q EXCEPT ![s] = imsg_q[s] \o auth \o <<m>>]
         /\ tmo' = TmoInsert(Range(auth) \cup {x \in {m} : ~Noreply(x)}, s)
  BY <1>1 DEF ReqForward
<1>3. /\ frag_msgq # <<>> /\ EnqueueOutq(c, m) /\ ForwardNext
      /\ UNCHANGED <<done, error, fdone, nfrag_done, s_omsg_q, sending>>
  BY <1>1 DEF ReqForward
<1>4. /\ m \in Msg /\ m \in Forwarding /\ ToForward(m) /\ c \in Client /\ sending' = Nil
      /\ IsInjective(frag_msgq') /\ \A x \in Forwarding' : x \in Forwarding /\ x # m
      /\ \A x \in Forwarding : x = m \/ x \in Forwarding'
      /\ recving' = Nil => frag_msgq' = <<>>
      /\ frag_msgq' # <<>> => recving' = c
      /\ \A t \in Server : m \notin Carried(t)
      /\ \A d \in Client : m \notin Requests(d)
      /\ \A x \in Msg : m \notin frags[x]
  BY <1>1, <1>3, ForwardHead
<1>5. PICK a : a = Range(auth)
  OBVIOUS
<1>6. auth \in Seq(Msg) /\ IsInjective(auth) /\ \A x \in a : x \in Free
  BY <1>5, ProxyMsgFree
<1>7. \A x \in a : /\ x \in Msg /\ x # m
                   /\ \A t \in Server : x \notin Carried(t)
  BY <1>4, <1>6, FreeNowhere
<1>8. /\ \A x \in a : req'[x] = Message("auth", 0, 0, c, Nil, 0)
      /\ \A x \in Msg : x \notin a => req'[x] = req[x]
  BY <1>1, <1>2, <1>5, <1>7 DEF Reset
<1>9. /\ \A x \in a : /\ x \notin Free' /\ ~Noreply(x)' /\ req'[x].part = 0
                      /\ req'[x].frag_owner = Nil /\ req'[x].nfrag = 0
      /\ \A x \in Msg : x \notin a => (x \in Free' <=> x \in Free) /\ (Noreply(x)' <=> Noreply(x))
  BY SMTT(60), <1>4, <1>8, NilIsNone DEF Free, Blank, Message, Noreply
<1>10. /\ \A d \in Client : /\ IsInjective(c_omsg_q'[d])
                            /\ Requests(d) \subseteq Requests(d)'
                            /\ \A x \in Requests(d)' : \/ x \in Requests(d)
                                                       \/ x = m /\ d = c /\ ~Noreply(m)
                                                          /\ req[m].part = 0
       /\ ~Noreply(m) /\ req[m].part = 0 => m \in Requests(c)'
       /\ \A x \in Msg : /\ frags[x] \subseteq frags'[x]
                         /\ \A f \in frags'[x] : \/ f \in frags[x]
                                                 \/ f = m /\ req[m].part # 0
                                                    /\ x = req[m].frag_owner
       /\ req[m].part # 0 => req[m].frag_owner \in Msg /\ m \in frags'[req[m].frag_owner]
  <2>1. m \in Msg /\ ToForward(m) /\ c \in Client /\ \A d \in Client : m \notin Requests(d)
    BY <1>4
  <2> QED BY <1>1, <1>3, <2>1, Enqueued
<1>11. /\ Range(imsg_q'[s]) = Range(imsg_q[s]) \cup a \cup {m} /\ IsInjective(imsg_q'[s])
       /\ \A t \in Server : t # s => imsg_q'[t] = imsg_q[t]
  <2>1. imsg_q \in [Server -> Seq(Msg)] /\ IsInjective(imsg_q[s])
    BY DEF OwnInv, CarriedOnce, TypeOK, QueueTypes
  <2>2. /\ Range(imsg_q[s]) \cap Range(auth) = {}
        /\ m \notin Range(imsg_q[s]) /\ m \notin Range(auth)
    BY <1>4, <1>5, <1>7 DEF Carried
  <2>3. /\ Range(imsg_q[s] \o auth \o <<m>>) = Range(imsg_q[s]) \cup a \cup {m}
        /\ IsInjective(imsg_q[s] \o auth \o <<m>>)
    BY SMTT(60), <1>4, <1>5, <1>6, <2>1, <2>2, RangeQueued
  <2> QED BY <1>2, <2>1, <2>3
<1>12. /\ Carried(s)' = Carried(s) \cup a \cup {m}
       /\ \A t \in Server : t # s => Carried(t)' = Carried(t)
  BY <1>3, <1>11 DEF Carried
<1>13. /\ m \notin Free /\ m \notin swallow /\ m \notin done /\ req[m].owner = c
       /\ req[m].part # 0 => /\ ~Noreply(m)
                             /\ req[m].frag_owner \in Requests(c)
                             /\ Uncounted(req[m].frag_owner)
  BY <1>1, <1>4 DEF ToForward
<1>14. \A x \in Msg : IF HasTimeout /\ (x \in a \/ (x = m /\ ~Noreply(m)))
                      THEN tmo'[x] = s ELSE tmo'[x] = tmo[x]
  BY <1>2, <1>5 DEF TmoInsert, Reset
<1>15. a \in SUBSET Msg /\ swallow' = swallow \cup a
       /\ UNCHANGED <<done, error, fdone, nfrag_done, s_omsg_q>>
  BY <1>2, <1>3, <1>5, <1>7
<1>16. Forwarded(s, m, a)
  BY SMTT(60), <1>1, <1>4, <1>6, <1>7, <1>8, <1>9, <1>10, <1>11, <1>12, <1>13, <1>14, <1>15 DEF Forwarded
<1> QED BY <1>4, <1>15, <1>16

\* What req_forward_error does with m, the next message: it is put (gone) if no
\* answer is expected, and done and in error otherwise.
ForwardFailed(m, gone) ==
    /\ m \in Msg /\ m \in Forwarding /\ m \notin Free /\ m \notin swallow /\ m \notin done
    /\ req[m].owner = recving /\ recving \in Client
    /\ req[m].part # 0 => /\ ~Noreply(m) /\ req[m].frag_owner \in Msg
                          /\ req[m].frag_owner \in Requests(recving)
                          /\ m \in frags'[req[m].frag_owner]
                          /\ Uncounted(req[m].frag_owner)
    /\ \A x : x \in gone => x = m /\ Noreply(m)
    /\ m \notin gone => ~Noreply(m)
    /\ \A x \in Msg : x \notin gone => req'[x] = req[x]
    /\ \A x \in Msg : x \in gone => req'[x] = Blank
    /\ \A x \in Msg : x \in Free' <=> x \in Free \/ x \in gone
    /\ \A x \in Msg : Noreply(x)' <=> Noreply(x) /\ x \notin gone
    /\ done' = done \cup ({m} \ gone) /\ error' = error \cup ({m} \ gone)
    /\ fdone' \subseteq Msg
    /\ \A x \in fdone' : \/ x \in fdone /\ x \notin gone
                         \/ /\ x \in done' /\ frags'[x] \subseteq done'
                            /\ nfrag_done'[x] >= req'[x].nfrag /\ req[x].nfrag > 0
    /\ \A d \in Client : /\ IsInjective(c_omsg_q'[d])
                         /\ Requests(d) \subseteq Requests(d)'
                         /\ \A x \in Requests(d)' : \/ x \in Requests(d)
                                                    \/ x = m /\ d = recving /\ ~Noreply(m)
                                                       /\ req[m].part = 0
    /\ \A x \in Msg : /\ frags[x] \subseteq frags'[x]
                      /\ \A f \in frags'[x] : \/ f \in frags[x]
                                              \/ f = m /\ req[m].part # 0
                                                 /\ x = req[m].frag_owner
    /\ IsInjective(frag_msgq') /\ sending' = Nil
    /\ \A x \in Forwarding' : x \in Forwarding /\ x # m
    /\ \A x \in Forwarding : x = m \/ x \in Forwarding'
    /\ recving' = Nil => frag_msgq' = <<>>
    /\ frag_msgq' # <<>> => recving' = recving
    /\ \A t \in Server : m \notin Carried(t) /\ Carried(t)' = Carried(t)
    /\ \A d \in Client : m \notin Requests(d)
    /\ \A x \in Msg : m \notin frags[x]
    /\ frags[m] = {} /\ nfrag_done[m] = 0 /\ m \notin fdone
    /\ UNCHANGED <<swallow, nfrag_done, tmo, imsg_q, s_omsg_q>>

LEMMA ForwardErrorFacts ==
    ASSUME TypeOK, TypeOK', OwnInv, ReqForwardError
    PROVE  \E m \in Msg, gone \in SUBSET Msg : ForwardFailed(m, gone)
<1>1. PICK m, c, gone, awake : /\ m = Head(frag_msgq) /\ c = recving
                               /\ gone = {x \in {m} : Noreply(x)}
                               /\ awake = IF gone = {} THEN {c} ELSE {}
  OBVIOUS
<1>2. /\ frag_msgq # <<>> /\ EnqueueOutq(c, m) /\ ForwardNext
      /\ req' = Reset(req, gone, Blank) /\ done' = done \cup ({m} \ gone)
      /\ error' = error \cup ({m} \ gone)
      /\ CheckHeads(awake, gone)
      /\ UNCHANGED <<swallow, nfrag_done, tmo, imsg_q, s_omsg_q, sending>>
  BY <1>1 DEF ReqForwardError, serverVars
<1>3. /\ m \in Msg /\ m \in Forwarding /\ ToForward(m) /\ c \in Client /\ sending' = Nil
      /\ IsInjective(frag_msgq') /\ \A x \in Forwarding' : x \in Forwarding /\ x # m
      /\ \A x \in Forwarding : x = m \/ x \in Forwarding'
      /\ recving' = Nil => frag_msgq' = <<>>
      /\ frag_msgq' # <<>> => recving' = c
      /\ \A t \in Server : m \notin Carried(t) /\ Carried(t)' = Carried(t)
      /\ \A d \in Client : m \notin Requests(d)
      /\ \A x \in Msg : m \notin frags[x]
      /\ frags[m] = {} /\ nfrag_done[m] = 0 /\ m \notin fdone
  BY <1>1, <1>2, ForwardHead DEF Carried
<1>4. /\ \A x \in Msg : x \notin gone => req'[x] = req[x]
      /\ \A x \in Msg : x \in gone => req'[x] = Blank
      /\ \A x \in Msg : x \in Free' <=> x \in Free \/ x \in gone
      /\ \A x \in Msg : Noreply(x)' <=> Noreply(x) /\ x \notin gone
      /\ Free' \subseteq Msg
  BY <1>2, Freed
<1>5. /\ \A x : x \in gone => x = m /\ Noreply(m)
      /\ m \notin gone => ~Noreply(m)
  BY <1>1
<1>6. /\ m \notin Free /\ m \notin swallow /\ m \notin done /\ req[m].owner = c
      /\ req[m].part # 0 => /\ ~Noreply(m)
                            /\ req[m].frag_owner \in Requests(c)
                            /\ Uncounted(req[m].frag_owner)
  BY <1>1, <1>3 DEF ToForward
<1>7. /\ \A d \in Client : /\ IsInjective(c_omsg_q'[d])
                           /\ Requests(d) \subseteq Requests(d)'
                           /\ \A x \in Requests(d)' : \/ x \in Requests(d)
                                                      \/ x = m /\ d = c /\ ~Noreply(m)
                                                         /\ req[m].part = 0
      /\ \A x \in Msg : /\ frags[x] \subseteq frags'[x]
                        /\ \A f \in frags'[x] : \/ f \in frags[x]
                                                \/ f = m /\ req[m].part # 0
                                                   /\ x = req[m].frag_owner
      /\ req[m].part # 0 => req[m].frag_owner \in Msg /\ m \in frags'[req[m].frag_owner]
  <2>1. m \in Msg /\ ToForward(m) /\ c \in Client /\ \A d \in Client : m \notin Requests(d)
    BY <1>3
  <2> QED BY SMTT(60), <1>1, <1>2, <2>1, Enqueued
<1>8. /\ \A x \in fdone' : \/ x \in fdone /\ x \notin gone
                           \/ /\ x \in done' /\ frags'[x] \subseteq done'
                              /\ nfrag_done'[x] >= req'[x].nfrag /\ req[x].nfrag > 0
      /\ fdone' \subseteq Msg
  BY <1>2, HeadsMarked DEF TypeOK, FlagTypes
<1>9. UNCHANGED <<swallow, nfrag_done, tmo, imsg_q, s_omsg_q>>
  BY <1>2
<1>10. /\ done' = done \cup ({m} \ gone) /\ error' = error \cup ({m} \ gone)
       /\ gone \in SUBSET Msg
  BY <1>2, <1>3, <1>5
<1>11. ForwardFailed(m, gone)
  BY SMTT(60), <1>1, <1>3, <1>4, <1>5, <1>6, <1>7, <1>8, <1>9, <1>10 DEF ForwardFailed
<1> QED BY <1>3, <1>10, <1>11

\* server_connected queues the messages of a, a SELECT or none, on s.
Connected(s, a) ==
    /\ \A x \in a : x \in Free
    /\ \A x \in a : /\ x \notin Free' /\ ~Noreply(x)' /\ req'[x].part = 0
                    /\ req'[x].frag_owner = Nil /\ req'[x].nfrag = 0
    /\ \A x \in Msg : x \notin a => /\ req'[x] = req[x]
                                    /\ (x \in Free' <=> x \in Free) /\ (Noreply(x)' <=> Noreply(x))
    /\ swallow' = swallow \cup a
    /\ \A x \in Msg : IF HasTimeout /\ x \in a THEN tmo'[x] = s ELSE tmo'[x] = tmo[x]
    /\ Range(imsg_q'[s]) = Range(imsg_q[s]) \cup a /\ IsInjective(imsg_q'[s])
    /\ \A t \in Server : t # s => imsg_q'[t] = imsg_q[t]
    /\ Carried(s)' = Carried(s) \cup a
    /\ \A t \in Server : t # s => Carried(t)' = Carried(t)
    /\ \A d \in Client : Requests(d)' = Requests(d)
    /\ recving = Nil /\ recving' = Nil
    /\ UNCHANGED <<done, error, fdone, nfrag_done, frags, c_omsg_q, s_omsg_q, frag_msgq>>

LEMMA ServerConnectedFacts ==
    ASSUME TypeOK, OwnInv, NEW s \in Server, ServerConnected(s)
    PROVE  \E a \in SUBSET Msg : Connected(s, a)
<1>1. PICK select \in ProxyMsg(SelectDb) :
         /\ req' = Reset(req, Range(select), Message("select", 0, 0, Nil, Nil, 0))
         /\ swallow' = swallow \cup Range(select)
         /\ imsg_q' = [imsg_q EXCEPT ![s] = select \o imsg_q[s]]
         /\ tmo' = TmoInsert(Range(select), s)
  BY DEF ServerConnected
<1>2. /\ recving = Nil /\ recving' = Nil
      /\ UNCHANGED <<done, error, fdone, nfrag_done, frags, c_omsg_q, s_omsg_q, frag_msgq>>
  BY DEF ServerConnected, Idle, clientVars, loopVars
<1>4. PICK a : a = Range(select)
  OBVIOUS
<1>5. select \in Seq(Msg) /\ IsInjective(select) /\ \A x \in a : x \in Free
  BY <1>4, ProxyMsgFree
<1>6. \A x \in a : /\ x \in Msg /\ frags[x] = {} /\ nfrag_done[x] = 0
                   /\ \A t \in Server : x \notin Carried(t)
                   /\ \A d \in Client : x \notin Requests(d)
                   /\ \A y \in Msg : x \notin frags[y]
                   /\ x \notin done /\ x \notin fdone
  BY <1>5, FreeNowhere
<1>7. /\ \A x \in a : req'[x] = Message("select", 0, 0, Nil, Nil, 0)
      /\ \A x \in Msg : x \notin a => req'[x] = req[x]
  BY <1>1, <1>4, <1>6 DEF Reset
<1>8. /\ \A x \in a : /\ x \notin Free' /\ ~Noreply(x)' /\ req'[x].part = 0
                      /\ req'[x].frag_owner = Nil /\ req'[x].nfrag = 0
      /\ \A x \in Msg : x \notin a => (x \in Free' <=> x \in Free) /\ (Noreply(x)' <=> Noreply(x))
      /\ Free' \subseteq Msg
  BY SMTT(60), <1>7 DEF Free, Blank, Message, Noreply
<1>9. /\ Range(imsg_q'[s]) = Range(imsg_q[s]) \cup a /\ IsInjective(imsg_q'[s])
      /\ \A t \in Server : t # s => imsg_q'[t] = imsg_q[t]
  <2>1. imsg_q \in [Server -> Seq(Msg)] /\ IsInjective(imsg_q[s])
    BY DEF OwnInv, CarriedOnce, TypeOK, QueueTypes
  <2>2. Range(select) \cap Range(imsg_q[s]) = {}
    BY <1>4, <1>6 DEF Carried
  <2>3. /\ Range(select \o imsg_q[s]) = Range(imsg_q[s]) \cup a
        /\ IsInjective(select \o imsg_q[s])
    BY SMTT(60), <1>4, <1>5, <2>1, <2>2, RangeConcat
  <2> QED BY <1>1, <2>1, <2>3
<1>10. /\ Carried(s)' = Carried(s) \cup a
       /\ \A t \in Server : t # s => Carried(t)' = Carried(t)
       /\ \A d \in Client : Requests(d)' = Requests(d)
  BY <1>2, <1>9 DEF Carried, Requests
<1>11. \A x \in Msg : IF HasTimeout /\ x \in a THEN tmo'[x] = s ELSE tmo'[x] = tmo[x]
  BY <1>1, <1>4 DEF TmoInsert, Reset
<1>12. a \in SUBSET Msg /\ swallow' = swallow \cup a
  BY <1>1, <1>4, <1>6
<1>13. Connected(s, a)
  BY <1>2, <1>5, <1>7, <1>8, <1>9, <1>10, <1>11, <1>12 DEF Connected
<1> QED BY <1>12, <1>13

-----------------------------------------------------------------------------
(* Finishing requests, and putting messages back *)

\* Requests leave their server connections: those of gone, which nobody waits
\* for, are put, those of lost are finished, and req_done may find vectors
\* complete.
Finished(gone, lost) ==
    /\ \A x \in gone : (x \in swallow \/ Noreply(x)) /\ \E s \in Server : x \in Carried(s)
    /\ \A x \in lost : x \notin swallow /\ ~Noreply(x) /\ \E s \in Server : x \in Carried(s)
    /\ req' = Reset(req, gone, Blank) /\ swallow' = swallow \ gone /\ done' = done \cup lost
    /\ \A x \in error' : x \in error \/ x \in lost
    /\ fdone' \subseteq Msg
    /\ \A x \in fdone' : \/ x \in fdone /\ x \notin gone
                         \/ x \in done' /\ frags'[x] \subseteq done' /\ req[x].nfrag > 0
    /\ \A x \in Msg : \/ nfrag_done'[x] = nfrag_done[x]
                      \/ \E f \in lost : req[f].frag_owner = x
    /\ \A x \in Msg : /\ x \in gone => tmo'[x] = Nil
                      /\ \/ tmo'[x] = tmo[x]
                         \/ tmo'[x] = Nil /\ (x \in gone \/ x \in lost)
    /\ \A t \in Server : /\ IsInjective(imsg_q'[t]) /\ IsInjective(s_omsg_q'[t])
                         /\ \A x \in Range(s_omsg_q'[t]) :
                               x \notin Range(imsg_q'[t]) /\ ~Noreply(x)
                         /\ \A x \in Carried(t)' :
                               x \in Carried(t) /\ x \notin gone /\ x \notin lost
                         /\ \A x \in Carried(t) : x \in gone \/ x \in lost \/ x \in Carried(t)'
    /\ UNCHANGED <<frags, c_omsg_q>>
    /\ recving = Nil /\ recving' = Nil /\ sending' = sending
    /\ frag_msgq' = frag_msgq

Finishes == \E gone, lost \in SUBSET Msg : Finished(gone, lost)

\* Finished requests, those of gone, leave a client and are put; those of left,
\* which are not finished, are left to their servers.
Put(gone, left) ==
    /\ gone \subseteq done /\ \A x \in gone : x \notin swallow
    /\ left \subseteq Msg /\ \A x \in left : x \notin Free /\ x \notin done /\ ~Noreply(x)
    /\ req' = Reset(req, gone, Blank) /\ swallow' = swallow \cup left
    /\ done' = done \ gone /\ error' = error \ gone
    /\ \A x \in fdone' : /\ x \in Msg /\ x \notin gone
                         /\ \/ x \in fdone
                            \/ x \in done /\ req[x].part = 0 /\ frags'[x] = {}
    /\ \A x \in Msg : /\ x \in gone => nfrag_done'[x] = 0 /\ tmo'[x] = Nil /\ frags'[x] = {}
                      /\ x \notin gone => nfrag_done'[x] = nfrag_done[x] /\ tmo'[x] = tmo[x]
    /\ \A x \in Msg : /\ \A f \in frags'[x] : f \in frags[x] /\ f \notin gone /\ f \notin left
                      /\ \A f \in frags[x] : f \in gone \/ f \in left \/ f \in frags'[x]
    /\ \A c \in Client : /\ IsInjective(c_omsg_q'[c])
                         /\ \A x \in Requests(c)' :
                               x \in Requests(c) /\ x \notin gone /\ x \notin left
                         /\ \A x \in Requests(c) :
                               x \in gone \/ x \in left \/ x \in Requests(c)'
    /\ UNCHANGED <<imsg_q, s_omsg_q>>
    /\ frag_msgq = <<>> /\ frag_msgq' = <<>> /\ recving' = Nil

Puts == \E gone, left \in SUBSET Msg : Put(gone, left)

-----------------------------------------------------------------------------
(* Steps that change no ownership *)

LEMMA QuietOwn ==
    ASSUME TypeOK, OwnInv, recving = Nil \/ UNCHANGED recving, recving' = Nil \/ sending' = Nil,
           \/ UNCHANGED tmo
           \/ \E m \in Msg : tmo' = [tmo EXCEPT ![m] = Nil],
           UNCHANGED <<req, done, fdone, swallow, nfrag_done, frags,
                       c_omsg_q, imsg_q, s_omsg_q, frag_msgq>>
    PROVE  OwnInv'
<1>1. /\ Free' = Free /\ Forwarding' = Forwarding
      /\ \A m \in Msg : Noreply(m)' <=> Noreply(m)
      /\ \A c \in Client : Requests(c)' = Requests(c)
      /\ \A s \in Server : Carried(s)' = Carried(s)
  BY DEF Free, Forwarding, Noreply, Requests, Carried
<1>2. PoolClean'
  <2>1. \A m \in Msg : tmo[m] = Nil => tmo'[m] = Nil
    BY DEF TypeOK, MsgTypes
  <2> QED BY <1>1, <2>1, FlagsTyped DEF OwnInv, PoolClean
<1>3. ClientsOK'
  BY SMTT(60), <1>1 DEF OwnInv, ClientsOK, Noreply
<1>4. FragsOK'
  BY <1>1 DEF OwnInv, FragsOK, Noreply
<1>5. ServersOK'
  BY <1>1 DEF OwnInv, ServersOK
<1>6. CarriedOnce'
  BY <1>1 DEF OwnInv, CarriedOnce, Noreply
<1>7. ForwardOK'
  <2>1. CASE recving = Nil
    BY <1>1, <2>1, RangeEmpty DEF OwnInv, ForwardOK, Forwarding
  <2>2. CASE UNCHANGED recving
    BY <1>1, <2>2 DEF OwnInv, ForwardOK, ToForward, Uncounted, Requests, Noreply
  <2> QED BY <2>1, <2>2
<1>8. VectorsOK'
  BY DEF OwnInv, VectorsOK
<1> QED BY <1>2, <1>3, <1>4, <1>5, <1>6, <1>7, <1>8 DEF OwnInv

LEMMA InitOwn == Init => OwnInv
<1> SUFFICES ASSUME Init
             PROVE  OwnInv
  OBVIOUS
<1>1. /\ \A m \in Msg : /\ req[m] = Blank /\ nfrag_done[m] = 0 /\ frags[m] = {} /\ tmo[m] = Nil
      /\ done = {} /\ fdone = {} /\ swallow = {} /\ frag_msgq = <<>> /\ recving = Nil
      /\ \A c \in Client : c_omsg_q[c] = <<>>
      /\ \A s \in Server : imsg_q[s] = <<>> /\ s_omsg_q[s] = <<>>
  BY DEF Init
<1>2. /\ \A c \in Client : Requests(c) = {} /\ IsInjective(c_omsg_q[c])
      /\ \A s \in Server : /\ Carried(s) = {} /\ IsInjective(imsg_q[s]) /\ IsInjective(s_omsg_q[s])
                           /\ Range(imsg_q[s]) = {} /\ Range(s_omsg_q[s]) = {}
      /\ Forwarding = {} /\ IsInjective(frag_msgq)
  BY <1>1, RangeEmpty DEF Requests, Carried, Forwarding
<1>3. Blank.part = 0 /\ Blank.frag_owner = Nil /\ Blank.nfrag = 0
  BY DEF Blank, Message
<1>4. PoolClean
  BY <1>1 DEF PoolClean, Free
<1>5. VectorsOK
  BY <1>1, <1>3 DEF VectorsOK
<1>6. ClientsOK /\ FragsOK /\ ServersOK /\ CarriedOnce /\ ForwardOK
  BY <1>1, <1>2 DEF ClientsOK, FragsOK, ServersOK, CarriedOnce, ForwardOK
<1> QED BY <1>4, <1>5, <1>6 DEF OwnInv

\* The steps of QuietOwn.
LEMMA QuietSteps ==
    ASSUME TypeOK, OwnInv,
           \/ \E c \in Client : Accept(c) \/ ReadEof(c) \/ RspSendIdle(c)
           \/ \E s \in Server : ReqSendIdle(s) \/ EarlyAnswer(s)
           \/ \E m \in Msg : TimeoutSkip(m)
           \/ Terminate \/ UNCHANGED vars
    PROVE  OwnInv'
<1> USE DEF Idle, msgVars, flagVars, clientVars, serverVars, connVars, loopVars, envVars
<1>1. ASSUME NEW c \in Client, Accept(c) \/ ReadEof(c) \/ RspSendIdle(c)
      PROVE  OwnInv'
  BY <1>1, QuietOwn DEF Accept, ReadEof, RspSendIdle
<1>2. ASSUME NEW s \in Server, ReqSendIdle(s) \/ EarlyAnswer(s)
      PROVE  OwnInv'
  BY <1>2, QuietOwn DEF ReqSendIdle, EarlyAnswer, CanSend
<1>3. ASSUME NEW m \in Msg, TimeoutSkip(m)
      PROVE  OwnInv'
  BY <1>3, QuietOwn DEF TimeoutSkip
<1>4. ASSUME Terminate
      PROVE  OwnInv'
  BY <1>4, QuietOwn DEF Terminate
<1>5. ASSUME UNCHANGED vars
      PROVE  OwnInv'
  <2>1. recving = Nil \/ sending = Nil
    BY DEF OwnInv, ForwardOK
  <2> QED BY <1>5, <2>1, QuietOwn DEF vars
<1> QED BY <1>1, <1>2, <1>3, <1>4, <1>5

-----------------------------------------------------------------------------
(* Reading requests *)

LEMMA ReadSingleOwn ==
    ASSUME TypeOK, OwnInv, NEW c \in Client, NEW m \in Msg, NEW kind, ReadSingle(c, m, kind)
    PROVE  OwnInv'
<1>1. /\ m \in Free /\ recving = Nil /\ sending' = Nil /\ recving' = c
      /\ frag_msgq' = <<m>>
      /\ UNCHANGED <<done, fdone, swallow, nfrag_done, frags, tmo, c_omsg_q, imsg_q, s_omsg_q>>
  BY DEF ReadSingle, CanRead, Idle, flagVars, clientVars, serverVars
<1>2. /\ req'[m].owner = c /\ req'[m].part = 0 /\ req'[m].frag_owner = Nil
      /\ \A x \in Msg : x # m => req'[x] = req[x]
  BY DEF ReadSingle, Message, TypeOK, MsgTypes
<1>3. /\ \A x \in Free' : x \in Free /\ x # m
      /\ \A x \in Msg : x # m => (Noreply(x)' <=> Noreply(x))
      /\ \A x \in Free : x # m => x \in Free'
  BY SMTT(60), <1>2, NilIsNone DEF Free, Blank, Message, Noreply
<1>4. /\ \A s \in Server : m \notin Carried(s) /\ Carried(s)' = Carried(s)
      /\ \A d \in Client : m \notin Requests(d) /\ Requests(d)' = Requests(d)
      /\ \A x \in Msg : m \notin frags[x]
      /\ m \notin done /\ m \notin fdone /\ m \notin swallow
      /\ frags[m] = {} /\ tmo[m] = Nil /\ nfrag_done[m] = 0
  BY <1>1, FreeNowhere DEF Carried, Requests
<1>5. Forwarding' = {m} /\ IsInjective(frag_msgq')
  BY <1>1, RangeOne DEF Forwarding
<1>6. PoolClean'
  BY <1>1, <1>3, <1>4, FlagsTyped DEF OwnInv, PoolClean
<1>7. ClientsOK'
  BY SMTT(60), <1>1, <1>2, <1>3, <1>4, <1>5, QueuesTyped DEF OwnInv, ClientsOK
<1>8. FragsOK'
  <2>1. ASSUME NEW x \in Msg, NEW f \in frags'[x]
        PROVE  /\ f \notin swallow' /\ f \notin Forwarding' /\ ~Noreply(f)'
               /\ req'[f].frag_owner = x /\ req'[f].part # 0
               /\ req'[x].part = 0 /\ x \in done'
    <3>1. f \in frags[x] /\ f \in Msg /\ f # m /\ x # m
      BY <1>1, <1>4, FlagsTyped
    <3>2. /\ f \notin swallow /\ ~Noreply(f) /\ req[f].frag_owner = x /\ req[f].part # 0
          /\ req[x].part = 0 /\ x \in done
      BY <3>1 DEF OwnInv, FragsOK
    <3>3. req'[f] = req[f] /\ req'[x] = req[x] /\ ~Noreply(f)'
      BY <1>2, <1>3, <3>1, <3>2
    <3>4. f \notin swallow' /\ x \in done' /\ f \notin Forwarding'
      BY <1>1, <1>5, <3>1, <3>2
    <3> QED BY <3>2, <3>3, <3>4
  <2> QED BY <2>1 DEF FragsOK
<1>9. ServersOK'
  BY SMTT(60), <1>1, <1>2, <1>3, <1>4, <1>5, QueuesTyped DEF OwnInv, ServersOK
<1>10. CarriedOnce'
  BY <1>1, <1>3, <1>4, QueuesTyped DEF OwnInv, CarriedOnce, Carried
<1>11. ForwardOK'
  BY <1>1, <1>2, <1>3, <1>4, <1>5, NilIsNone DEF ForwardOK, ToForward
<1>12. VectorsOK'
  BY <1>1, <1>2, <1>4, FlagsTyped DEF OwnInv, VectorsOK
<1> QED BY <1>6, <1>7, <1>8, <1>9, <1>10, <1>11, <1>12 DEF OwnInv

LEMMA ReadLocalOwn ==
    ASSUME TypeOK, OwnInv, NEW c \in Client, NEW m \in Msg, ReadLocal(c, m)
    PROVE  OwnInv'
<1>1. /\ m \in Free /\ recving = Nil /\ sending' = Nil
      /\ done' = done \cup {m} /\ c_omsg_q' = [c_omsg_q EXCEPT ![c] = Append(@, m)]
      /\ UNCHANGED <<fdone, swallow, nfrag_done, frags, tmo, imsg_q, s_omsg_q, frag_msgq>>
  BY DEF ReadLocal, CanRead, Idle, serverVars
<1>2. /\ req'[m].owner = c /\ req'[m].part = 0 /\ req'[m].kind = "local"
      /\ req'[m].frag_owner = Nil
      /\ \A x \in Msg : x # m => req'[x] = req[x]
  BY DEF ReadLocal, Message, TypeOK, MsgTypes
<1>3. /\ \A x \in Free' : x \in Free /\ x # m
      /\ \A x \in Msg : x # m => (Noreply(x)' <=> Noreply(x))
      /\ ~Noreply(m)'
  BY SMTT(60), <1>2, NilIsNone DEF Free, Blank, Message, Noreply
<1>4. /\ \A s \in Server : m \notin Carried(s) /\ Carried(s)' = Carried(s)
      /\ \A d \in Client : m \notin Requests(d)
      /\ \A x \in Msg : m \notin frags[x]
      /\ m \notin done /\ m \notin fdone /\ m \notin swallow
      /\ frags[m] = {} /\ tmo[m] = Nil /\ nfrag_done[m] = 0
  BY <1>1, FreeNowhere DEF Carried
<1>5. Forwarding' = {} /\ IsInjective(frag_msgq') /\ frag_msgq' = <<>>
  BY <1>1, RangeEmpty DEF Forwarding, OwnInv, ForwardOK
<1>6. PoolClean'
  BY <1>1, <1>3, <1>4, FlagsTyped DEF OwnInv, PoolClean
<1>7. ClientsOK'
  <2>1. /\ Requests(c)' = Requests(c) \cup {m} /\ IsInjective(c_omsg_q'[c])
        /\ \A d \in Client : d # c => Requests(d)' = Requests(d) /\ c_omsg_q'[d] = c_omsg_q[d]
    BY <1>1, <1>4, QueuedOnClient
  <2> QED BY SMTT(60), <1>1, <1>2, <1>3, <1>4, <1>5, <2>1, QueuesTyped DEF OwnInv, ClientsOK
<1>8. FragsOK'
  <2>1. ASSUME NEW x \in Msg, NEW f \in frags'[x]
        PROVE  /\ f \notin swallow' /\ f \notin Forwarding' /\ ~Noreply(f)'
               /\ req'[f].frag_owner = x /\ req'[f].part # 0
               /\ req'[x].part = 0 /\ x \in done'
    <3>1. f \in frags[x] /\ f \in Msg /\ f # m /\ x # m
      BY <1>1, <1>4, FlagsTyped
    <3>2. /\ f \notin swallow /\ ~Noreply(f) /\ req[f].frag_owner = x /\ req[f].part # 0
          /\ req[x].part = 0 /\ x \in done
      BY <3>1 DEF OwnInv, FragsOK
    <3>3. req'[f] = req[f] /\ req'[x] = req[x] /\ ~Noreply(f)'
      BY <1>2, <1>3, <3>1, <3>2
    <3>4. f \notin swallow' /\ x \in done' /\ f \notin Forwarding'
      BY <1>1, <1>5, <3>1, <3>2
    <3> QED BY <3>2, <3>3, <3>4
  <2> QED BY <2>1 DEF FragsOK
<1>9. ServersOK'
  BY SMTT(60), <1>1, <1>2, <1>3, <1>4, <1>5, QueuesTyped DEF OwnInv, ServersOK
<1>10. CarriedOnce'
  BY <1>1, <1>3, <1>4, QueuesTyped DEF OwnInv, CarriedOnce, Carried
<1>11. ForwardOK'
  BY <1>1, <1>5 DEF ForwardOK
<1>12. VectorsOK'
  BY <1>1, <1>2, <1>4, FlagsTyped DEF OwnInv, VectorsOK
<1> QED BY <1>6, <1>7, <1>8, <1>9, <1>10, <1>11, <1>12 DEF OwnInv

LEMMA ReadVectorOwn ==
    ASSUME TypeOK, OwnInv, NEW c \in Client, NEW m \in Msg, NEW q \in Seq(Msg), NEW kind,
           q # <<>>, ReadVector(c, m, q, kind)
    PROVE  OwnInv'
<1>1. /\ m \in Free /\ \A x \in Range(q) : x \in Free /\ x # m
      /\ IsInjective(q) /\ kind \in {"mget", "mset"}
      /\ recving = Nil /\ sending' = Nil /\ recving' = c /\ frag_msgq' = q
      /\ done' = done \cup {m} /\ c_omsg_q' = [c_omsg_q EXCEPT ![c] = Append(@, m)]
      /\ UNCHANGED <<fdone, swallow, nfrag_done, frags, tmo, imsg_q, s_omsg_q>>
  BY DEF ReadVector, CanRead, Idle, serverVars, VectorKinds
<1>2. /\ req'[m] = Message(kind, ntag + 1, 0, c, m, Len(q))
      /\ \A x \in Range(q) : \E i \in DOMAIN q :
            req'[x] = Message(kind, ntag + 1, i, c, m, 0)
      /\ \A x \in Msg : x # m /\ x \notin Range(q) => req'[x] = req[x]
  <2> DEFINE at(x) == CHOOSE i \in DOMAIN q : q[i] = x
  <2>1. \A x \in Range(q) : at(x) \in DOMAIN q
    BY DEF Range
  <2>2. req' = [x \in Msg |-> IF x = m THEN Message(kind, ntag + 1, 0, c, m, Len(q))
                              ELSE IF x \in Range(q)
                              THEN Message(kind, ntag + 1, at(x), c, m, 0)
                              ELSE req[x]]
    BY DEF ReadVector
  <2> HIDE DEF at
  <2> QED BY <1>1, <2>1, <2>2, RangeOfSeq
<1>3. /\ req'[m].owner = c /\ req'[m].part = 0 /\ req'[m].kind = kind
      /\ req'[m].nfrag > 0
      /\ \A x \in Range(q) : /\ req'[x].owner = c /\ req'[x].part # 0 /\ req'[x].kind = kind
                             /\ req'[x].frag_owner = m /\ req'[x].nfrag = 0
  <2>1. Len(q) > 0
    BY SMTT(60)
  <2>2. \A x \in Range(q) : /\ req'[x].owner = c /\ req'[x].part # 0 /\ req'[x].kind = kind
                            /\ req'[x].frag_owner = m /\ req'[x].nfrag = 0
    <3> TAKE x \in Range(q)
    <3>1. PICK i \in DOMAIN q : req'[x] = Message(kind, ntag + 1, i, c, m, 0)
      BY <1>2
    <3> QED BY SMTT(60), <3>1 DEF Message
  <2> QED BY SMTT(60), <1>2, <2>1, <2>2 DEF Message
<1>4. /\ \A x \in Free' : x \in Free /\ x # m /\ x \notin Range(q)
      /\ \A x \in Msg : x # m /\ x \notin Range(q) => (Noreply(x)' <=> Noreply(x))
      /\ ~Noreply(m)' /\ \A x \in Range(q) : ~Noreply(x)'
  BY SMTT(60), <1>1, <1>2, <1>3 DEF Free, Blank, Message, Noreply
<1>5. \A x \in Msg : x = m \/ x \in Range(q) =>
         /\ \A s \in Server : x \notin Carried(s)
         /\ \A d \in Client : x \notin Requests(d)
         /\ \A y \in Msg : x \notin frags[y]
         /\ x \notin done /\ x \notin fdone /\ x \notin swallow
         /\ frags[x] = {} /\ tmo[x] = Nil /\ nfrag_done[x] = 0
  BY <1>1, FreeNowhere
<1>6. /\ Forwarding' = Range(q) /\ IsInjective(frag_msgq') /\ Range(q) \subseteq Msg
      /\ \A s \in Server : Carried(s)' = Carried(s)
  BY <1>1, RangeOfSeq DEF Forwarding, Carried
<1>7. /\ Requests(c)' = Requests(c) \cup {m} /\ IsInjective(c_omsg_q'[c])
      /\ \A d \in Client : d # c => Requests(d)' = Requests(d) /\ c_omsg_q'[d] = c_omsg_q[d]
  BY <1>1, <1>5, QueuedOnClient
<1>8. PoolClean'
  BY <1>1, <1>4, <1>5, FlagsTyped DEF OwnInv, PoolClean
<1>9. ClientsOK'
  <2>1. ASSUME NEW d \in Client
        PROVE  IsInjective(c_omsg_q'[d])
    BY <1>7 DEF OwnInv, ClientsOK
  <2>2. ASSUME NEW d \in Client, NEW x \in Requests(d)
        PROVE  /\ x \in Msg /\ x # m /\ x \notin Range(q) /\ x \notin Free
               /\ req[x].owner = d /\ req[x].part = 0 /\ ~Noreply(x) /\ x \notin swallow
    BY <1>5, <1>6, QueuesTyped DEF OwnInv, ClientsOK
  <2>3. ASSUME NEW d \in Client, NEW x \in Requests(d)
        PROVE  /\ x \notin Free' /\ x \notin swallow' /\ x \notin Forwarding'
               /\ req'[x].owner = d /\ req'[x].part = 0 /\ ~Noreply(x)'
    BY <1>1, <1>2, <1>4, <1>6, <2>2
  <2>4. /\ m \notin Free' /\ m \notin swallow' /\ m \notin Forwarding'
        /\ req'[m].owner = c /\ req'[m].part = 0 /\ ~Noreply(m)'
    BY <1>1, <1>3, <1>4, <1>5, <1>6
  <2>5. ASSUME NEW d \in Client, NEW x \in Requests(d)'
        PROVE  x \in Requests(d) \/ (x = m /\ d = c)
    BY <1>7
  <2> QED BY <2>1, <2>3, <2>4, <2>5 DEF ClientsOK
<1>10. FragsOK'
  <2>1. ASSUME NEW x \in Msg, NEW f \in frags[x]
        PROVE  /\ f \in Msg /\ f # m /\ f \notin Range(q) /\ x # m /\ x \notin Range(q)
               /\ f \notin swallow /\ ~Noreply(f) /\ x \in done
               /\ req[f].frag_owner = x /\ req[f].part # 0 /\ req[x].part = 0
    BY <1>5, FlagsTyped DEF OwnInv, FragsOK
  <2> QED BY <1>1, <1>2, <1>4, <1>6, <2>1 DEF FragsOK
<1>11. ServersOK'
  <2>1. ASSUME NEW s \in Server, NEW x \in Carried(s)
        PROVE  x \in Msg /\ x # m /\ x \notin Range(q) /\ req'[x] = req[x]
    BY <1>2, <1>5, QueuesTyped
  <2> QED BY <1>1, <1>4, <1>6, <2>1 DEF OwnInv, ServersOK
<1>12. CarriedOnce'
  <2>1. \A s \in Server : \A x \in Carried(s) : Noreply(x)' <=> Noreply(x)
    BY <1>4, <1>5, QueuesTyped
  <2> QED BY <1>1, <1>6, <2>1 DEF OwnInv, CarriedOnce, Carried
<1>13. ForwardOK'
  <2>1. Uncounted(m)'
    BY <1>1, <1>3, <1>5 DEF Uncounted
  <2>2. \A x \in Range(q) : /\ x \notin Free' /\ x \notin swallow' /\ x \notin done'
                            /\ req'[x].owner = c /\ req'[x].frag_owner = m /\ ~Noreply(x)'
    BY <1>1, <1>3, <1>4, <1>5, <1>6
  <2>3. m \in Requests(c)'
    BY <1>7
  <2>4. \A x \in Range(q) : ToForward(x)'
    BY <1>1, <2>1, <2>2, <2>3 DEF ToForward
  <2> QED BY <1>1, <1>6, <2>4, NilIsNone DEF ForwardOK
<1>14. VectorsOK'
  <2>1. ASSUME NEW x \in Msg
        PROVE  /\ nfrag_done'[x] # 0 => x \in done' /\ req'[x].part = 0
               /\ req'[x].part = 0 /\ req'[x].frag_owner # Nil => x \in done'
               /\ req'[x].nfrag # 0 => req'[x].part = 0
    <3>1. CASE x = m
      BY <1>1, <1>3, <3>1
    <3>2. CASE x \in Range(q)
      BY <1>1, <1>3, <1>5, <3>2
    <3>3. CASE x # m /\ x \notin Range(q)
      <4>1. /\ nfrag_done[x] # 0 => x \in done /\ req[x].part = 0
            /\ req[x].part = 0 /\ req[x].frag_owner # Nil => x \in done
            /\ req[x].nfrag # 0 => req[x].part = 0
        BY DEF OwnInv, VectorsOK
      <4> QED BY <1>1, <1>2, <3>3, <4>1
    <3> QED BY <3>1, <3>2, <3>3
  <2>2. ASSUME NEW x \in fdone'
        PROVE  x \in done' /\ req'[x].part = 0 /\ frags'[x] \subseteq done'
    <3>1. x \in Msg /\ x \in fdone /\ x # m /\ x \notin Range(q)
      BY <1>1, <1>5, <2>2, FlagsTyped
    <3>2. x \in done /\ req[x].part = 0 /\ frags[x] \subseteq done
      BY <3>1 DEF OwnInv, VectorsOK
    <3> QED BY <1>1, <1>2, <3>1, <3>2
  <2> QED BY <2>1, <2>2 DEF VectorsOK
<1> QED BY <1>8, <1>9, <1>10, <1>11, <1>12, <1>13, <1>14 DEF OwnInv

-----------------------------------------------------------------------------
(* Forwarding them *)

LEMMA ReqForwardOwn ==
    ASSUME TypeOK, OwnInv, NEW s \in Server, ReqForward(s)
    PROVE  OwnInv'
<1>0. PICK m \in Msg, a \in SUBSET Msg : Forwarded(s, m, a)
  BY ReqForwardFacts
<1>1. PICK c : Forwarded(s, m, a) /\ c = recving
  BY <1>0
<1>2. swallow' = swallow \cup a
  BY <1>1 DEF Forwarded
<1>3. UNCHANGED <<done, fdone, nfrag_done, s_omsg_q>>
  BY <1>1 DEF Forwarded
<1>4. /\ m \in Msg /\ m \in Forwarding /\ c \in Client /\ sending' = Nil
      /\ IsInjective(frag_msgq') /\ \A x \in Forwarding' : x \in Forwarding /\ x # m
      /\ recving' = Nil => frag_msgq' = <<>>
      /\ frag_msgq' # <<>> => recving' = c
      /\ \A t \in Server : m \notin Carried(t)
      /\ \A d \in Client : m \notin Requests(d)
      /\ \A x \in Msg : m \notin frags[x]
  BY <1>1 DEF Forwarded
<1>6. \A x \in a : x \in Free /\ x # m
  BY <1>1 DEF Forwarded
<1>7. \A x \in a : /\ x \in Msg /\ x # m /\ frags[x] = {} /\ nfrag_done[x] = 0
                   /\ \A t \in Server : x \notin Carried(t)
                   /\ \A d \in Client : x \notin Requests(d)
                   /\ \A y \in Msg : x \notin frags[y]
                   /\ x \notin Forwarding /\ x \notin done /\ x \notin fdone
  BY <1>6, FreeNowhere
<1>8. \A x \in Msg : x \notin a => req'[x] = req[x]
  BY <1>1 DEF Forwarded
<1>9. /\ \A x \in a : /\ x \notin Free' /\ ~Noreply(x)' /\ req'[x].part = 0
                      /\ req'[x].frag_owner = Nil /\ req'[x].nfrag = 0
      /\ \A x \in Msg : x \notin a => (x \in Free' <=> x \in Free) /\ (Noreply(x)' <=> Noreply(x))
      /\ Free' \subseteq Msg
  BY <1>1 DEF Forwarded, Free
<1>10. /\ \A d \in Client : /\ IsInjective(c_omsg_q'[d])
                            /\ Requests(d) \subseteq Requests(d)'
                            /\ \A x \in Requests(d)' : \/ x \in Requests(d)
                                                       \/ x = m /\ d = c /\ ~Noreply(m)
                                                          /\ req[m].part = 0
       /\ \A x \in Msg : /\ frags[x] \subseteq frags'[x]
                         /\ \A f \in frags'[x] : \/ f \in frags[x]
                                                 \/ f = m /\ req[m].part # 0
                                                    /\ x = req[m].frag_owner
       /\ req[m].part # 0 => req[m].frag_owner \in Msg /\ m \in frags'[req[m].frag_owner]
  BY <1>1 DEF Forwarded
<1>11. /\ Range(imsg_q'[s]) = Range(imsg_q[s]) \cup a \cup {m} /\ IsInjective(imsg_q'[s])
       /\ \A t \in Server : t # s => imsg_q'[t] = imsg_q[t]
  BY <1>1 DEF Forwarded
<1>12. /\ Carried(s)' = Carried(s) \cup a \cup {m}
       /\ \A t \in Server : t # s => Carried(t)' = Carried(t)
  BY <1>1 DEF Forwarded
<1>13. /\ m \notin Free /\ m \notin swallow /\ m \notin done /\ req[m].owner = c
       /\ req[m].part # 0 => /\ ~Noreply(m)
                             /\ req[m].frag_owner \in Requests(c)
                             /\ Uncounted(req[m].frag_owner)
  BY <1>1 DEF Forwarded
<1> DEFINE fo == req[m].frag_owner
<1>14. req[m].part # 0 => /\ fo \in Msg /\ fo \in Requests(c) /\ fo \notin Free /\ fo \notin a
                          /\ fo \in done /\ fo \notin fdone /\ req[fo].part = 0
  <2>1. \A x \in Requests(c) : x \in Msg /\ x \notin Free /\ req[x].part = 0
    BY <1>4, QueuesTyped DEF OwnInv, ClientsOK
  <2> QED BY <1>7, <1>13, <2>1 DEF Uncounted
<1> HIDE DEF fo
<1>15. m \notin a /\ req'[m] = req[m]
  BY <1>4, <1>7, <1>8
<1>16. PoolClean'
  <2>1. \A x \in Msg : x \notin a /\ (x = m => Noreply(m)) => tmo'[x] = tmo[x]
    BY <1>1 DEF Forwarded
  <2>2. \A x \in Free' : x \in Free /\ x \notin a /\ x # m
    BY <1>9, <1>13
  <2>3. \A x \in Free' : frags'[x] = {}
    BY <1>10, <1>14, <2>2, FlagsTyped DEF OwnInv, PoolClean, Free, fo
  <2> QED BY <1>2, <1>3, <1>9, <1>13, <2>1, <2>2, <2>3, FlagsTyped DEF OwnInv, PoolClean
<1>17. ClientsOK'
  BY SMTT(60), <1>2, <1>4, <1>7, <1>8, <1>9, <1>10, <1>13, <1>15, QueuesTyped DEF OwnInv, ClientsOK
<1>18. FragsOK'
  <2> SUFFICES ASSUME NEW x \in Msg, NEW f \in frags'[x]
               PROVE  /\ f \notin swallow' /\ f \notin Forwarding' /\ ~Noreply(f)'
                      /\ req'[f].frag_owner = x /\ req'[f].part # 0
                      /\ req'[x].part = 0 /\ x \in done'
    BY DEF FragsOK
  <2>1. CASE f \in frags[x]
    <3>1. f \in Msg /\ f \notin a /\ x \notin a
      BY <1>7, <2>1, FlagsTyped
    <3> QED BY SMTT(60), <1>2, <1>3, <1>4, <1>8, <1>9, <2>1, <3>1 DEF OwnInv, FragsOK
  <2>2. CASE f = m /\ req[m].part # 0 /\ x = fo
    BY <1>2, <1>3, <1>4, <1>8, <1>9, <1>13, <1>14, <1>15, <2>2 DEF fo
  <2> QED BY <1>10, <2>1, <2>2 DEF fo
<1>19. ServersOK'
  <2> SUFFICES ASSUME NEW t \in Server, NEW x \in Carried(t)'
               PROVE  /\ x \notin Free' /\ x \notin done' /\ x \notin Forwarding'
                      /\ x \notin swallow' /\ req'[x].part # 0 =>
                            req'[x].frag_owner \in Msg /\ x \in frags'[req'[x].frag_owner]
    BY DEF ServersOK
  <2>1. CASE x \in Carried(t)
    <3>1. x \in Msg /\ x \notin a /\ x # m
      BY <1>4, <1>7, <2>1, QueuesTyped
    <3> QED BY <1>2, <1>3, <1>4, <1>8, <1>9, <1>10, <2>1, <3>1 DEF OwnInv, ServersOK
  <2>2. CASE x \in a
    BY <1>2, <1>3, <1>4, <1>7, <1>9, <2>2
  <2>3. CASE x = m
    BY <1>2, <1>3, <1>4, <1>9, <1>10, <1>13, <1>15, <2>3
  <2> QED BY <1>12, <2>1, <2>2, <2>3
<1>20. CarriedOnce'
  <2>1. \A t \in Server : \A x \in Range(s_omsg_q[t]) : ~Noreply(x)'
    <3>1. \A t \in Server : \A x \in Range(s_omsg_q[t]) : x \in Msg /\ x \notin a /\ ~Noreply(x)
      BY <1>7, QueuesTyped DEF OwnInv, CarriedOnce, Carried
    <3> QED BY <1>9, <3>1
  <2>2. \A t, u \in Server : \A x \in Carried(t)' : x \in Carried(u)' => t = u
    <3>1. \A t, u \in Server : \A x \in Carried(t) : x \in Carried(u) => t = u
      BY DEF OwnInv, CarriedOnce
    <3> QED BY SMTT(60), <1>4, <1>7, <1>12, <3>1
  <2>3. \A x \in Range(imsg_q'[s]) : x \notin Range(s_omsg_q[s])
    <3>1. \A x \in Range(s_omsg_q[s]) : x \in Carried(s) /\ x \notin Range(imsg_q[s])
      BY DEF OwnInv, CarriedOnce, Carried
    <3> QED BY <1>4, <1>7, <1>11, <3>1
  <2>4. \A t \in Server : /\ IsInjective(imsg_q'[t]) /\ IsInjective(s_omsg_q'[t])
                          /\ \A x \in Range(imsg_q'[t]) : x \notin Range(s_omsg_q'[t])
    BY <1>3, <1>11, <2>3 DEF OwnInv, CarriedOnce
  <2> QED BY <1>3, <2>1, <2>2, <2>4 DEF CarriedOnce
<1>21. ForwardOK'
  <2> SUFFICES ASSUME NEW x \in Forwarding'
               PROVE  ToForward(x)'
    BY <1>4 DEF ForwardOK
  <2>1. recving' = c
    BY <1>4, RangeEmpty DEF Forwarding
  <2>2. x \in Forwarding /\ x \in Msg /\ x \notin a
    BY <1>4, <1>7, QueuesTyped
  <2>3. /\ x \notin Free /\ x \notin swallow /\ x \notin done /\ req[x].owner = c
        /\ req[x].part # 0 => ~Noreply(x) /\ req[x].frag_owner \in Requests(c) /\ Uncounted(req[x].frag_owner)
    BY <1>1, <2>2 DEF OwnInv, ForwardOK, ToForward
  <2>4. /\ x \notin Free' /\ x \notin swallow' /\ x \notin done' /\ req'[x] = req[x]
        /\ Noreply(x)' <=> Noreply(x)
    BY <1>2, <1>3, <1>8, <1>9, <2>2, <2>3
  <2>5. PICK y : y = req[x].frag_owner
    OBVIOUS
  <2>6. ASSUME req[x].part # 0
        PROVE  y \in Requests(c)' /\ Uncounted(y)'
    <3>1. y \in Msg /\ y \in Requests(c) /\ y \notin a /\ Uncounted(y)
      BY <1>4, <1>7, <2>3, <2>5, <2>6, QueuesTyped
    <3> QED BY <1>3, <1>4, <1>8, <1>10, <3>1 DEF Uncounted
  <2> QED BY <2>1, <2>3, <2>4, <2>5, <2>6 DEF ToForward, Requests, Uncounted
<1>22. VectorsOK'
  <2>1. \A x \in fdone : x \in Msg /\ x \notin a /\ \A f \in frags'[x] : f \in frags[x]
    BY SMTT(60), <1>7, <1>10, <1>14, FlagsTyped DEF fo
  <2> QED BY <1>3, <1>7, <1>8, <1>9, <2>1 DEF OwnInv, VectorsOK
<1> QED BY <1>16, <1>17, <1>18, <1>19, <1>20, <1>21, <1>22 DEF OwnInv

LEMMA ReqForwardErrorOwn ==
    ASSUME TypeOK, TypeOK', OwnInv, ReqForwardError
    PROVE  OwnInv'
<1>0. PICK m \in Msg, gone \in SUBSET Msg : ForwardFailed(m, gone)
  BY ForwardErrorFacts
<1>1. PICK c : c = recving
  OBVIOUS
<1>2. /\ done' = done \cup ({m} \ gone)
      /\ UNCHANGED <<swallow, nfrag_done, tmo, imsg_q, s_omsg_q>>
  BY <1>0 DEF ForwardFailed
<1>3. /\ m \in Msg /\ m \in Forwarding /\ c \in Client /\ sending' = Nil
      /\ IsInjective(frag_msgq') /\ \A x \in Forwarding' : x \in Forwarding /\ x # m
      /\ \A x \in Forwarding : x = m \/ x \in Forwarding'
      /\ recving' = Nil => frag_msgq' = <<>>
      /\ frag_msgq' # <<>> => recving' = c
      /\ \A t \in Server : m \notin Carried(t) /\ Carried(t)' = Carried(t)
      /\ \A d \in Client : m \notin Requests(d)
      /\ \A x \in Msg : m \notin frags[x]
      /\ frags[m] = {} /\ nfrag_done[m] = 0 /\ m \notin fdone
  BY <1>0, <1>1 DEF ForwardFailed
<1>4. /\ \A x \in Msg : x \notin gone => req'[x] = req[x]
      /\ \A x \in Msg : x \in gone => req'[x] = Blank
      /\ \A x \in Msg : x \in Free' <=> x \in Free \/ x \in gone
      /\ \A x \in Msg : Noreply(x)' <=> Noreply(x) /\ x \notin gone
      /\ Free' \subseteq Msg
  BY <1>0, <1>1 DEF ForwardFailed, Free
<1>5. /\ \A x : x \in gone => x = m /\ Noreply(m)
      /\ m \notin gone => ~Noreply(m)
  BY <1>0, <1>1 DEF ForwardFailed
<1>6. /\ m \notin Free /\ m \notin swallow /\ m \notin done /\ req[m].owner = c
      /\ req[m].part # 0 => /\ ~Noreply(m)
                            /\ req[m].frag_owner \in Requests(c)
                            /\ Uncounted(req[m].frag_owner)
  BY <1>0, <1>1 DEF ForwardFailed
<1>7. /\ \A d \in Client : /\ IsInjective(c_omsg_q'[d])
                           /\ Requests(d) \subseteq Requests(d)'
                           /\ \A x \in Requests(d)' : \/ x \in Requests(d)
                                                      \/ x = m /\ d = c /\ ~Noreply(m)
                                                         /\ req[m].part = 0
      /\ \A x \in Msg : /\ frags[x] \subseteq frags'[x]
                        /\ \A f \in frags'[x] : \/ f \in frags[x]
                                                \/ f = m /\ req[m].part # 0
                                                   /\ x = req[m].frag_owner
      /\ req[m].part # 0 => req[m].frag_owner \in Msg /\ m \in frags'[req[m].frag_owner]
  BY <1>0, <1>1 DEF ForwardFailed
<1>8. /\ \A x \in fdone' : \/ x \in fdone /\ x \notin gone
                           \/ /\ x \in done' /\ frags'[x] \subseteq done'
                              /\ nfrag_done'[x] >= req'[x].nfrag /\ req[x].nfrag > 0
      /\ fdone' \subseteq Msg
  BY <1>0, <1>1 DEF ForwardFailed
<1>9. PICK fo : fo = req[m].frag_owner
  OBVIOUS
<1>10. req[m].part # 0 => /\ fo \in Msg /\ fo \in Requests(c) /\ fo \notin Free /\ fo # m
                          /\ fo \in done /\ fo \notin fdone /\ req[fo].part = 0
  <2>1. \A x \in Requests(c) : x \in Msg /\ x \notin Free /\ req[x].part = 0
    BY <1>3, QueuesTyped DEF OwnInv, ClientsOK
  <2> QED BY <1>3, <1>6, <1>9, <2>1 DEF Uncounted
<1>11. PoolClean'
  <2>1. \A x \in Free' : frags'[x] = {}
    <3> SUFFICES ASSUME NEW x \in Free', NEW f \in frags'[x]
                 PROVE  FALSE
      OBVIOUS
    <3>1. x \in Msg /\ frags[x] = {}
      BY <1>3, <1>4, <1>5 DEF OwnInv, PoolClean
    <3>2. f = m /\ req[m].part # 0 /\ x = fo
      BY <1>7, <1>9, <3>1
    <3> QED BY <1>4, <1>5, <1>6, <1>10, <3>2
  <2>2. \A x \in Free' : x \notin done' /\ x \notin fdone' /\ x \notin swallow'
    <3> TAKE x \in Free'
    <3>1. x \in Msg /\ x \notin done /\ x \notin fdone /\ x \notin swallow
      BY <1>3, <1>4, <1>5, <1>6 DEF OwnInv, PoolClean
    <3>2. x \notin done'
      BY <1>2, <1>4, <1>6, <3>1
    <3> QED BY <1>2, <1>8, <3>1, <3>2
  <2>3. \A x \in Msg : x \in Free' \/ Noreply(x)' => tmo'[x] = Nil
    BY <1>2, <1>4, <1>5 DEF OwnInv, PoolClean
  <2>4. \A x \in swallow' : ~Noreply(x)'
    BY <1>2, <1>4, FlagsTyped DEF OwnInv, PoolClean
  <2> QED BY <2>1, <2>2, <2>3, <2>4 DEF PoolClean
<1>12. ClientsOK'
  <2> SUFFICES ASSUME NEW d \in Client, NEW x \in Requests(d)'
               PROVE  /\ x \notin Free' /\ x \notin swallow' /\ x \notin Forwarding'
                      /\ req'[x].owner = d /\ req'[x].part = 0 /\ ~Noreply(x)'
    BY <1>7 DEF ClientsOK
  <2>1. CASE x \in Requests(d)
    BY SMTT(60), <1>2, <1>3, <1>4, <1>5, <2>1, QueuesTyped DEF OwnInv, ClientsOK
  <2>2. CASE x = m /\ d = c /\ ~Noreply(m) /\ req[m].part = 0
    BY <1>2, <1>3, <1>4, <1>5, <1>6, <2>2
  <2> QED BY <1>7, <2>1, <2>2
<1>13. FragsOK'
  <2> SUFFICES ASSUME NEW x \in Msg, NEW f \in frags'[x]
               PROVE  /\ f \notin swallow' /\ f \notin Forwarding' /\ ~Noreply(f)'
                      /\ req'[f].frag_owner = x /\ req'[f].part # 0
                      /\ req'[x].part = 0 /\ x \in done'
    BY DEF FragsOK
  <2>1. CASE f \in frags[x]
    <3>1. f \in Msg /\ f \notin gone /\ x \notin gone
      BY SMTT(60), <1>3, <1>5, <2>1, FlagsTyped
    <3> QED BY <1>2, <1>3, <1>4, <2>1, <3>1 DEF OwnInv, FragsOK
  <2>2. CASE f = m /\ req[m].part # 0 /\ x = fo
    BY <1>2, <1>3, <1>4, <1>5, <1>6, <1>9, <1>10, <2>2
  <2> QED BY <1>7, <1>9, <2>1, <2>2
<1>14. ServersOK'
  <2> SUFFICES ASSUME NEW t \in Server, NEW x \in Carried(t)
               PROVE  /\ x \notin Free' /\ x \notin done' /\ x \notin Forwarding'
                      /\ x \notin swallow' /\ req'[x].part # 0 =>
                            req'[x].frag_owner \in Msg /\ x \in frags'[req'[x].frag_owner]
    BY <1>3 DEF ServersOK
  <2>1. x \in Msg /\ x \notin gone /\ x # m
    BY <1>3, <1>5, QueuesTyped
  <2> QED BY <1>2, <1>3, <1>4, <1>7, <2>1 DEF OwnInv, ServersOK
<1>15. CarriedOnce'
  <2>1. \A t \in Server : \A x \in Range(s_omsg_q[t]) : ~Noreply(x)'
    <3>1. \A t \in Server : \A x \in Range(s_omsg_q[t]) : x \in Msg /\ ~Noreply(x)
      BY QueuesTyped DEF OwnInv, CarriedOnce, Carried
    <3> QED BY <1>4, <3>1
  <2>2. imsg_q' = imsg_q /\ s_omsg_q' = s_omsg_q
    BY <1>2
  <2> QED BY SMTT(60), <1>3, <2>1, <2>2 DEF OwnInv, CarriedOnce
<1>16. ForwardOK'
  <2> SUFFICES ASSUME NEW x \in Forwarding'
               PROVE  ToForward(x)'
    BY <1>3 DEF ForwardOK
  <2>1. recving' = c
    BY <1>3, RangeEmpty DEF Forwarding
  <2>2. x \in Forwarding /\ x \in Msg /\ x # m /\ x \notin gone
    BY <1>3, <1>5, QueuesTyped
  <2>3. /\ x \notin Free /\ x \notin swallow /\ x \notin done /\ req[x].owner = c
        /\ req[x].part # 0 => ~Noreply(x) /\ req[x].frag_owner \in Requests(c) /\ Uncounted(req[x].frag_owner)
    BY <1>1, <2>2 DEF OwnInv, ForwardOK, ToForward
  <2>4. /\ x \notin Free' /\ x \notin swallow' /\ x \notin done' /\ req'[x] = req[x]
        /\ Noreply(x)' <=> Noreply(x)
    BY <1>2, <1>4, <2>2, <2>3
  <2>5. PICK y : y = req[x].frag_owner
    OBVIOUS
  <2>6. ASSUME req[x].part # 0
        PROVE  y \in Requests(c)' /\ Uncounted(y)'
    <3>1. y \in Msg /\ y \in Requests(c) /\ y \notin gone /\ Uncounted(y)
      BY SMTT(60), <1>3, <1>5, <2>3, <2>5, <2>6, QueuesTyped
    <3>2. req'[y] = req[y] /\ nfrag_done'[y] = 0 /\ req[y].nfrag > 0 /\ req[y].nfrag \in Nat
      BY <1>2, <1>4, <3>1 DEF Uncounted, TypeOK, MsgTypes, Request
    <3>3. y \notin fdone'
      BY SMTT(60), <1>8, <3>1, <3>2 DEF Uncounted
    <3> QED BY <1>2, <1>3, <1>7, <3>1, <3>2, <3>3 DEF Uncounted
  <2> QED BY <2>1, <2>3, <2>4, <2>5, <2>6 DEF ToForward, Requests, Uncounted
<1>17. VectorsOK'
  <2>1. \A x \in Msg : /\ nfrag_done'[x] # 0 => x \in done' /\ req'[x].part = 0
                       /\ req'[x].part = 0 /\ req'[x].frag_owner # Nil => x \in done'
                       /\ req'[x].nfrag # 0 => req'[x].part = 0
    <3> TAKE x \in Msg
    <3>1. CASE x \in gone
      BY SMTT(60), <1>2, <1>3, <1>4, <1>5, <3>1 DEF Blank, Message
    <3>2. CASE x \notin gone
      BY <1>2, <1>4, <3>2 DEF OwnInv, VectorsOK
    <3> QED BY <3>1, <3>2
  <2>2. \A x \in fdone' : x \in done' /\ req'[x].part = 0 /\ frags'[x] \subseteq done'
    <3> TAKE x \in fdone'
    <3>1. x \in Msg
      BY <1>8
    <3>2. CASE x \in fdone /\ x \notin gone
      <4>1. x \in done /\ req[x].part = 0 /\ frags[x] \subseteq done
        BY <3>2 DEF OwnInv, VectorsOK
      <4>2. frags'[x] \subseteq frags[x]
        BY <1>7, <1>9, <1>10, <3>1, <3>2
      <4> QED BY <1>2, <1>4, <3>1, <3>2, <4>1, <4>2
    <3>3. CASE /\ x \in done' /\ frags'[x] \subseteq done' /\ req[x].nfrag > 0
      <4>1. x \notin gone
        BY SMTT(60), <1>2, <1>5, <1>6, <3>3
      <4> QED BY SMTT(60), <1>4, <3>1, <3>3, <4>1 DEF OwnInv, VectorsOK
    <3> QED BY <1>8, <3>2, <3>3
  <2> QED BY <2>1, <2>2 DEF VectorsOK
<1> QED BY <1>11, <1>12, <1>13, <1>14, <1>15, <1>16, <1>17 DEF OwnInv

LEMMA ServerConnectedOwn ==
    ASSUME TypeOK, OwnInv, NEW s \in Server, ServerConnected(s)
    PROVE  OwnInv'
<1>1. PICK a \in SUBSET Msg : Connected(s, a)
  BY ServerConnectedFacts
<1>2. /\ swallow' = swallow \cup a /\ recving = Nil /\ recving' = Nil
      /\ UNCHANGED <<done, fdone, nfrag_done, frags, c_omsg_q, s_omsg_q, frag_msgq>>
  BY <1>1 DEF Connected
<1>3. Forwarding = {} /\ Forwarding' = {} /\ ForwardOK'
  BY <1>2, NothingForwarded
<1>5. \A x \in a : x \in Free
  BY <1>1 DEF Connected
<1>6. \A x \in a : /\ x \in Msg /\ frags[x] = {} /\ nfrag_done[x] = 0
                   /\ \A t \in Server : x \notin Carried(t)
                   /\ \A d \in Client : x \notin Requests(d)
                   /\ \A y \in Msg : x \notin frags[y]
                   /\ x \notin done /\ x \notin fdone
  BY <1>5, FreeNowhere
<1>7. \A x \in Msg : x \notin a => req'[x] = req[x]
  BY <1>1 DEF Connected
<1>8. /\ \A x \in a : /\ x \notin Free' /\ ~Noreply(x)' /\ req'[x].part = 0
                      /\ req'[x].frag_owner = Nil /\ req'[x].nfrag = 0
      /\ \A x \in Msg : x \notin a => (x \in Free' <=> x \in Free) /\ (Noreply(x)' <=> Noreply(x))
      /\ Free' \subseteq Msg
  BY <1>1 DEF Connected, Free
<1>9. /\ Range(imsg_q'[s]) = Range(imsg_q[s]) \cup a /\ IsInjective(imsg_q'[s])
      /\ \A t \in Server : t # s => imsg_q'[t] = imsg_q[t]
  BY <1>1 DEF Connected
<1>10. /\ Carried(s)' = Carried(s) \cup a
       /\ \A t \in Server : t # s => Carried(t)' = Carried(t)
       /\ \A d \in Client : Requests(d)' = Requests(d)
  BY <1>1 DEF Connected
<1>11. PoolClean'
  <2>1. \A x \in Msg : x \notin a => tmo'[x] = tmo[x]
    BY <1>1 DEF Connected
  <2> QED BY <1>2, <1>8, <2>1, FlagsTyped DEF OwnInv, PoolClean
<1>12. ClientsOK'
  <2> SUFFICES ASSUME NEW c \in Client
               PROVE  /\ IsInjective(c_omsg_q'[c])
                      /\ \A x \in Requests(c)' :
                            /\ x \notin Free' /\ x \notin swallow' /\ x \notin Forwarding'
                            /\ req'[x].owner = c /\ req'[x].part = 0 /\ ~Noreply(x)'
    BY DEF ClientsOK
  <2>1. \A x \in Requests(c) : x \in Msg /\ x \notin a
    BY <1>6, QueuesTyped
  <2>2. /\ IsInjective(c_omsg_q[c])
        /\ \A x \in Requests(c) : /\ x \notin Free /\ x \notin swallow
                                  /\ req[x].owner = c /\ req[x].part = 0 /\ ~Noreply(x)
    BY DEF OwnInv, ClientsOK
  <2> QED BY <1>2, <1>3, <1>7, <1>8, <1>10, <2>1, <2>2
<1>13. FragsOK'
  <2> SUFFICES ASSUME NEW x \in Msg, NEW f \in frags'[x]
               PROVE  /\ f \notin swallow' /\ f \notin Forwarding' /\ ~Noreply(f)'
                      /\ req'[f].frag_owner = x /\ req'[f].part # 0
                      /\ req'[x].part = 0 /\ x \in done'
    BY DEF FragsOK
  <2>1. f \in frags[x] /\ f \in Msg /\ f \notin a /\ x \notin a
    BY <1>2, <1>6, FlagsTyped
  <2>2. /\ f \notin swallow /\ ~Noreply(f)
        /\ req[f].frag_owner = x /\ req[f].part # 0
        /\ req[x].part = 0 /\ x \in done
    BY <2>1 DEF OwnInv, FragsOK
  <2> QED BY <1>2, <1>3, <1>7, <1>8, <2>1, <2>2
<1>14. ServersOK'
  <2> SUFFICES ASSUME NEW t \in Server, NEW x \in Carried(t)'
               PROVE  /\ x \notin Free' /\ x \notin done'
                      /\ x \notin swallow' /\ req'[x].part # 0 =>
                            req'[x].frag_owner \in Msg /\ x \in frags'[req'[x].frag_owner]
    BY <1>3 DEF ServersOK
  <2>1. CASE x \in Carried(t)
    <3>1. x \in Msg /\ x \notin a
      BY <1>6, <2>1, QueuesTyped
    <3> QED BY <1>2, <1>7, <1>8, <2>1, <3>1 DEF OwnInv, ServersOK
  <2>2. CASE x \in a
    BY <1>2, <1>6, <1>8, <2>2
  <2> QED BY <1>10, <2>1, <2>2
<1>15. CarriedOnce'
  <2>1. \A t \in Server : \A x \in Range(s_omsg_q[t]) : ~Noreply(x)'
    <3>1. \A t \in Server : \A x \in Range(s_omsg_q[t]) : x \in Msg /\ x \notin a /\ ~Noreply(x)
      BY <1>6, QueuesTyped DEF OwnInv, CarriedOnce, Carried
    <3> QED BY <1>8, <3>1
  <2>2. \A t, u \in Server : \A x \in Carried(t)' : x \in Carried(u)' => t = u
    <3>1. \A t, u \in Server : \A x \in Carried(t) : x \in Carried(u) => t = u
      BY DEF OwnInv, CarriedOnce
    <3> QED BY SMTT(60), <1>6, <1>10, <3>1
  <2>3. \A x \in Range(imsg_q'[s]) : x \notin Range(s_omsg_q[s])
    <3>1. \A x \in Range(s_omsg_q[s]) : x \in Carried(s) /\ x \notin Range(imsg_q[s])
      BY DEF OwnInv, CarriedOnce, Carried
    <3> QED BY <1>6, <1>9, <3>1
  <2>4. \A t \in Server : /\ IsInjective(imsg_q'[t]) /\ IsInjective(s_omsg_q'[t])
                          /\ \A x \in Range(imsg_q'[t]) : x \notin Range(s_omsg_q'[t])
    BY <1>2, <1>9, <2>3 DEF OwnInv, CarriedOnce
  <2> QED BY <1>2, <2>1, <2>2, <2>4 DEF CarriedOnce
<1>16. VectorsOK'
  <2>1. \A x \in fdone : x \in Msg /\ x \notin a
    BY <1>6, FlagsTyped
  <2> QED BY <1>2, <1>6, <1>7, <1>8, <2>1 DEF OwnInv, VectorsOK
<1> QED BY <1>3, <1>11, <1>12, <1>13, <1>14, <1>15, <1>16 DEF OwnInv

-----------------------------------------------------------------------------
(* Servers: requests are written and answered, connections closed *)

LEMMA PositiveIsNotZero == \A n : n > 0 => n # 0
BY SMTT(60)

LEMMA BlankIsNoVector == Blank.part = 0 /\ Blank.frag_owner = Nil /\ Blank.nfrag = 0
BY SMTT(60) DEF Blank, Message

LEMMA FinishesOwn ==
    ASSUME TypeOK, OwnInv, Finishes
    PROVE  OwnInv'
<1> SUFFICES ASSUME NEW gone \in SUBSET Msg, NEW lost \in SUBSET Msg, Finished(gone, lost)
             PROVE  OwnInv'
  BY DEF Finishes
<1> USE DEF Finished
<1>1. /\ \A x \in Msg : x \notin gone => req'[x] = req[x]
      /\ \A x \in Msg : x \in gone => req'[x] = Blank
      /\ \A x \in Msg : x \in Free' <=> x \in Free \/ x \in gone
      /\ \A x \in Msg : Noreply(x)' <=> Noreply(x) /\ x \notin gone
      /\ Free' \subseteq Msg
  BY Freed
<1>2. Forwarding = {} /\ Forwarding' = {} /\ ForwardOK'
  BY NothingForwarded
<1>3. /\ \A x \in gone : /\ x \in Msg /\ x \notin done /\ x \notin fdone
                         /\ frags[x] = {} /\ nfrag_done[x] = 0
                         /\ \A c \in Client : x \notin Requests(c)
                         /\ \A y \in Msg : x \notin frags[y]
      /\ \A x \in lost : x \in Msg /\ x \notin gone /\ x \notin Free
  BY CarriedAlone
<1>4. \A c \in Client : Requests(c)' = Requests(c)
  BY DEF Requests
<1>5. \A f \in lost : \A v \in Msg : req[f].frag_owner = v =>
         v \in done /\ v \notin gone /\ req[v].part = 0
  <2> TAKE f \in lost
  <2> TAKE v \in Msg
  <2> HAVE req[f].frag_owner = v
  <2>1. f \in Msg /\ f \notin done /\ f \notin swallow
    BY <1>3, CarriedAlone
  <2>2. req[f].part # 0
    BY <2>1, NilIsNone DEF OwnInv, VectorsOK
  <2>3. PICK s \in Server : f \in Carried(s)
    OBVIOUS
  <2>4. f \in frags[v]
    BY <2>1, <2>2, <2>3 DEF OwnInv, ServersOK
  <2> QED BY <1>3, <2>4 DEF OwnInv, FragsOK
<1>6. \A x \in fdone' : x \in done' /\ x \in Msg /\ x \notin gone /\ req[x].part = 0 /\ frags[x] \subseteq done'
  <2> TAKE x \in fdone'
  <2>1. CASE x \in fdone /\ x \notin gone
    BY <2>1, FlagsTyped DEF OwnInv, VectorsOK
  <2>2. CASE x \in done' /\ frags'[x] \subseteq done' /\ req[x].nfrag > 0
    <3>1. x \in Msg /\ req[x].nfrag # 0
      BY <2>2, PositiveIsNotZero
    <3>2. req[x].part = 0
      BY <3>1 DEF OwnInv, VectorsOK
    <3>3. x \notin gone
      BY <1>3, <2>2
    <3> QED BY <2>2, <3>1, <3>2, <3>3
  <2> QED BY <2>1, <2>2
<1>7. PoolClean'
  <2>1. \A x \in Free' : x \notin done' /\ x \notin fdone' /\ x \notin swallow' /\ frags'[x] = {}
    BY <1>1, <1>3, <1>6 DEF OwnInv, PoolClean
  <2>2. \A x \in Msg : x \in Free' \/ Noreply(x)' => tmo'[x] = Nil
    BY <1>1 DEF OwnInv, PoolClean
  <2>3. \A x \in swallow' : ~Noreply(x)'
    BY <1>1, FlagsTyped DEF OwnInv, PoolClean
  <2> QED BY <2>1, <2>2, <2>3 DEF PoolClean
<1>8. ClientsOK'
  <2>1. ASSUME NEW c \in Client, NEW x \in Requests(c)'
        PROVE  /\ x \notin Free' /\ x \notin swallow' /\ x \notin Forwarding'
               /\ req'[x].owner = c /\ req'[x].part = 0 /\ ~Noreply(x)'
    <3>1. x \in Requests(c)
      BY <1>4
    <3>2. x \in Msg /\ x \notin gone
      BY <1>3, <3>1, QueuesTyped
    <3>3. /\ x \notin Free /\ x \notin swallow
          /\ req[x].owner = c /\ req[x].part = 0 /\ ~Noreply(x)
      BY <3>1 DEF OwnInv, ClientsOK
    <3>4. swallow' = swallow \ gone
      OBVIOUS
    <3> QED BY <1>1, <1>2, <3>2, <3>3, <3>4
  <2>2. \A c \in Client : IsInjective(c_omsg_q'[c])
    BY DEF OwnInv, ClientsOK
  <2> QED BY <2>1, <2>2 DEF ClientsOK
<1>9. FragsOK'
  <2>1. \A x \in Msg : \A f \in frags[x] : f \in Msg /\ f \notin gone /\ x \notin gone
    BY <1>3, FlagsTyped
  <2>2. ASSUME NEW x \in Msg, NEW f \in frags'[x]
        PROVE  /\ f \notin swallow' /\ f \notin Forwarding' /\ ~Noreply(f)'
               /\ req'[f].frag_owner = x /\ req'[f].part # 0
               /\ req'[x].part = 0 /\ x \in done'
    <3>1. f \in frags[x] /\ f \in Msg /\ req'[f] = req[f] /\ req'[x] = req[x]
      BY <1>1, <2>1
    <3>2. /\ f \notin swallow /\ ~Noreply(f) /\ req[f].frag_owner = x /\ req[f].part # 0
          /\ req[x].part = 0 /\ x \in done
      BY <3>1 DEF OwnInv, FragsOK
    <3> QED BY <1>1, <1>2, <3>1, <3>2
  <2> QED BY <2>2 DEF FragsOK
<1>10. ServersOK'
  <2>1. \A t \in Server : \A x \in Carried(t)' :
           x \in Msg /\ x \in Carried(t) /\ x \notin gone /\ x \notin lost
    BY QueuesTyped
  <2> QED BY <1>1, <1>2, <2>1 DEF OwnInv, ServersOK
<1>11. CarriedOnce'
  <2>1. \A t, u \in Server : \A x \in Carried(t)' : x \in Carried(u)' => t = u
    BY DEF OwnInv, CarriedOnce
  <2>2. \A t \in Server : \A x \in Range(s_omsg_q'[t]) : x \in Msg /\ ~Noreply(x)
    <3>1. \A t \in Server : \A x \in Range(s_omsg_q'[t]) : x \in Carried(t)'
      BY DEF Carried
    <3> QED BY <3>1, QueuesTyped
  <2>3. \A t \in Server : \A x \in Range(s_omsg_q'[t]) : ~Noreply(x)'
    BY <1>1, <2>2
  <2> QED BY <2>1, <2>3 DEF CarriedOnce
<1>12. VectorsOK'
  <2>1. \A x \in Msg : /\ nfrag_done'[x] # 0 => x \in done' /\ req'[x].part = 0
                       /\ req'[x].part = 0 /\ req'[x].frag_owner # Nil => x \in done'
                       /\ req'[x].nfrag # 0 => req'[x].part = 0
    <3> TAKE x \in Msg
    <3>1. CASE x \in gone
      <4>1. req'[x] = Blank
        BY <1>1, <3>1
      <4>2. nfrag_done'[x] = 0
        BY <1>3, <1>5, <3>1
      <4> QED BY <4>1, <4>2, BlankIsNoVector
    <3>2. CASE x \notin gone
      <4>1. req'[x] = req[x]
        BY <1>1, <3>2
      <4>2. nfrag_done'[x] = nfrag_done[x] \/ (x \in done /\ req[x].part = 0)
        BY <1>5
      <4>3. /\ nfrag_done[x] # 0 => x \in done /\ req[x].part = 0
            /\ req[x].part = 0 /\ req[x].frag_owner # Nil => x \in done
            /\ req[x].nfrag # 0 => req[x].part = 0
        BY DEF OwnInv, VectorsOK
      <4> QED BY <4>1, <4>2, <4>3
    <3> QED BY <3>1, <3>2
  <2> QED BY <1>1, <1>6, <2>1 DEF VectorsOK
<1> QED BY <1>2, <1>7, <1>8, <1>9, <1>10, <1>11, <1>12 DEF OwnInv

LEMMA ReqSendDoneFinishes ==
    ASSUME TypeOK, OwnInv, NEW s \in Server, ReqSendDone(s)
    PROVE  Finishes
<1>1. PICK m, gone, lost : /\ m = Head(imsg_q[s]) /\ gone = {x \in {m} : Noreply(x)}
                           /\ lost = {}
  OBVIOUS
<1>2. /\ recving = Nil /\ imsg_q[s] # <<>>
      /\ imsg_q' = [imsg_q EXCEPT ![s] = Tail(@)]
      /\ s_omsg_q' = IF gone # {} THEN s_omsg_q ELSE [s_omsg_q EXCEPT ![s] = Append(@, m)]
      /\ req' = Reset(req, gone, Blank)
      /\ UNCHANGED <<done, error, fdone, swallow, nfrag_done, frags, tmo, c_omsg_q, frag_msgq,
                     recving, sending>>
  BY <1>1 DEF ReqSendDone, CanSend, Idle, flagVars, clientVars, loopVars
<1>3. /\ imsg_q \in [Server -> Seq(Msg)] /\ s_omsg_q \in [Server -> Seq(Msg)]
      /\ \A t \in Server :
            /\ IsInjective(imsg_q[t]) /\ IsInjective(s_omsg_q[t])
            /\ \A x \in Range(imsg_q[t]) : x \notin Range(s_omsg_q[t])
            /\ \A x \in Range(s_omsg_q[t]) : ~Noreply(x)
  BY DEF TypeOK, QueueTypes, OwnInv, CarriedOnce
<1>4. /\ m \in Msg /\ m \in Range(imsg_q[s]) /\ Range(imsg_q[s]) = Range(Tail(imsg_q[s])) \cup {m}
      /\ IsInjective(Tail(imsg_q[s])) /\ m \notin Range(Tail(imsg_q[s]))
  <2>1. imsg_q[s] \in Seq(Msg) /\ imsg_q[s] # <<>> /\ IsInjective(imsg_q[s])
    BY <1>2, <1>3
  <2> QED BY <1>1, <2>1, RangeTail
<1>5. /\ m \notin Range(s_omsg_q[s])
      /\ Range(Append(s_omsg_q[s], m)) = Range(s_omsg_q[s]) \cup {m}
      /\ IsInjective(Append(s_omsg_q[s], m))
  <2>1. s_omsg_q[s] \in Seq(Msg) /\ IsInjective(s_omsg_q[s]) /\ m \notin Range(s_omsg_q[s])
    BY <1>3, <1>4
  <2> QED BY SMTT(60), <1>4, <2>1, RangeAppend
<1>6. /\ m \in Carried(s) /\ (m \in gone <=> Noreply(m)) /\ \A x \in gone : x = m
      /\ gone # {} => m \in gone
  BY <1>1, <1>4 DEF Carried
<1>7. \A x \in gone : x \in swallow \/ Noreply(x)
  BY <1>6
<1>8. swallow' = swallow \ gone /\ \A x \in Msg : IF x \in gone THEN tmo'[x] = Nil ELSE tmo'[x] = tmo[x]
  <2>1. Noreply(m) => m \notin swallow /\ tmo[m] = Nil
    BY <1>6, CarriedAlone
  <2> QED BY <1>2, <1>6, <2>1
<1>9. \A t \in Server : /\ IsInjective(imsg_q'[t]) /\ IsInjective(s_omsg_q'[t])
                        /\ \A x \in Carried(t)' : x \in Carried(t) /\ x \notin gone /\ x \notin lost
                        /\ \A x \in Carried(t) : x \in gone \/ x \in lost \/ x \in Carried(t)'
                        /\ \A x \in Range(s_omsg_q'[t]) :
                              x \notin Range(imsg_q'[t]) /\ ~Noreply(x)
  <2> TAKE t \in Server
  <2>1. CASE t # s
    <3>1. imsg_q'[t] = imsg_q[t] /\ s_omsg_q'[t] = s_omsg_q[t]
      BY <1>2, <1>3, <2>1
    <3>2. m \notin Carried(t)
      BY <1>6, <2>1 DEF OwnInv, CarriedOnce
    <3> QED BY <1>1, <1>3, <1>6, <3>1, <3>2 DEF Carried
  <2>2. CASE t = s
    <3>1. imsg_q'[s] = Tail(imsg_q[s])
      BY <1>2, <1>3
    <3>2. CASE Noreply(m)
      <4>1. s_omsg_q'[s] = s_omsg_q[s]
        BY <1>2, <1>3, <1>6, <3>2
      <4>2. m \in gone /\ \A x \in Carried(s)' : x \in Carried(s) /\ x # m
        BY <1>4, <1>5, <1>6, <3>1, <3>2, <4>1 DEF Carried
      <4>3. \A x \in Carried(s) : x = m \/ x \in Carried(s)'
        BY <1>4, <3>1, <4>1 DEF Carried
      <4>4. \A x \in Range(s_omsg_q[s]) : x \notin Range(Tail(imsg_q[s])) /\ ~Noreply(x)
        BY <1>3, <1>4
      <4> QED BY <1>1, <1>3, <1>4, <1>6, <2>2, <3>1, <4>1, <4>2, <4>3, <4>4
    <3>3. CASE ~Noreply(m)
      <4>1. s_omsg_q'[s] = Append(s_omsg_q[s], m) /\ gone = {}
        BY <1>2, <1>3, <1>6, <3>3
      <4>2. \A x : x \in Carried(s)' <=> x \in Carried(s)
        BY <1>4, <1>5, <3>1, <4>1 DEF Carried
      <4>3. \A x \in Range(Append(s_omsg_q[s], m)) :
               x \notin Range(Tail(imsg_q[s])) /\ ~Noreply(x)
        BY <1>3, <1>4, <1>5, <3>3
      <4> QED BY <1>1, <1>4, <1>5, <2>2, <3>1, <4>1, <4>2, <4>3
    <3> QED BY <3>2, <3>3
  <2> QED BY <2>1, <2>2
<1>10. /\ done' = done \cup lost /\ fdone' \subseteq Msg
       /\ \A x \in fdone' : x \in fdone /\ x \notin gone
       /\ \A x \in gone \cup lost : \E t \in Server : x \in Carried(t)
  <2>1. m \notin fdone
    BY <1>6, CarriedAlone
  <2> QED BY <1>1, <1>2, <1>6, <2>1, FlagsTyped
<1>11. /\ \A x \in lost : x \notin swallow /\ ~Noreply(x)
       /\ \A x \in Msg : nfrag_done'[x] = nfrag_done[x]
       /\ \A x \in error' : x \in error \/ x \in lost
       /\ \A x \in Msg : /\ x \in gone => tmo'[x] = Nil
                         /\ \/ tmo'[x] = tmo[x]
                            \/ tmo'[x] = Nil /\ (x \in gone \/ x \in lost)
       /\ UNCHANGED <<frags, c_omsg_q>> /\ frag_msgq' = frag_msgq
       /\ recving = Nil /\ recving' = Nil /\ sending' = sending
       /\ req' = Reset(req, gone, Blank)
       /\ gone \in SUBSET Msg /\ lost \in SUBSET Msg
  BY <1>1, <1>2, <1>4, <1>8
<1>12. Finished(gone, lost)
  BY <1>7, <1>8, <1>9, <1>10, <1>11 DEF Finished
<1> QED BY <1>11, <1>12 DEF Finishes

LEMMA RspSwallowFinishes ==
    ASSUME TypeOK, OwnInv, NEW s \in Server, RspSwallow(s)
    PROVE  Finishes
<1>1. PICK m, gone, lost : m = Head(s_omsg_q[s]) /\ gone = {m} /\ lost = {}
  OBVIOUS
<1>2. /\ recving = Nil /\ s_omsg_q[s] # <<>> /\ m \in swallow
      /\ req' = Reset(req, gone, Blank) /\ swallow' = swallow \ gone
      /\ tmo' = [tmo EXCEPT ![m] = Nil]
      /\ s_omsg_q' = [s_omsg_q EXCEPT ![s] = Tail(@)]
      /\ UNCHANGED <<done, error, fdone, nfrag_done, frags, c_omsg_q, imsg_q, frag_msgq,
                     recving, sending>>
  BY <1>1 DEF RspSwallow, CanAnswer, Idle, clientVars, loopVars
<1>3. /\ s_omsg_q \in [Server -> Seq(Msg)] /\ tmo \in [Msg -> Server \cup {Nil}]
      /\ \A t \in Server :
            /\ IsInjective(imsg_q[t]) /\ IsInjective(s_omsg_q[t])
            /\ \A x \in Range(imsg_q[t]) : x \notin Range(s_omsg_q[t])
            /\ \A x \in Range(s_omsg_q[t]) : ~Noreply(x)
  BY DEF TypeOK, QueueTypes, MsgTypes, OwnInv, CarriedOnce
<1>4. /\ m \in Msg /\ m \in Range(s_omsg_q[s]) /\ Range(s_omsg_q[s]) = Range(Tail(s_omsg_q[s])) \cup {m}
      /\ IsInjective(Tail(s_omsg_q[s])) /\ m \notin Range(Tail(s_omsg_q[s]))
  <2>1. s_omsg_q[s] \in Seq(Msg) /\ s_omsg_q[s] # <<>> /\ IsInjective(s_omsg_q[s])
    BY <1>2, <1>3
  <2> QED BY <1>1, <2>1, RangeTail
<1>5. m \in Carried(s) /\ \A x \in Msg : IF x \in gone THEN tmo'[x] = Nil ELSE tmo'[x] = tmo[x]
  BY <1>1, <1>2, <1>3, <1>4 DEF Carried
<1>6. \A t \in Server : /\ IsInjective(imsg_q'[t]) /\ IsInjective(s_omsg_q'[t])
                        /\ \A x \in Carried(t)' : x \in Carried(t) /\ x \notin gone /\ x \notin lost
                        /\ \A x \in Carried(t) : x \in gone \/ x \in lost \/ x \in Carried(t)'
                        /\ \A x \in Range(s_omsg_q'[t]) :
                              x \notin Range(imsg_q'[t]) /\ ~Noreply(x)
  <2> TAKE t \in Server
  <2>1. CASE t # s
    <3>1. imsg_q'[t] = imsg_q[t] /\ s_omsg_q'[t] = s_omsg_q[t]
      BY <1>2, <1>3, <2>1
    <3>2. m \notin Carried(t)
      BY <1>5, <2>1 DEF OwnInv, CarriedOnce
    <3> QED BY <1>1, <1>3, <3>1, <3>2 DEF Carried
  <2>2. CASE t = s
    <3>1. imsg_q'[s] = imsg_q[s] /\ s_omsg_q'[s] = Tail(s_omsg_q[s])
      BY <1>2, <1>3
    <3> QED BY <1>1, <1>3, <1>4, <2>2, <3>1 DEF Carried
  <2> QED BY <2>1, <2>2
<1>7. /\ done' = done \cup lost /\ fdone' \subseteq Msg
      /\ \A x \in fdone' : x \in fdone /\ x \notin gone
      /\ \A x \in gone \cup lost : \E t \in Server : x \in Carried(t)
  <2>1. m \notin fdone
    BY <1>5, CarriedAlone
  <2> QED BY <1>1, <1>2, <1>5, <2>1, FlagsTyped
<1>8. /\ \A x \in gone : x \in swallow \/ Noreply(x)
      /\ \A x \in lost : x \notin swallow /\ ~Noreply(x)
      /\ \A x \in Msg : nfrag_done'[x] = nfrag_done[x]
      /\ \A x \in error' : x \in error \/ x \in lost
      /\ \A x \in Msg : /\ x \in gone => tmo'[x] = Nil
                        /\ \/ tmo'[x] = tmo[x]
                           \/ tmo'[x] = Nil /\ (x \in gone \/ x \in lost)
      /\ UNCHANGED <<frags, c_omsg_q>> /\ frag_msgq' = frag_msgq
      /\ recving = Nil /\ recving' = Nil /\ sending' = sending
      /\ gone \in SUBSET Msg /\ lost \in SUBSET Msg
  BY <1>1, <1>2, <1>4, <1>5
<1>9. req' = Reset(req, gone, Blank) /\ swallow' = swallow \ gone
  BY <1>2
<1>10. Finished(gone, lost)
  BY <1>6, <1>7, <1>8, <1>9 DEF Finished
<1> QED BY <1>8, <1>10 DEF Finishes

LEMMA RspForwardFinishes ==
    ASSUME TypeOK, TypeOK', OwnInv, NEW s \in Server, NEW bad, RspForward(s, bad)
    PROVE  Finishes
<1>1. PICK m, gone, lost : m = Head(s_omsg_q[s]) /\ gone = {} /\ lost = {m}
  OBVIOUS
<1>2. /\ recving = Nil /\ s_omsg_q[s] # <<>> /\ m \notin swallow
      /\ req' = req /\ swallow' = swallow /\ done' = done \cup {m}
      /\ tmo' = [tmo EXCEPT ![m] = Nil]
      /\ \A x \in error' : x \in error \/ x = m
      /\ nfrag_done' = IF req[m].part = 0 THEN nfrag_done
                       ELSE [nfrag_done EXCEPT ![req[m].frag_owner] = @ + 1]
      /\ CheckHeads({req[m].owner}, {})
      /\ s_omsg_q' = [s_omsg_q EXCEPT ![s] = Tail(@)]
      /\ UNCHANGED <<frags, c_omsg_q, imsg_q, frag_msgq, recving, sending>>
  BY <1>1 DEF RspForward, CanAnswer, Idle, loopVars
<1>3. /\ s_omsg_q \in [Server -> Seq(Msg)] /\ tmo \in [Msg -> Server \cup {Nil}]
      /\ nfrag_done \in [Msg -> Nat] /\ req \in [Msg -> Request]
      /\ \A t \in Server :
            /\ IsInjective(imsg_q[t]) /\ IsInjective(s_omsg_q[t])
            /\ \A x \in Range(imsg_q[t]) : x \notin Range(s_omsg_q[t])
            /\ \A x \in Range(s_omsg_q[t]) : ~Noreply(x)
  BY DEF TypeOK, QueueTypes, MsgTypes, OwnInv, CarriedOnce
<1>4. /\ m \in Msg /\ m \in Range(s_omsg_q[s]) /\ Range(s_omsg_q[s]) = Range(Tail(s_omsg_q[s])) \cup {m}
      /\ IsInjective(Tail(s_omsg_q[s])) /\ m \notin Range(Tail(s_omsg_q[s]))
  <2>1. s_omsg_q[s] \in Seq(Msg) /\ s_omsg_q[s] # <<>> /\ IsInjective(s_omsg_q[s])
    BY <1>2, <1>3
  <2> QED BY <1>1, <2>1, RangeTail
<1>5. m \in Carried(s) /\ ~Noreply(m)
  BY <1>3, <1>4 DEF Carried
<1>6. \A t \in Server : /\ IsInjective(imsg_q'[t]) /\ IsInjective(s_omsg_q'[t])
                        /\ \A x \in Carried(t)' : x \in Carried(t) /\ x \notin gone /\ x \notin lost
                        /\ \A x \in Carried(t) : x \in gone \/ x \in lost \/ x \in Carried(t)'
                        /\ \A x \in Range(s_omsg_q'[t]) :
                              x \notin Range(imsg_q'[t]) /\ ~Noreply(x)
  <2> TAKE t \in Server
  <2>1. CASE t # s
    <3>1. imsg_q'[t] = imsg_q[t] /\ s_omsg_q'[t] = s_omsg_q[t]
      BY <1>2, <1>3, <2>1
    <3>2. m \notin Carried(t)
      BY <1>5, <2>1 DEF OwnInv, CarriedOnce
    <3> QED BY <1>1, <1>3, <3>1, <3>2 DEF Carried
  <2>2. CASE t = s
    <3>1. imsg_q'[s] = imsg_q[s] /\ s_omsg_q'[s] = Tail(s_omsg_q[s])
      BY <1>2, <1>3
    <3> QED BY <1>1, <1>3, <1>4, <2>2, <3>1 DEF Carried
  <2> QED BY <2>1, <2>2
<1>7. /\ done' = done \cup lost /\ fdone' \subseteq Msg
      /\ \A x \in gone \cup lost : \E t \in Server : x \in Carried(t)
      /\ \A x \in gone : x \in swallow \/ Noreply(x)
      /\ \A x \in lost : x \notin swallow /\ ~Noreply(x)
      /\ swallow' = swallow \ gone
  BY <1>1, <1>2, <1>5 DEF TypeOK, FlagTypes
<1>8. \A x \in fdone' : \/ x \in fdone /\ x \notin gone
                        \/ x \in done' /\ frags'[x] \subseteq done' /\ req[x].nfrag > 0
  BY <1>1, <1>2, HeadsMarked
<1>9. \A x \in Msg : nfrag_done'[x] = nfrag_done[x] \/ \E f \in lost : req[f].frag_owner = x
  BY <1>1, <1>2, <1>3
<1>10. \A x \in Msg : /\ x \in gone => tmo'[x] = Nil
                      /\ \/ tmo'[x] = tmo[x]
                         \/ tmo'[x] = Nil /\ (x \in gone \/ x \in lost)
  BY <1>1, <1>2, <1>3
<1>11. req' = Reset(req, gone, Blank)
  BY <1>1, <1>2, <1>3 DEF Reset
<1>12. /\ UNCHANGED <<frags, c_omsg_q>> /\ frag_msgq' = frag_msgq
       /\ recving = Nil /\ recving' = Nil /\ sending' = sending
       /\ \A x \in error' : x \in error \/ x \in lost
       /\ gone \in SUBSET Msg /\ lost \in SUBSET Msg
  BY <1>1, <1>2, <1>4
<1>13. Finished(gone, lost)
  BY <1>6, <1>7, <1>8, <1>9, <1>10, <1>11, <1>12 DEF Finished
<1> QED BY <1>12, <1>13 DEF Finishes

LEMMA ServerCloseFinishes ==
    ASSUME TypeOK, TypeOK', OwnInv, NEW s \in Server, NEW expired, recving = Nil,
           ServerClose(s, expired), \A x \in expired : x \in Carried(s),
           \A m \in Msg : nfrag_done'[m] # nfrag_done[m] =>
              \E f \in Carried(s) : f \notin swallow /\ ~Noreply(f) /\ req[f].frag_owner = m
    PROVE  Finishes
<1>1. PICK gone, lost : /\ gone = {m \in Carried(s) : m \in swallow \/ Noreply(m)}
                        /\ lost = Carried(s) \ gone
  OBVIOUS
<1>2. /\ req' = Reset(req, gone, Blank) /\ swallow' = swallow \ gone /\ done' = done \cup lost
      /\ error' = error \cup lost
      /\ UNCHANGED <<frags, c_omsg_q, frag_msgq, recving, sending>>
  BY <1>1 DEF ServerClose, loopVars
<1>3. tmo' = Reset(tmo, gone \cup Range(s_omsg_q[s]) \cup expired, Nil)
  BY <1>1 DEF ServerClose
<1>4. PICK awake : CheckHeads(awake, gone)
  BY <1>1 DEF ServerClose
<1>5. /\ imsg_q' = [imsg_q EXCEPT ![s] = <<>>] /\ s_omsg_q' = [s_omsg_q EXCEPT ![s] = <<>>]
  BY DEF ServerClose
<1>6. \A t \in Server : /\ IsInjective(imsg_q'[t]) /\ IsInjective(s_omsg_q'[t])
                        /\ \A x \in Carried(t)' : x \in Carried(t) /\ x \notin gone /\ x \notin lost
                        /\ \A x \in Carried(t) : x \in gone \/ x \in lost \/ x \in Carried(t)'
                        /\ \A x \in Range(s_omsg_q'[t]) :
                              x \notin Range(imsg_q'[t]) /\ ~Noreply(x)
  <2> TAKE t \in Server
  <2>0. imsg_q \in [Server -> Seq(Msg)] /\ s_omsg_q \in [Server -> Seq(Msg)]
    BY DEF TypeOK, QueueTypes
  <2>1. CASE t # s
    <3>1. imsg_q'[t] = imsg_q[t] /\ s_omsg_q'[t] = s_omsg_q[t]
      BY <1>5, <2>0, <2>1
    <3>2. \A x \in Carried(t) : x \notin Carried(s)
      BY <2>1 DEF OwnInv, CarriedOnce
    <3>3. Carried(t)' = Carried(t)
      BY <3>1 DEF Carried
    <3> QED BY <1>1, <3>1, <3>2, <3>3 DEF OwnInv, CarriedOnce
  <2>2. CASE t = s
    <3>1. imsg_q'[s] = <<>> /\ s_omsg_q'[s] = <<>>
      BY <1>5, <2>0
    <3>2. IsInjective(<<>>) /\ Range(<<>>) = {}
      BY RangeEmpty
    <3>3. Carried(s)' = {}
      BY <3>1, <3>2 DEF Carried
    <3> QED BY <1>1, <2>2, <3>1, <3>2, <3>3
  <2> QED BY <2>1, <2>2
<1>7. /\ fdone' \subseteq Msg
      /\ \A x \in gone \cup lost : \E t \in Server : x \in Carried(t)
      /\ \A x \in gone : x \in swallow \/ Noreply(x)
      /\ \A x \in lost : x \notin swallow /\ ~Noreply(x)
  BY <1>1 DEF TypeOK, FlagTypes
<1>8. \A x \in fdone' : \/ x \in fdone /\ x \notin gone
                        \/ x \in done' /\ frags'[x] \subseteq done' /\ req[x].nfrag > 0
  BY <1>4, HeadsMarked
<1>9. \A x \in Msg : nfrag_done'[x] = nfrag_done[x] \/ \E f \in lost : req[f].frag_owner = x
  BY <1>1
<1>10. \A x \in Msg : /\ x \in gone => tmo'[x] = Nil
                      /\ \/ tmo'[x] = tmo[x]
                         \/ tmo'[x] = Nil /\ (x \in gone \/ x \in lost)
  BY <1>1, <1>3 DEF Reset, Carried
<1>11. /\ UNCHANGED <<frags, c_omsg_q>> /\ frag_msgq' = frag_msgq
       /\ recving = Nil /\ recving' = Nil /\ sending' = sending
       /\ \A x \in error' : x \in error \/ x \in lost
       /\ gone \in SUBSET Msg /\ lost \in SUBSET Msg
  BY <1>1, <1>2, QueuesTyped
<1>12. req' = Reset(req, gone, Blank) /\ swallow' = swallow \ gone /\ done' = done \cup lost
  BY <1>2
<1>13. Finished(gone, lost)
  BY <1>6, <1>7, <1>8, <1>9, <1>10, <1>11, <1>12 DEF Finished
<1> QED BY <1>11, <1>13 DEF Finishes

-----------------------------------------------------------------------------
(* Clients: answers are written, connections closed *)

LEMMA PutsOwn ==
    ASSUME TypeOK, OwnInv, Puts
    PROVE  OwnInv'
<1> SUFFICES ASSUME NEW gone \in SUBSET Msg, NEW left \in SUBSET Msg, Put(gone, left)
             PROVE  OwnInv'
  BY DEF Puts
<1>1. /\ \A x \in gone : x \in Msg /\ x \in done /\ x \notin swallow
      /\ \A x \in left : x \in Msg /\ x \notin Free /\ x \notin done /\ ~Noreply(x)
      /\ req' = Reset(req, gone, Blank) /\ done' = done \ gone /\ swallow' = swallow \cup left
  BY DEF Put
<1>2. \A x \in fdone' : /\ x \in Msg /\ x \notin gone
                        /\ \/ x \in fdone
                           \/ x \in done /\ req[x].part = 0 /\ frags'[x] = {}
  BY DEF Put
<1>3. \A x \in Msg : /\ x \in gone => nfrag_done'[x] = 0 /\ tmo'[x] = Nil /\ frags'[x] = {}
                     /\ x \notin gone => nfrag_done'[x] = nfrag_done[x] /\ tmo'[x] = tmo[x]
  BY DEF Put
<1>4. \A x \in Msg : /\ \A f \in frags'[x] : f \in frags[x] /\ f \notin gone /\ f \notin left
                     /\ \A f \in frags[x] : f \in gone \/ f \in left \/ f \in frags'[x]
  BY DEF Put
<1>5. \A c \in Client : /\ IsInjective(c_omsg_q'[c])
                        /\ \A x \in Requests(c)' :
                              x \in Requests(c) /\ x \notin gone /\ x \notin left
  BY DEF Put
<1>6. imsg_q' = imsg_q /\ s_omsg_q' = s_omsg_q
  BY DEF Put
<1>7. /\ \A x \in Msg : x \notin gone => req'[x] = req[x]
      /\ \A x \in Msg : x \in gone => req'[x] = Blank
      /\ \A x \in Msg : x \in Free' <=> x \in Free \/ x \in gone
      /\ \A x \in Msg : Noreply(x)' <=> Noreply(x) /\ x \notin gone
      /\ Free' \subseteq Msg
  BY <1>1, Freed
<1>8. Forwarding' = {} /\ ForwardOK'
  <2>1. frag_msgq' = <<>> /\ recving' = Nil
    BY DEF Put
  <2>2. IsInjective(<<>>) /\ Range(<<>>) = {}
    BY RangeEmpty
  <2> QED BY <2>1, <2>2 DEF Forwarding, ForwardOK
<1>9. \A s \in Server : Carried(s)' = Carried(s)
  BY <1>6 DEF Carried
<1>10. PoolClean'
  <2>1. \A x \in Free' : frags'[x] = {}
    BY <1>3, <1>4, <1>7 DEF OwnInv, PoolClean
  <2>2. \A x \in Free' : x \notin done' /\ x \notin fdone' /\ x \notin swallow'
    <3> TAKE x \in Free'
    <3>1. CASE x \in gone
      BY <3>1, <1>1, <1>2
    <3>2. CASE x \in Free
      BY <3>2, <1>1, <1>2 DEF OwnInv, PoolClean
    <3> QED BY <1>7, <3>1, <3>2
  <2>3. \A x \in Msg : x \in Free' \/ Noreply(x)' => tmo'[x] = Nil
    BY <1>3, <1>7 DEF OwnInv, PoolClean
  <2>4. \A x \in swallow' : ~Noreply(x)'
    BY <1>1, <1>7, FlagsTyped DEF OwnInv, PoolClean
  <2> QED BY <2>1, <2>2, <2>3, <2>4 DEF PoolClean
<1>11. ClientsOK'
  <2>1. \A c \in Client : \A x \in Requests(c)' :
           /\ x \in Msg /\ x \notin gone /\ x \notin left /\ x \notin Free /\ x \notin swallow
           /\ req[x].owner = c /\ req[x].part = 0 /\ ~Noreply(x)
    BY <1>5, QueuesTyped DEF OwnInv, ClientsOK
  <2>2. \A c \in Client : \A x \in Requests(c)' :
           /\ x \notin Free' /\ x \notin swallow' /\ x \notin Forwarding'
           /\ req'[x].owner = c /\ req'[x].part = 0 /\ ~Noreply(x)'
    BY <1>1, <1>7, <1>8, <2>1
  <2> QED BY <1>5, <2>2 DEF ClientsOK
<1>12. FragsOK'
  <2> SUFFICES ASSUME NEW x \in Msg, NEW f \in frags'[x]
               PROVE  /\ f \notin swallow' /\ f \notin Forwarding' /\ ~Noreply(f)'
                      /\ req'[f].frag_owner = x /\ req'[f].part # 0
                      /\ req'[x].part = 0 /\ x \in done'
    BY DEF FragsOK
  <2>1. f \in frags[x] /\ f \notin gone /\ f \notin left /\ x \notin gone
    BY <1>3, <1>4
  <2>2. /\ f \in Msg /\ f \notin swallow /\ ~Noreply(f) /\ req[f].frag_owner = x
        /\ req[f].part # 0 /\ req[x].part = 0 /\ x \in done
    BY <2>1, FlagsTyped DEF OwnInv, FragsOK
  <2> QED BY <1>1, <1>7, <1>8, <2>1, <2>2
<1>13. ServersOK'
  <2> SUFFICES ASSUME NEW s \in Server, NEW x \in Carried(s)
               PROVE  /\ x \notin Free' /\ x \notin done' /\ x \notin Forwarding'
                      /\ x \notin swallow' /\ req'[x].part # 0 =>
                            req'[x].frag_owner \in Msg /\ x \in frags'[req'[x].frag_owner]
    BY <1>9 DEF ServersOK
  <2>1. /\ x \in Msg /\ x \notin Free /\ x \notin done
        /\ x \notin swallow /\ req[x].part # 0 =>
              req[x].frag_owner \in Msg /\ x \in frags[req[x].frag_owner]
    BY QueuesTyped DEF OwnInv, ServersOK
  <2>2. x \notin gone /\ req'[x] = req[x]
    BY <1>1, <1>7, <2>1
  <2> QED BY <1>1, <1>4, <1>7, <1>8, <2>1, <2>2
<1>14. CarriedOnce'
  <2>1. \A s \in Server : \A x \in Range(s_omsg_q[s]) : x \in Msg /\ ~Noreply(x)
    BY QueuesTyped DEF OwnInv, CarriedOnce, Carried
  <2>2. \A s \in Server : \A x \in Range(s_omsg_q[s]) : ~Noreply(x)'
    BY <1>7, <2>1
  <2> QED BY SMTT(60), <1>6, <1>9, <2>2 DEF OwnInv, CarriedOnce
<1>15. VectorsOK'
  <2>1. \A x \in Msg : /\ nfrag_done'[x] # 0 => x \in done' /\ req'[x].part = 0
                       /\ req'[x].part = 0 /\ req'[x].frag_owner # Nil => x \in done'
                       /\ req'[x].nfrag # 0 => req'[x].part = 0
    <3> TAKE x \in Msg
    <3>1. CASE x \in gone
      <4>1. Blank.part = 0 /\ Blank.frag_owner = Nil /\ Blank.nfrag = 0
        BY DEF Blank, Message
      <4> QED BY <1>3, <1>7, <3>1, <4>1
    <3>2. CASE x \notin gone
      BY <1>1, <1>3, <1>7, <3>2 DEF OwnInv, VectorsOK
    <3> QED BY <3>1, <3>2
  <2>2. \A x \in fdone' : x \in done' /\ req'[x].part = 0 /\ frags'[x] \subseteq done'
    <3> TAKE x \in fdone'
    <3>1. x \in Msg /\ x \notin gone /\ req'[x] = req[x]
      BY <1>2, <1>7
    <3>2. x \in done /\ req[x].part = 0
      BY <1>2 DEF OwnInv, VectorsOK
    <3>3. \A f \in frags'[x] : f \in done'
      BY <1>1, <1>2, <1>4, <3>1 DEF OwnInv, VectorsOK
    <3> QED BY <1>1, <3>1, <3>2, <3>3
  <2> QED BY <2>1, <2>2 DEF VectorsOK
<1> QED BY <1>8, <1>10, <1>11, <1>12, <1>13, <1>14, <1>15 DEF OwnInv

LEMMA RspSendNextPuts ==
    ASSUME TypeOK, OwnInv, NEW c \in Client, NEW i, RspSendNext(c, i)
    PROVE  Puts
<1>1. PICK m, gone, left : m = c_omsg_q[c][i] /\ gone = frags[m] /\ left = {}
  OBVIOUS
<1>2. /\ CanReply(c) /\ i \in DOMAIN c_omsg_q[c] /\ gone # {}
      /\ req' = Reset(req, gone, Blank) /\ done' = done \ gone /\ error' = error \ gone
      /\ fdone' = fdone \cup {m} /\ tmo' = Reset(tmo, gone, Nil)
      /\ frags' = [frags EXCEPT ![m] = {}]
      /\ UNCHANGED <<swallow, nfrag_done, c_omsg_q, imsg_q, s_omsg_q, frag_msgq, recving>>
  BY <1>1 DEF RspSendNext, serverVars
<1>3. ReqDone(m)
  <2>1. /\ \A j \in 1..i : ReqDone(c_omsg_q[c][j])
        /\ i \in DOMAIN c_omsg_q[c]
    BY DEF RspSendNext
  <2>2. DOMAIN c_omsg_q[c] = 1..Len(c_omsg_q[c]) /\ Len(c_omsg_q[c]) \in Nat
    BY SMTT(60), QueuesTyped
  <2>3. i \in 1..i
    BY SMTT(60), <2>1, <2>2
  <2> QED BY <1>1, <2>1, <2>3
<1>4. m \in Requests(c) /\ m \in Msg /\ recving = Nil /\ frag_msgq = <<>>
  BY <1>1, <1>2, WriterAlone, QueuesTyped DEF Requests, Range
<1>5. gone \subseteq done /\ m \in done /\ m \notin gone /\ req[m].part = 0
  BY <1>1, <1>2, <1>3, <1>4, HeldApart DEF OwnInv, FragsOK, VectorsOK, ReqDone, Complete
<1>6. frags \in [Msg -> SUBSET Msg] /\ fdone \subseteq Msg
  BY FlagsTyped
<1>7. \A x \in fdone' : /\ x \in Msg /\ x \notin gone
                        /\ \/ x \in fdone
                           \/ x \in done /\ req[x].part = 0 /\ frags'[x] = {}
  <2>1. frags'[m] = {} /\ \A x \in fdone : x \notin gone
    BY <1>1, <1>2, <1>4, <1>6, HeldApart
  <2> QED BY <1>2, <1>4, <1>5, <1>6, <2>1
<1>8. \A x \in Msg : /\ x \in gone => nfrag_done'[x] = 0 /\ tmo'[x] = Nil /\ frags'[x] = {}
                     /\ x \notin gone => nfrag_done'[x] = nfrag_done[x] /\ tmo'[x] = tmo[x]
  <2>1. \A x \in Msg : tmo'[x] = IF x \in gone THEN Nil ELSE tmo[x]
    BY <1>2 DEF Reset
  <2>2. \A x \in gone : nfrag_done[x] = 0 /\ frags[x] = {} /\ x # m
    BY <1>1, <1>4, HeldApart
  <2>3. \A x \in Msg : x # m => frags'[x] = frags[x]
    BY <1>2, <1>6
  <2> QED BY <1>2, <2>1, <2>2, <2>3
<1>9. \A x \in Msg : /\ \A f \in frags'[x] : f \in frags[x] /\ f \notin gone /\ f \notin left
                     /\ \A f \in frags[x] : f \in gone \/ f \in left \/ f \in frags'[x]
  <2> TAKE x \in Msg
  <2>1. CASE x = m
    BY <1>1, <1>2, <1>4, <1>6, <2>1
  <2>2. CASE x # m
    <3>1. frags'[x] = frags[x]
      BY <1>2, <1>6, <2>2
    <3> QED BY <1>1, <1>4, <2>2, <3>1, HeldApart
  <2> QED BY <2>1, <2>2
<1>10. \A d \in Client : /\ IsInjective(c_omsg_q'[d])
                         /\ \A x \in Requests(d)' :
                               x \in Requests(d) /\ x \notin gone /\ x \notin left
                         /\ \A x \in Requests(d) :
                               x \in gone \/ x \in left \/ x \in Requests(d)'
  BY <1>1, <1>2, <1>4, HeldApart DEF Requests, OwnInv, ClientsOK
<1>11. /\ \A x \in gone : x \notin swallow
       /\ \A x \in left : x \notin Free /\ x \notin done /\ ~Noreply(x)
       /\ gone \subseteq Msg /\ left \subseteq Msg /\ swallow' = swallow \cup left
       /\ recving' = Nil /\ frag_msgq' = <<>> /\ UNCHANGED <<imsg_q, s_omsg_q>>
       /\ req' = Reset(req, gone, Blank) /\ done' = done \ gone /\ error' = error \ gone
  BY <1>1, <1>2, <1>4, HeldApart
<1>12. Put(gone, left)
  BY <1>4, <1>5, <1>7, <1>8, <1>9, <1>10, <1>11 DEF Put
<1> QED BY <1>11, <1>12 DEF Puts

LEMMA RspSendDonePuts ==
    ASSUME TypeOK, OwnInv, NEW c \in Client, RspSendDone(c)
    PROVE  Puts
<1>1. PICK m, gone, left : m = Head(c_omsg_q[c]) /\ gone = {m} /\ left = {}
  OBVIOUS
<1>2. /\ CanReply(c) /\ c_omsg_q[c] # <<>> /\ ReqDone(m) /\ frags[m] = {}
      /\ req' = Reset(req, gone, Blank) /\ done' = done \ gone /\ error' = error \ gone /\ fdone' = fdone \ gone
      /\ nfrag_done' = [nfrag_done EXCEPT ![m] = 0] /\ tmo' = [tmo EXCEPT ![m] = Nil]
      /\ c_omsg_q' = [c_omsg_q EXCEPT ![c] = Tail(@)]
      /\ UNCHANGED <<swallow, frags, imsg_q, s_omsg_q, frag_msgq, recving>>
  BY <1>1 DEF RspSendDone, HeadOf, serverVars
<1>3. /\ c_omsg_q \in [Client -> Seq(Msg)] /\ nfrag_done \in [Msg -> Nat]
      /\ tmo \in [Msg -> Server \cup {Nil}] /\ fdone \subseteq Msg
  BY DEF TypeOK, QueueTypes, MsgTypes, FlagTypes
<1>4. /\ m \in Msg /\ m \in Requests(c) /\ IsInjective(Tail(c_omsg_q[c]))
      /\ Range(c_omsg_q[c]) = Range(Tail(c_omsg_q[c])) \cup {m} /\ m \notin Range(Tail(c_omsg_q[c]))
  <2>1. c_omsg_q[c] \in Seq(Msg) /\ c_omsg_q[c] # <<>> /\ IsInjective(c_omsg_q[c])
    BY <1>2, <1>3 DEF OwnInv, ClientsOK
  <2> QED BY <1>1, <2>1, RangeTail DEF Requests
<1>5. m \in done /\ recving = Nil /\ frag_msgq = <<>>
  BY <1>2, WriterAlone DEF OwnInv, VectorsOK, ReqDone, Complete
<1>6. \A x \in fdone' : x \in Msg /\ x \notin gone /\ x \in fdone
  BY <1>2, <1>3
<1>7. \A x \in Msg : /\ x \in gone => nfrag_done'[x] = 0 /\ tmo'[x] = Nil /\ frags'[x] = {}
                     /\ x \notin gone => nfrag_done'[x] = nfrag_done[x] /\ tmo'[x] = tmo[x]
  BY <1>1, <1>2, <1>3
<1>8. \A x \in Msg : /\ \A f \in frags'[x] : f \in frags[x] /\ f \notin gone /\ f \notin left
                     /\ \A f \in frags[x] : f \in gone \/ f \in left \/ f \in frags'[x]
  <2>1. \A x \in Msg : m \notin frags[x]
    BY <1>4, HeldApart
  <2> QED BY <1>1, <1>2, <2>1
<1>9. \A d \in Client : /\ IsInjective(c_omsg_q'[d])
                        /\ \A x \in Requests(d)' :
                              x \in Requests(d) /\ x \notin gone /\ x \notin left
                        /\ \A x \in Requests(d) :
                              x \in gone \/ x \in left \/ x \in Requests(d)'
  <2> TAKE d \in Client
  <2>1. CASE d = c
    <3>1. c_omsg_q'[c] = Tail(c_omsg_q[c])
      BY <1>2, <1>3
    <3> QED BY <1>1, <1>4, <2>1, <3>1 DEF Requests
  <2>2. CASE d # c
    <3>1. c_omsg_q'[d] = c_omsg_q[d]
      BY <1>2, <1>3, <2>2
    <3>2. m \notin Requests(d)
      BY <1>4, <2>2 DEF OwnInv, ClientsOK
    <3> QED BY <1>1, <3>1, <3>2 DEF Requests, OwnInv, ClientsOK
  <2> QED BY <2>1, <2>2
<1>10. /\ gone \subseteq done /\ \A x \in gone : x \notin swallow
       /\ \A x \in left : x \notin Free /\ x \notin done /\ ~Noreply(x)
       /\ gone \subseteq Msg /\ left \subseteq Msg /\ swallow' = swallow \cup left
       /\ recving' = Nil /\ frag_msgq' = <<>> /\ UNCHANGED <<imsg_q, s_omsg_q>>
       /\ req' = Reset(req, gone, Blank) /\ done' = done \ gone /\ error' = error \ gone
  <2>1. m \notin swallow
    BY <1>4, HeldApart
  <2> QED BY <1>1, <1>2, <1>4, <1>5, <2>1
<1>11. Put(gone, left)
  BY <1>5, <1>6, <1>7, <1>8, <1>9, <1>10 DEF Put
<1> QED BY <1>10, <1>11 DEF Puts

LEMMA ClientClosePuts ==
    ASSUME TypeOK, OwnInv, NEW c \in Client, frag_msgq = <<>>, ClientClose(c)
    PROVE  Puts
<1>1. PICK gone, left : gone = Held(c) \cap done /\ left = Held(c) \ gone
  OBVIOUS
<1>2. /\ req' = Reset(req, gone, Blank) /\ done' = done \ gone /\ error' = error \ gone /\ fdone' = fdone \ gone
      /\ swallow' = swallow \cup left
      /\ nfrag_done' = Reset(nfrag_done, gone, 0) /\ tmo' = Reset(tmo, gone, Nil)
      /\ frags' = Reset(frags, gone, {})
      /\ c_omsg_q' = [c_omsg_q EXCEPT ![c] = <<>>]
      /\ recving' = Nil /\ sending' = Nil
      /\ UNCHANGED <<imsg_q, s_omsg_q, frag_msgq>>
  BY <1>1 DEF ClientClose, serverVars
<1>3. c_omsg_q \in [Client -> Seq(Msg)] /\ fdone \subseteq Msg
  BY DEF TypeOK, QueueTypes, FlagTypes
<1>4. /\ \A x : x \in Held(c) <=> \/ x \in Requests(c)
                                  \/ \E y \in Requests(c) : x \in frags[y]
  BY DEF Held, Behind, Requests
<1>5. \A x \in Held(c) : x \in Msg /\ x \notin Free /\ x \notin swallow /\ ~Noreply(x)
  BY <1>4, HeldApart
<1>6. \A x \in fdone' : x \in Msg /\ x \notin gone /\ x \in fdone
  BY <1>2, <1>3
<1>7. \A x \in Msg : /\ x \in gone => nfrag_done'[x] = 0 /\ tmo'[x] = Nil /\ frags'[x] = {}
                     /\ x \notin gone => nfrag_done'[x] = nfrag_done[x] /\ tmo'[x] = tmo[x]
  BY <1>2 DEF Reset
<1>8. \A x \in Msg : /\ \A f \in frags'[x] : f \in frags[x] /\ f \notin gone /\ f \notin left
                     /\ \A f \in frags[x] : f \in gone \/ f \in left \/ f \in frags'[x]
  <2> TAKE x \in Msg
  <2>1. CASE x \in gone
    <3>1. frags'[x] = {}
      BY <1>2, <2>1 DEF Reset
    <3>2. ASSUME NEW f \in frags[x]
          PROVE  f \in Held(c)
      <4>1. x \in Requests(c) \/ \E y \in Requests(c) : x \in frags[y]
        BY <1>1, <1>4, <2>1
      <4>2. \A y \in Requests(c) : x \in frags[y] => frags[x] = {}
        BY HeldApart
      <4> QED BY <1>4, <4>1, <4>2
    <3> QED BY <1>1, <3>1, <3>2
  <2>2. CASE x \notin gone
    <3>1. frags'[x] = frags[x]
      BY <1>2, <2>2 DEF Reset
    <3>2. ASSUME NEW f \in frags[x]
          PROVE  f \notin Held(c)
      <4>1. x \in done
        BY DEF OwnInv, FragsOK
      <4>2. x \notin Requests(c)
        BY <1>1, <1>4, <2>2, <4>1
      <4>3. f \notin Requests(c) /\ \A y \in Requests(c) : y \in Msg /\ (f \in frags[y] => x = y)
        BY HeldApart
      <4> QED BY <1>4, <4>2, <4>3
    <3> QED BY <1>1, <3>1, <3>2
  <2> QED BY <2>1, <2>2
<1>9. \A d \in Client : /\ IsInjective(c_omsg_q'[d])
                        /\ \A x \in Requests(d)' :
                              x \in Requests(d) /\ x \notin gone /\ x \notin left
                        /\ \A x \in Requests(d) :
                              x \in gone \/ x \in left \/ x \in Requests(d)'
  <2> TAKE d \in Client
  <2>1. CASE d = c
    <3>1. c_omsg_q'[c] = <<>>
      BY <1>2, <1>3
    <3>2. Requests(c)' = {} /\ IsInjective(c_omsg_q'[c])
      BY <3>1, RangeEmpty DEF Requests
    <3> QED BY <1>1, <1>4, <2>1, <3>2
  <2>2. CASE d # c
    <3>1. c_omsg_q'[d] = c_omsg_q[d]
      BY <1>2, <1>3, <2>2
    <3>2. \A x \in Requests(d) : x \notin Requests(c)
      BY <2>2 DEF OwnInv, ClientsOK
    <3>3. \A x \in Requests(d) : x \notin Held(c)
      BY <1>4, <3>2, HeldApart
    <3> QED BY <1>1, <3>1, <3>3 DEF Requests, OwnInv, ClientsOK
  <2> QED BY <2>1, <2>2
<1>10. /\ gone \subseteq done /\ \A x \in gone : x \notin swallow
       /\ \A x \in left : x \notin Free /\ x \notin done /\ ~Noreply(x)
       /\ gone \subseteq Msg /\ left \subseteq Msg /\ swallow' = swallow \cup left
       /\ recving' = Nil /\ frag_msgq' = <<>> /\ UNCHANGED <<imsg_q, s_omsg_q>>
       /\ req' = Reset(req, gone, Blank) /\ done' = done \ gone /\ error' = error \ gone
  BY <1>1, <1>2, <1>5
<1>11. Put(gone, left)
  BY <1>6, <1>7, <1>8, <1>9, <1>10 DEF Put
<1> QED BY <1>10, <1>11 DEF Puts

=============================================================================
