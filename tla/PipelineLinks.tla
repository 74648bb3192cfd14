--------------------------- MODULE PipelineLinks ----------------------------
(***************************************************************************)
(* What the pointers of a message lead to: an answer is linked to the      *)
(* request it answers, servers have granted what a request needs, the owner *)
(* of a request that is with a server still waits for it, every request    *)
(* that is not finished is somewhere, timers point to the connection that  *)
(* carries the request, closed connections are clean, and connections with *)
(* something to write are registered for write events.  With the types.    *)
(***************************************************************************)
EXTENDS PipelineOwnership

\* Most leaves are first-order and set reasoning, for which Zenon is enough;
\* the others cite SMT.
USE ZenonT(60)

-----------------------------------------------------------------------------
(* Pairs of requests and answers *)

\* The answers a server owes are those of its omsg_q, and perhaps the one of the
\* request that is being written.
WireOK(s) ==
    LET n == Len(s_omsg_q[s]) IN
    /\ Len(wire[s]) = n \/ Len(wire[s]) = n + 1
    /\ \A i \in 1..n : wire[s][i] = Id(s_omsg_q[s][i])
    /\ Len(wire[s]) = n + 1 => /\ imsg_q[s] # <<>> /\ s \notin connecting
                               /\ wire[s][n + 1] = Id(Head(imsg_q[s]))
                               /\ ~Noreply(Head(imsg_q[s]))

PeersOK == \A m \in Msg : \/ peer[m] = NoAnswer
                          \/ m \in done /\ peer[m] = Id(m)

PairInv == PeersOK /\ \A s \in Server : WireOK(s)

LEMMA InitPairs == Init => PairInv
BY SMTT(60) DEF Init, PairInv, PeersOK, WireOK

LEMMA PairsArePaired == ASSUME TypeOK, PairInv PROVE Paired
<1>1. \A s \in Server : DOMAIN s_omsg_q[s] = 1..Len(s_omsg_q[s])
  BY SMTT(60) DEF TypeOK, QueueTypes
<1> QED BY <1>1 DEF PairInv, PeersOK, WireOK, Paired

LEMMA WireTyped ==
    ASSUME TypeOK, NEW s \in Server
    PROVE  /\ wire \in [Server -> Seq(Identity)] /\ wire[s] \in Seq(Identity)
           /\ imsg_q \in [Server -> Seq(Msg)] /\ imsg_q[s] \in Seq(Msg)
           /\ s_omsg_q \in [Server -> Seq(Msg)] /\ s_omsg_q[s] \in Seq(Msg)
           /\ \A i \in 1..Len(s_omsg_q[s]) : s_omsg_q[s][i] \in Range(s_omsg_q[s])
           /\ imsg_q[s] # <<>> => Head(imsg_q[s]) \in Range(imsg_q[s])
<1>1. /\ wire \in [Server -> Seq(Identity)] /\ wire[s] \in Seq(Identity)
      /\ imsg_q \in [Server -> Seq(Msg)] /\ imsg_q[s] \in Seq(Msg)
      /\ s_omsg_q \in [Server -> Seq(Msg)] /\ s_omsg_q[s] \in Seq(Msg)
  BY DEF TypeOK, QueueTypes, PeerTypes
<1>2. \A i \in 1..Len(s_omsg_q[s]) : s_omsg_q[s][i] \in Range(s_omsg_q[s])
  BY SMTT(60), <1>1 DEF Range
<1>3. imsg_q[s] # <<>> => Head(imsg_q[s]) \in Range(imsg_q[s])
  BY <1>1, RangeTail
<1> QED BY <1>1, <1>2, <1>3

\* A connection whose queues and requests a step leaves alone.
LEMMA WireKept ==
    ASSUME TypeOK, PairInv, NEW s \in Server,
           wire'[s] = wire[s], s_omsg_q'[s] = s_omsg_q[s],
           imsg_q'[s] = imsg_q[s] \/
              (imsg_q[s] # <<>> => imsg_q'[s] # <<>> /\ Head(imsg_q'[s]) = Head(imsg_q[s])),
           imsg_q[s] # <<>> /\ s \in connecting' => s \in connecting,
           \A x \in Carried(s) : req'[x] = req[x]
    PROVE  WireOK(s)'
<1>1. WireOK(s)
  BY DEF PairInv
<1>2. \A i \in 1..Len(s_omsg_q[s]) : Id(s_omsg_q[s][i])' = Id(s_omsg_q[s][i])
  BY WireTyped DEF Carried, Id
<1>3. imsg_q[s] # <<>> => /\ Id(Head(imsg_q[s]))' = Id(Head(imsg_q[s]))
                          /\ Noreply(Head(imsg_q[s]))' <=> Noreply(Head(imsg_q[s]))
  <2>1. imsg_q[s] # <<>> => /\ Head(imsg_q[s]) \in Carried(s)
                            /\ Head(imsg_q[s])' = Head(imsg_q[s])
    BY WireTyped DEF Carried
  <2> QED BY <2>1 DEF Id, Noreply
<1> QED BY <1>1, <1>2, <1>3 DEF WireOK

\* A message keeps its answer, gives it back, or gets the one that is its own.
LEMMA PeersKept ==
    ASSUME PeersOK,
           \A m \in Msg : \/ /\ req'[m] = req[m] /\ peer'[m] = peer[m]
                             /\ m \in done => m \in done'
                          \/ peer'[m] = NoAnswer
                          \/ m \in done' /\ peer'[m] = Id(m)'
    PROVE  PeersOK'
BY DEF PeersOK, Id

LEMMA QuietPairs ==
    ASSUME TypeOK, PairInv, UNCHANGED <<req, done, peer, wire, imsg_q, s_omsg_q>>,
           connecting' \subseteq connecting
    PROVE  PairInv'
<1>1. PeersOK'
  BY PeersKept DEF PairInv
<1>2. \A s \in Server : WireOK(s)'
  BY WireKept
<1> QED BY <1>1, <1>2 DEF PairInv

\* Messages come from the pool, or go back to it, while servers carry others.
LEMMA OtherPairs ==
    ASSUME TypeOK, OwnInv, PairInv, NEW new \in SUBSET Msg,
           \A x \in new : x \in Free \/ x \in done,
           \A x \in Msg : x \notin new => /\ req'[x] = req[x] /\ peer'[x] = peer[x]
                                          /\ x \in done => x \in done',
           \A x \in new : \/ peer'[x] = NoAnswer
                          \/ x \in done' /\ peer'[x] = Id(x)',
           UNCHANGED <<wire, imsg_q, s_omsg_q, connecting>>
    PROVE  PairInv'
<1>1. PeersOK'
  BY PeersKept DEF PairInv
<1>2. \A s \in Server : \A x \in Carried(s) : x \in Msg /\ x \notin new
  BY QueuesTyped DEF OwnInv, ServersOK
<1>3. \A s \in Server : WireOK(s)'
  BY <1>2, WireKept
<1> QED BY <1>1, <1>3 DEF PairInv

LEMMA FreeUnanswered ==
    ASSUME TypeOK, OwnInv, PairInv, NEW x \in Free
    PROVE  peer[x] = NoAnswer
<1>1. x \in Msg /\ x \notin done
  BY FreeNowhere
<1> QED BY <1>1 DEF PairInv, PeersOK

LEMMA ReadPairs ==
    ASSUME TypeOK, OwnInv, PairInv, NEW c \in Client, NEW m \in Msg,
           \/ \E kind : ReadSingle(c, m, kind)
           \/ \E kind : \E q \in Seq(Msg) : ReadVector(c, m, q, kind)
           \/ ReadLocal(c, m)
    PROVE  PairInv'
<1>1. ASSUME NEW kind, ReadSingle(c, m, kind)
      PROVE  PairInv'
  <2>1. /\ m \in Free /\ req' = [req EXCEPT ![m] = Message(kind, ntag + 1, 0, c, Nil, 0)]
        /\ UNCHANGED <<done, peer, wire, imsg_q, s_omsg_q, connecting>>
    BY <1>1 DEF ReadSingle, flagVars, serverVars
  <2>2. PICK new \in SUBSET Msg : new = {m}
    OBVIOUS
  <2>3. \A x \in Msg : x \notin new => req'[x] = req[x]
    BY <2>1, <2>2 DEF TypeOK, MsgTypes
  <2>4. \A x \in new : x \in Free /\ peer'[x] = NoAnswer
    BY <2>1, <2>2, FreeUnanswered
  <2> QED BY <2>1, <2>3, <2>4, OtherPairs
<1>2. ASSUME ReadLocal(c, m)
      PROVE  PairInv'
  <2>1. /\ m \in Free /\ req' = [req EXCEPT ![m] = Message("local", ntag + 1, 0, c, Nil, 0)]
        /\ peer' = [peer EXCEPT ![m] = <<ntag + 1, 0>>] /\ done' = done \cup {m}
        /\ UNCHANGED <<wire, imsg_q, s_omsg_q, connecting>>
    BY <1>2 DEF ReadLocal, serverVars
  <2>2. PICK new \in SUBSET Msg : new = {m}
    OBVIOUS
  <2>3. \A x \in Msg : x \notin new => req'[x] = req[x] /\ peer'[x] = peer[x]
    BY <2>1, <2>2 DEF TypeOK, MsgTypes
  <2>4. peer'[m] = Id(m)'
    BY <2>1 DEF Id, Message, TypeOK, MsgTypes
  <2>5. \A x \in new : x \in Free /\ x \in done' /\ peer'[x] = Id(x)'
    BY <2>1, <2>2, <2>4
  <2> QED BY <2>1, <2>3, <2>5, OtherPairs
<1>3. ASSUME NEW kind, NEW q \in Seq(Msg), ReadVector(c, m, q, kind)
      PROVE  PairInv'
  <2>1. /\ m \in Free /\ \A x \in Range(q) : x \in Free /\ x # m
        /\ peer' = [peer EXCEPT ![m] = <<ntag + 1, 0>>] /\ done' = done \cup {m}
        /\ UNCHANGED <<wire, imsg_q, s_omsg_q, connecting>>
    BY <1>3 DEF ReadVector, serverVars
  <2>2. PICK new \in SUBSET Msg : new = {m} \cup Range(q)
    BY RangeOfSeq
  <2>3. /\ \A x \in Msg : x \notin new => req'[x] = req[x]
        /\ req'[m] = Message(kind, ntag + 1, 0, c, m, Len(q))
    BY <1>3, <2>2 DEF ReadVector
  <2>4. \A x \in Msg : x # m => peer'[x] = peer[x]
    BY <2>1 DEF TypeOK, MsgTypes
  <2>5. peer'[m] = Id(m)'
    BY SMTT(60), <2>1, <2>3 DEF Id, Message, TypeOK, MsgTypes
  <2>6. \A x \in new : /\ x \in Free
                       /\ peer'[x] = NoAnswer \/ (x \in done' /\ peer'[x] = Id(x)')
    BY <2>1, <2>2, <2>4, <2>5, FreeUnanswered, RangeOfSeq
  <2> QED BY <2>1, <2>2, <2>3, <2>4, <2>6, OtherPairs
<1> QED BY <1>1, <1>2, <1>3

LEMMA HeadConcat ==
    ASSUME NEW p \in Seq(Msg), NEW q \in Seq(Msg), p # <<>>
    PROVE  p \o q # <<>> /\ Head(p \o q) = Head(p)
BY SMTT(60)

\* A request is queued behind the others of its server.
LEMMA ReqForwardPairs ==
    ASSUME TypeOK, OwnInv, ConnInv, PairInv, NEW s \in Server, ReqForward(s)
    PROVE  PairInv'
<1>1. PICK m, auth : /\ m = Head(frag_msgq) /\ frag_msgq # <<>>
                     /\ auth \in ProxyMsg(RequireAuth /\ s \notin authenticated)
                     /\ req' = Reset(req, Range(auth), Message("auth", 0, 0, recving, Nil, 0))
                     /\ imsg_q' = [imsg_q EXCEPT ![s] = @ \o auth \o <<m>>]
  BY DEF ReqForward
<1>2. /\ UNCHANGED <<done, peer, s_omsg_q, wire>>
      /\ connecting' = IF s \notin open /\ ~UnixSocket THEN connecting \cup {s} ELSE connecting
  BY DEF ReqForward, envVars
<1>3. m \in Msg /\ auth \in Seq(Msg) /\ \A x \in Range(auth) : x \in Free
  BY <1>1, QueuedIsMsg, ProxyMsgFree
<1>4. \A x \in Msg : x \notin Range(auth) => req'[x] = req[x]
  BY <1>1 DEF Reset
<1>5. PeersOK'
  <2>1. \A x \in Range(auth) : peer'[x] = NoAnswer
    BY <1>2, <1>3, FreeUnanswered
  <2> QED BY <1>2, <1>4, <2>1, PeersKept DEF PairInv
<1>6. \A t \in Server : \A x \in Carried(t) : req'[x] = req[x]
  BY <1>3, <1>4, QueuesTyped DEF OwnInv, ServersOK
<1>7. ASSUME NEW t \in Server
      PROVE  WireOK(t)'
  <2>1. imsg_q[t] # <<>> => imsg_q'[t] # <<>> /\ Head(imsg_q'[t]) = Head(imsg_q[t])
    <3>1. CASE t = s
      <4>1. imsg_q[s] \in Seq(Msg) /\ imsg_q'[s] = imsg_q[s] \o auth \o <<m>>
        BY <1>1, WireTyped
      <4>2. imsg_q[s] # <<>> => imsg_q[s] \o auth # <<>> /\ Head(imsg_q[s] \o auth) = Head(imsg_q[s])
        BY <1>3, <4>1, HeadConcat
      <4>3. imsg_q[s] \o auth \in Seq(Msg) /\ <<m>> \in Seq(Msg)
        BY SMTT(60), <1>3, <4>1
      <4>4. imsg_q[s] \o auth # <<>> => /\ imsg_q[s] \o auth \o <<m>> # <<>>
                                        /\ Head(imsg_q[s] \o auth \o <<m>>) = Head(imsg_q[s] \o auth)
        BY <4>3, HeadConcat
      <4> QED BY <3>1, <4>1, <4>2, <4>4
    <3>2. CASE t # s
      BY <1>1, <3>2, WireTyped
    <3> QED BY <3>1, <3>2
  <2>2. imsg_q[t] # <<>> /\ t \in connecting' => t \in connecting
    BY <1>2 DEF ConnInv, ClosedIsClean
  <2> QED BY <1>2, <1>6, <2>1, <2>2, WireKept
<1> QED BY <1>5, <1>7 DEF PairInv

LEMMA ReqForwardErrorPairs ==
    ASSUME TypeOK, TypeOK', OwnInv, PairInv, ReqForwardError
    PROVE  PairInv'
<1>1. PICK m \in Msg, gone \in SUBSET Msg : ForwardFailed(m, gone)
  BY ForwardErrorFacts
<1>2. peer' = peer /\ UNCHANGED <<wire, imsg_q, s_omsg_q, connecting>>
  BY DEF ReqForwardError, serverVars, envVars
<1>3. /\ m \notin done /\ \A x \in gone : x = m
      /\ \A x \in Msg : x \notin gone => req'[x] = req[x]
      /\ done \subseteq done' /\ \A t \in Server : m \notin Carried(t)
  BY <1>1 DEF ForwardFailed
<1>4. PeersOK'
  <2>1. peer[m] = NoAnswer
    BY <1>3 DEF PairInv, PeersOK
  <2> QED BY <1>2, <1>3, <2>1, PeersKept DEF PairInv
<1>5. \A t \in Server : \A x \in Carried(t) : req'[x] = req[x]
  BY <1>3, QueuesTyped
<1>6. \A t \in Server : WireOK(t)'
  BY <1>2, <1>5, WireKept
<1> QED BY <1>4, <1>6 DEF PairInv

\* The SELECT goes ahead of the queue of a connection on which nothing has been
\* written yet.
LEMMA ServerConnectedPairs ==
    ASSUME TypeOK, OwnInv, PairInv, NEW s \in Server, ServerConnected(s)
    PROVE  PairInv'
<1>1. PICK a \in SUBSET Msg : Connected(s, a)
  BY ServerConnectedFacts
<1>2. /\ s \in connecting /\ connecting' = connecting \ {s} /\ UNCHANGED <<peer, wire>>
  BY DEF ServerConnected, envVars
<1>3. /\ \A x \in a : x \in Free
      /\ \A x \in Msg : x \notin a => req'[x] = req[x]
      /\ \A t \in Server : t # s => imsg_q'[t] = imsg_q[t]
      /\ UNCHANGED <<done, s_omsg_q>>
  BY <1>1 DEF Connected
<1>4. PeersOK'
  <2>1. \A x \in a : peer'[x] = NoAnswer
    BY <1>2, <1>3, FreeUnanswered
  <2> QED BY <1>2, <1>3, <2>1, PeersKept DEF PairInv
<1>5. \A t \in Server : \A x \in Carried(t) : req'[x] = req[x]
  BY <1>3, QueuesTyped DEF OwnInv, ServersOK
<1>6. WireOK(s)'
  <2>1. WireOK(s)
    BY DEF PairInv
  <2>2. \A i \in 1..Len(s_omsg_q[s]) : Id(s_omsg_q[s][i])' = Id(s_omsg_q[s][i])
    BY <1>3, <1>5, WireTyped DEF Carried, Id
  <2>3. Len(wire[s]) # Len(s_omsg_q[s]) + 1
    BY <1>2, <2>1 DEF WireOK
  <2> QED BY <1>2, <1>3, <2>1, <2>2, <2>3 DEF WireOK
<1>7. \A t \in Server : t # s => WireOK(t)'
  BY <1>2, <1>3, <1>5, WireKept
<1> QED BY <1>4, <1>6, <1>7 DEF PairInv

LEMMA EarlyAnswerPairs ==
    ASSUME TypeOK, PairInv, NEW s \in Server, EarlyAnswer(s)
    PROVE  PairInv'
<1>1. /\ s \notin connecting /\ imsg_q[s] # <<>> /\ Len(wire[s]) = Len(s_omsg_q[s])
      /\ ~Noreply(Head(imsg_q[s]))
      /\ wire' = [wire EXCEPT ![s] = Append(@, Id(Head(imsg_q[s])))]
      /\ UNCHANGED <<req, done, peer, imsg_q, s_omsg_q, connecting>>
  BY DEF EarlyAnswer, CanSend, msgVars, flagVars, serverVars
<1>2. PeersOK'
  BY <1>1, PeersKept DEF PairInv
<1>3. WireOK(s)'
  <2>1. PICK w, n, h : w = wire[s] /\ n = Len(s_omsg_q[s]) /\ h = Id(Head(imsg_q[s]))
    OBVIOUS
  <2>2. w \in Seq(Identity) /\ n \in Nat /\ Len(w) = n
    BY SMTT(60), <1>1, <2>1, WireTyped
  <2>3. h \in Identity
    BY <1>1, <2>1, WireTyped, QueuesTyped DEF Carried, Id, Identity, TypeOK, MsgTypes, Request
  <2>4. wire'[s] = Append(w, h)
    BY <1>1, <2>1, WireTyped
  <2>5. /\ Len(wire'[s]) = n + 1 /\ wire'[s][n + 1] = h
        /\ \A i \in 1..n : wire'[s][i] = w[i]
    BY SMTT(60), <2>2, <2>3, <2>4
  <2>6. \A i \in 1..n : w[i] = Id(s_omsg_q[s][i])
    BY <2>1 DEF PairInv, WireOK
  <2> QED BY <1>1, <2>1, <2>2, <2>5, <2>6 DEF WireOK, Id, Noreply
<1>4. \A t \in Server : t # s => wire'[t] = wire[t]
  BY <1>1, WireTyped
<1>5. \A t \in Server : t # s => WireOK(t)'
  BY <1>1, <1>4, WireKept
<1> QED BY <1>2, <1>3, <1>5 DEF PairInv

\* A request that no answer is expected for has none on the wire; another waits
\* for its answer behind those written before it.
LEMMA ReqSendDonePairs ==
    ASSUME TypeOK, OwnInv, PairInv, NEW s \in Server, ReqSendDone(s)
    PROVE  PairInv'
<1>1. PICK m, gone, w, p :
         /\ m = Head(imsg_q[s]) /\ gone = {x \in {m} : Noreply(x)}
         /\ w = wire[s] /\ p = s_omsg_q[s]
  OBVIOUS
<1>2. /\ imsg_q[s] # <<>> /\ s \notin connecting /\ connecting' = connecting
      /\ imsg_q' = [imsg_q EXCEPT ![s] = Tail(@)]
      /\ s_omsg_q' = IF gone # {} THEN s_omsg_q ELSE [s_omsg_q EXCEPT ![s] = Append(@, m)]
      /\ req' = Reset(req, gone, Blank)
      /\ wire' = IF gone # {} \/ Len(w) > Len(p) THEN wire
                 ELSE [wire EXCEPT ![s] = Append(@, Id(m))]
      /\ UNCHANGED <<done, peer>>
  BY <1>1 DEF ReqSendDone, CanSend, flagVars
<1>3. /\ m \in Msg /\ m \in Carried(s) /\ m \notin done
      /\ m \notin Range(p) /\ gone \subseteq {m}
  <2>1. m \in Range(imsg_q[s]) /\ m \in Msg
    BY <1>1, <1>2, RangeTail DEF TypeOK, QueueTypes
  <2> QED BY <1>1, <2>1 DEF Carried, OwnInv, CarriedOnce, ServersOK
<1>4. \A x \in Msg : x # m => req'[x] = req[x]
  BY <1>2, <1>3 DEF Reset
<1>5. PeersOK'
  <2>1. peer[m] = NoAnswer
    BY <1>3 DEF PairInv, PeersOK
  <2> QED BY <1>2, <1>4, <2>1, PeersKept DEF PairInv
<1>6. /\ w \in Seq(Identity) /\ p \in Seq(Msg) /\ Len(p) \in Nat /\ Id(m) \in Identity
      /\ \A i \in 1..Len(p) : p[i] \in Range(p) /\ p[i] \in Msg
  <2>1. w \in Seq(Identity) /\ p \in Seq(Msg)
    BY <1>1, WireTyped
  <2>2. \A i \in 1..Len(p) : p[i] \in Range(p) /\ p[i] \in Msg
    BY SMTT(60), <2>1 DEF Range
  <2>3. Id(m) \in Identity
    BY <1>3 DEF Id, Identity, TypeOK, MsgTypes, Request
  <2> QED BY SMTT(60), <2>1, <2>2, <2>3
<1>7. /\ Len(w) = Len(p) \/ Len(w) = Len(p) + 1
      /\ \A i \in 1..Len(p) : w[i] = Id(p[i])
      /\ Len(w) = Len(p) + 1 => w[Len(p) + 1] = Id(m) /\ ~Noreply(m)
  BY <1>1 DEF PairInv, WireOK
<1>8. \A i \in 1..Len(p) : p[i] # m /\ req'[p[i]] = req[p[i]]
  BY <1>3, <1>4, <1>6
<1>9. WireOK(s)'
  <2>1. CASE Noreply(m)
    <3>1. gone # {} /\ wire'[s] = w /\ s_omsg_q'[s] = p /\ Len(w) = Len(p)
      BY <1>1, <1>2, <1>7, <2>1
    <3>2. \A i \in 1..Len(p) : w[i] = <<req'[p[i]].tag, req'[p[i]].part>>
      BY <1>7, <1>8 DEF Id
    <3> QED BY SMTT(60), <1>6, <3>1, <3>2 DEF WireOK, Id
  <2>2. CASE ~Noreply(m)
    <3>1. gone = {} /\ req'[m] = req[m] /\ s_omsg_q'[s] = Append(p, m)
      BY <1>1, <1>2, <1>3, <2>2, WireTyped DEF Reset
    <3>2. PICK r, v : r = Append(p, m) /\ v = wire'[s]
      OBVIOUS
    <3>3. /\ Len(r) = Len(p) + 1 /\ r[Len(p) + 1] = m /\ \A i \in 1..Len(p) : r[i] = p[i]
      BY SMTT(60), <1>3, <1>6, <3>2
    <3>4. /\ Len(v) = Len(p) + 1 /\ v[Len(p) + 1] = Id(m) /\ \A i \in 1..Len(p) : v[i] = w[i]
      <4>1. CASE Len(w) > Len(p)
        BY SMTT(60), <1>1, <1>2, <1>6, <1>7, <3>1, <3>2, <4>1
      <4>2. CASE ~(Len(w) > Len(p))
        <5>1. v = Append(w, Id(m)) /\ Len(w) = Len(p)
          BY SMTT(60), <1>1, <1>2, <1>6, <1>7, <3>1, <3>2, <4>2, WireTyped
        <5> QED BY SMTT(60), <1>6, <5>1
      <4> QED BY <4>1, <4>2
    <3>5. \A i \in 1..Len(r) : v[i] = <<req'[r[i]].tag, req'[r[i]].part>>
      <4> TAKE i \in 1..Len(r)
      <4>1. CASE i = Len(p) + 1
        BY <3>1, <3>3, <3>4, <4>1 DEF Id
      <4>2. CASE i \in 1..Len(p)
        BY SMTT(60), <1>7, <1>8, <3>3, <3>4, <4>2 DEF Id
      <4> QED BY SMTT(60), <1>6, <3>3, <4>1, <4>2
    <3> QED BY SMTT(60), <1>6, <3>1, <3>2, <3>3, <3>4, <3>5 DEF WireOK, Id
  <2> QED BY <2>1, <2>2
<1>10. ASSUME NEW t \in Server, t # s
       PROVE  WireOK(t)'
  <2>1. wire'[t] = wire[t] /\ imsg_q'[t] = imsg_q[t] /\ s_omsg_q'[t] = s_omsg_q[t]
    BY <1>2, <1>10, WireTyped
  <2>2. \A x \in Carried(t) : req'[x] = req[x]
    BY <1>3, <1>4, <1>10, QueuesTyped DEF OwnInv, CarriedOnce
  <2> QED BY <1>2, <2>1, <2>2, WireKept
<1> QED BY <1>5, <1>9, <1>10 DEF PairInv

\* The oldest answer is taken off with the oldest request.
LEMMA TailPairs ==
    ASSUME TypeOK, OwnInv, PairInv, NEW s \in Server, s_omsg_q[s] # <<>>, wire[s] # <<>>,
           s_omsg_q' = [s_omsg_q EXCEPT ![s] = Tail(@)], wire' = [wire EXCEPT ![s] = Tail(@)],
           \A x \in Msg : x # Head(s_omsg_q[s]) => req'[x] = req[x],
           UNCHANGED <<imsg_q, connecting>>
    PROVE  /\ Head(wire[s]) = Id(Head(s_omsg_q[s]))
           /\ \A t \in Server : WireOK(t)'
<1>1. PICK w, p, m, n : /\ w = wire[s] /\ p = s_omsg_q[s] /\ m = Head(p) /\ n = Len(p)
  OBVIOUS
<1>2. /\ w \in Seq(Identity) /\ p \in Seq(Msg) /\ p # <<>> /\ n \in Nat \ {0} /\ w # <<>>
      /\ m = p[1] /\ Head(w) = w[1]
  BY SMTT(60), <1>1, WireTyped
<1>3. /\ Len(w) = n \/ Len(w) = n + 1
      /\ \A i \in 1..n : w[i] = Id(p[i])
      /\ Len(w) = n + 1 => /\ imsg_q[s] # <<>> /\ s \notin connecting
                           /\ w[n + 1] = Id(Head(imsg_q[s])) /\ ~Noreply(Head(imsg_q[s]))
  BY <1>1 DEF PairInv, WireOK
<1>4. /\ m \in Msg /\ m \in Carried(s) /\ m \notin Range(Tail(p)) /\ m \notin Range(imsg_q[s])
  <2>1. m \in Msg /\ m \in Range(p) /\ IsInjective(p)
    BY SMTT(60), <1>1, <1>2, RangeTail DEF OwnInv, CarriedOnce
  <2>2. m \notin Range(Tail(p))
    BY SMTT(60), <1>1, <1>2, <2>1, RangeTail
  <2>3. m \in Carried(s) /\ m \notin Range(imsg_q[s])
    BY <1>1, <2>1 DEF Carried, OwnInv, CarriedOnce
  <2> QED BY <2>1, <2>2, <2>3
<1>5. wire'[s] = Tail(w) /\ s_omsg_q'[s] = Tail(p)
  BY <1>1, WireTyped
<1>6. /\ Len(Tail(p)) = n - 1 /\ \A i \in 1..(n - 1) : Tail(p)[i] = p[i + 1]
      /\ Len(Tail(w)) = Len(w) - 1 /\ \A i \in 1..(Len(w) - 1) : Tail(w)[i] = w[i + 1]
  BY SMTT(60), <1>1, <1>2
<1>7. \A i \in 1..(n - 1) : Tail(w)[i] = Id(Tail(p)[i]) /\ req'[Tail(p)[i]] = req[Tail(p)[i]]
  <2> TAKE i \in 1..(n - 1)
  <2>1. i + 1 \in 1..n /\ i \in 1..(Len(w) - 1)
    BY SMTT(60), <1>2, <1>3
  <2>2. Tail(p)[i] = p[i + 1] /\ Tail(w)[i] = w[i + 1] /\ w[i + 1] = Id(p[i + 1])
    BY <1>3, <1>6, <2>1
  <2>3. Tail(p) \in Seq(Msg) /\ i \in DOMAIN Tail(p)
    BY SMTT(60), <1>2, <1>6
  <2>4. Tail(p)[i] \in Range(Tail(p)) /\ Tail(p)[i] \in Msg
    BY <2>3, RangeOfSeq DEF Range
  <2> QED BY <1>1, <1>4, <2>2, <2>4
<1>8. imsg_q[s] # <<>> => /\ Head(imsg_q[s]) \in Msg /\ req'[Head(imsg_q[s])] = req[Head(imsg_q[s])]
  BY <1>1, <1>4, RangeTail, WireTyped
<1>9. WireOK(s)'
  <2>1. \A i \in 1..(n - 1) : Tail(w)[i] = <<req'[Tail(p)[i]].tag, req'[Tail(p)[i]].part>>
    BY <1>7 DEF Id
  <2>2. Len(Tail(w)) = n - 1 \/ Len(Tail(w)) = n
    <3>1. \A k : k = n + 1 => k - 1 = n
      BY SMTT(60), <1>2
    <3> QED BY <1>3, <1>6, <3>1
  <2>3. Len(Tail(w)) = n =>
           /\ imsg_q[s] # <<>> /\ s \notin connecting
           /\ Tail(w)[n] = <<req'[Head(imsg_q[s])].tag, req'[Head(imsg_q[s])].part>>
           /\ req'[Head(imsg_q[s])].kind # "noreply"
    <3>1. \A k \in Nat : k - 1 = n => k = n + 1 /\ n \in 1..(k - 1)
      BY SMTT(60), <1>2
    <3>2. Len(w) \in Nat
      BY SMTT(60), <1>2
    <3>3. Len(Tail(w)) = n => Len(w) = n + 1 /\ Tail(w)[n] = w[n + 1]
      BY <1>6, <3>1, <3>2
    <3> QED BY <1>3, <1>8, <3>3 DEF Id, Noreply
  <2>4. (n - 1) + 1 = n
    BY SMTT(60), <1>2
  <2> QED BY <1>5, <1>6, <2>1, <2>2, <2>3, <2>4 DEF WireOK, Id, Noreply
<1>10. ASSUME NEW t \in Server, t # s
       PROVE  WireOK(t)'
  <2>1. wire'[t] = wire[t] /\ s_omsg_q'[t] = s_omsg_q[t]
    BY <1>10, WireTyped
  <2>2. \A x \in Carried(t) : req'[x] = req[x]
    BY <1>1, <1>4, <1>10, QueuesTyped DEF OwnInv, CarriedOnce
  <2> QED BY <2>1, <2>2, WireKept
<1>11. Head(w) = Id(m)
  <2>1. 1 \in 1..n
    BY SMTT(60), <1>2
  <2> QED BY <1>2, <1>3, <2>1
<1> QED BY <1>1, <1>9, <1>10, <1>11

LEMMA RspSwallowPairs ==
    ASSUME TypeOK, OwnInv, PairInv, NEW s \in Server, RspSwallow(s)
    PROVE  PairInv'
<1>1. PICK m : m = Head(s_omsg_q[s])
  OBVIOUS
<1>2. /\ s_omsg_q[s] # <<>> /\ wire[s] # <<>> /\ req' = Reset(req, {m}, Blank)
      /\ s_omsg_q' = [s_omsg_q EXCEPT ![s] = Tail(@)] /\ wire' = [wire EXCEPT ![s] = Tail(@)]
      /\ UNCHANGED <<done, peer, imsg_q, connecting>>
  BY <1>1 DEF RspSwallow, CanAnswer
<1>3. \A x \in Msg : x # m => req'[x] = req[x]
  BY <1>2 DEF Reset
<1>4. \A t \in Server : WireOK(t)'
  BY <1>1, <1>2, <1>3, TailPairs
<1>5. m \in Msg /\ peer[m] = NoAnswer
  <2>1. m \in Carried(s) /\ m \in Msg
    BY <1>1, <1>2, RangeTail DEF Carried, TypeOK, QueueTypes
  <2> QED BY <2>1 DEF OwnInv, ServersOK, PairInv, PeersOK
<1>6. PeersOK'
  BY <1>2, <1>3, <1>5, PeersKept DEF PairInv
<1> QED BY <1>4, <1>6 DEF PairInv

\* The answer linked to the oldest request is the answer to that request.
LEMMA RspForwardPairs ==
    ASSUME TypeOK, OwnInv, PairInv, NEW s \in Server, NEW bad, RspForward(s, bad)
    PROVE  PairInv'
<1>1. PICK m : m = Head(s_omsg_q[s])
  OBVIOUS
<1>2. /\ s_omsg_q[s] # <<>> /\ wire[s] # <<>> /\ req' = req /\ done' = done \cup {m}
      /\ peer' = [peer EXCEPT ![m] = Head(wire[s])]
      /\ s_omsg_q' = [s_omsg_q EXCEPT ![s] = Tail(@)] /\ wire' = [wire EXCEPT ![s] = Tail(@)]
      /\ UNCHANGED <<imsg_q, connecting>>
  BY <1>1 DEF RspForward, CanAnswer
<1>3. Head(wire[s]) = Id(m) /\ \A t \in Server : WireOK(t)'
  BY <1>1, <1>2, TailPairs
<1>4. \A x \in Msg : IF x = m THEN peer'[x] = Id(m)' ELSE peer'[x] = peer[x]
  BY <1>2, <1>3 DEF Id, TypeOK, MsgTypes
<1>5. PeersOK'
  BY <1>2, <1>4, PeersKept DEF PairInv
<1> QED BY <1>3, <1>5 DEF PairInv

LEMMA ServerClosePairs ==
    ASSUME TypeOK, OwnInv, PairInv, NEW s \in Server, NEW expired, ServerClose(s, expired)
    PROVE  PairInv'
<1>1. PICK gone, lost : /\ gone = {m \in Carried(s) : m \in swallow \/ Noreply(m)}
                        /\ lost = Carried(s) \ gone
  OBVIOUS
<1>2. /\ req' = Reset(req, gone, Blank) /\ done' = done \cup lost /\ peer' = peer
      /\ connecting' = connecting \ {s} /\ imsg_q' = [imsg_q EXCEPT ![s] = <<>>]
      /\ s_omsg_q' = [s_omsg_q EXCEPT ![s] = <<>>] /\ wire' = [wire EXCEPT ![s] = <<>>]
  BY <1>1 DEF ServerClose
<1>3. \A x \in Msg : x \notin Carried(s) => req'[x] = req[x]
  BY <1>1, <1>2 DEF Reset
<1>4. PeersOK'
  <2>1. \A x \in Carried(s) : x \in Msg => peer'[x] = NoAnswer
    BY <1>2 DEF OwnInv, ServersOK, PairInv, PeersOK
  <2> QED BY <1>2, <1>3, <2>1, PeersKept DEF PairInv
<1>5. WireOK(s)'
  <2>1. wire'[s] = <<>> /\ s_omsg_q'[s] = <<>>
    BY <1>2, WireTyped
  <2> QED BY SMTT(60), <2>1 DEF WireOK
<1>6. ASSUME NEW t \in Server, t # s
      PROVE  WireOK(t)'
  <2>1. wire'[t] = wire[t] /\ imsg_q'[t] = imsg_q[t] /\ s_omsg_q'[t] = s_omsg_q[t]
    BY <1>2, <1>6, WireTyped
  <2>2. \A x \in Carried(t) : req'[x] = req[x]
    BY <1>3, <1>6, QueuesTyped DEF OwnInv, CarriedOnce
  <2> QED BY <1>2, <2>1, <2>2, WireKept
<1> QED BY <1>4, <1>5, <1>6 DEF PairInv

\* A client's write handler and its close put finished requests only.
LEMMA PutPairs ==
    ASSUME TypeOK, OwnInv, PairInv, NEW c \in Client,
           RspSendDone(c) \/ (\E i : RspSendNext(c, i)) \/ ClientClose(c)
    PROVE  PairInv'
<1>1. ASSUME NEW gone, req' = Reset(req, gone, Blank), done' = done \ gone,
             peer' = Reset(peer, gone, NoAnswer), \A x \in gone : x \in done,
             UNCHANGED <<wire, imsg_q, s_omsg_q, connecting>>
      PROVE  PairInv'
  <2>1. gone \in SUBSET Msg
    BY <1>1, FlagsTyped
  <2>2. \A x \in Msg : IF x \in gone THEN peer'[x] = NoAnswer
                       ELSE req'[x] = req[x] /\ peer'[x] = peer[x]
    BY <1>1 DEF Reset
  <2> QED BY <1>1, <2>1, <2>2, OtherPairs
<1>2. ASSUME RspSendDone(c)
      PROVE  PairInv'
  <2>1. PICK m : m = HeadOf(c)
    OBVIOUS
  <2>2. /\ ReqDone(m) /\ c_omsg_q[c] # <<>> /\ req' = Reset(req, {m}, Blank) /\ done' = done \ {m}
        /\ peer' = [peer EXCEPT ![m] = NoAnswer]
        /\ UNCHANGED <<wire, imsg_q, s_omsg_q, connecting>>
    BY <1>2, <2>1 DEF RspSendDone, serverVars
  <2>3. m \in done /\ m \in Msg
    BY <2>1, <2>2, FlagsTyped DEF ReqDone, Complete, OwnInv, VectorsOK
  <2>4. peer' = Reset(peer, {m}, NoAnswer)
    BY <2>2, <2>3 DEF Reset, TypeOK, MsgTypes
  <2> QED BY <1>1, <2>2, <2>3, <2>4
<1>3. ASSUME NEW i, RspSendNext(c, i)
      PROVE  PairInv'
  <2>1. PICK m, gone : m = c_omsg_q[c][i] /\ gone = frags[m]
    OBVIOUS
  <2>2. /\ i \in DOMAIN c_omsg_q[c] /\ \A j \in 1..i : ReqDone(c_omsg_q[c][j])
        /\ req' = Reset(req, gone, Blank) /\ done' = done \ gone
        /\ peer' = Reset(peer, gone, NoAnswer)
        /\ UNCHANGED <<wire, imsg_q, s_omsg_q, connecting>>
    BY <1>3, <2>1 DEF RspSendNext, serverVars, envVars
  <2>3. ReqDone(m)
    <3>1. i \in 1..i
      BY SMTT(60), <2>2 DEF TypeOK, QueueTypes
    <3> QED BY <2>1, <2>2, <3>1
  <2>4. \A x \in gone : x \in done
    BY <2>1, <2>3 DEF ReqDone, Complete, OwnInv, VectorsOK
  <2> QED BY <1>1, <2>2, <2>4
<1>4. ASSUME ClientClose(c)
      PROVE  PairInv'
  <2>1. PICK gone : gone = Held(c) \cap done
    OBVIOUS
  <2>2. /\ req' = Reset(req, gone, Blank) /\ done' = done \ gone
        /\ peer' = Reset(peer, gone, NoAnswer)
        /\ UNCHANGED <<wire, imsg_q, s_omsg_q, connecting>>
    BY <1>4, <2>1 DEF ClientClose, serverVars
  <2> QED BY <1>1, <2>1, <2>2
<1> QED BY <1>2, <1>3, <1>4

-----------------------------------------------------------------------------
(* Sessions with servers *)

Kind(m) == req[m].kind

\* Every request of a client in the queue is behind an AUTH.
BehindAuth(q) ==
    \A i \in DOMAIN q : Kind(q[i]) \in ProxyKinds \/ \E j \in DOMAIN q : j < i /\ Kind(q[j]) = "auth"

HoldsAuth(q) == \E i \in DOMAIN q : Kind(q[i]) = "auth"

AuthOK(s) ==
    \/ "auth" \in session[s]
    \/ BehindAuth(imsg_q[s]) /\ (s \in authenticated => HoldsAuth(imsg_q[s]))

\* A connection on which nothing has been written has its SELECT at the head.
DbOK(s) ==
    s \in open /\ s \notin connecting =>
        "db" \in session[s] \/ (imsg_q[s] # <<>> /\ Kind(Head(imsg_q[s])) = "select")

SessionInv ==
    /\ RequireAuth => \A s \in Server : AuthOK(s)
    /\ SelectDb /\ ~RequireAuth /\ ~UnixSocket => \A s \in Server : DbOK(s)

LEMMA InitSessions == Init => SessionInv
BY SMTT(60) DEF Init, SessionInv, AuthOK, DbOK, BehindAuth

\* The head of the queue is a message of the proxy, or the server granted
\* what it has to grant.
LEMMA SessionsPrepare ==
    ASSUME TypeOK, SessionInv
    PROVE  /\ RequireAuth => Prepared("auth")
           /\ SelectDb /\ ~RequireAuth /\ ~UnixSocket => Prepared("db")
<1> SUFFICES ASSUME NEW s \in Server, ReqSendDone(s)
             PROVE  /\ RequireAuth => Kind(Head(imsg_q[s])) \in ProxyKinds \/ "auth" \in session[s]
                    /\ SelectDb /\ ~RequireAuth /\ ~UnixSocket =>
                          Kind(Head(imsg_q[s])) \in ProxyKinds \/ "db" \in session[s]
  BY DEF Prepared, Kind
<1>1. imsg_q[s] # <<>> /\ s \in open /\ s \notin connecting
  BY DEF ReqSendDone, CanSend
<1>2. /\ imsg_q[s] \in Seq(Msg) /\ 1 \in DOMAIN imsg_q[s] /\ Head(imsg_q[s]) = imsg_q[s][1]
      /\ \A j \in DOMAIN imsg_q[s] : ~(j < 1)
  BY SMTT(60), <1>1 DEF TypeOK, QueueTypes
<1>3. RequireAuth => Kind(Head(imsg_q[s])) \in ProxyKinds \/ "auth" \in session[s]
  BY <1>2 DEF SessionInv, AuthOK, BehindAuth
<1>4. SelectDb /\ ~RequireAuth /\ ~UnixSocket =>
         Kind(Head(imsg_q[s])) \in ProxyKinds \/ "db" \in session[s]
  BY <1>1 DEF SessionInv, DbOK, ProxyKinds
<1> QED BY <1>3, <1>4

\* A connection that a step leaves alone.
LEMMA SessionKept ==
    ASSUME TypeOK, NEW s \in Server, imsg_q'[s] = imsg_q[s], session'[s] = session[s],
           s \in authenticated' => s \in authenticated,
           s \in open' /\ s \notin connecting' => s \in open /\ s \notin connecting,
           \A x \in Range(imsg_q[s]) : req'[x] = req[x]
    PROVE  (AuthOK(s) => AuthOK(s)') /\ (DbOK(s) => DbOK(s)')
<1>1. PICK q : q = imsg_q[s]
  OBVIOUS
<1>2. \A i \in DOMAIN q : req'[q[i]] = req[q[i]]
  BY <1>1 DEF Range
<1>3. BehindAuth(imsg_q[s]) => BehindAuth(imsg_q[s])'
  BY SMTT(60), <1>1, <1>2 DEF BehindAuth, Kind
<1>4. HoldsAuth(imsg_q[s]) => HoldsAuth(imsg_q[s])'
  BY SMTT(60), <1>1, <1>2 DEF HoldsAuth, Kind
<1>5. q # <<>> => req'[Head(q)] = req[Head(q)]
  BY <1>1, RangeTail DEF TypeOK, QueueTypes
<1> QED BY <1>1, <1>3, <1>4, <1>5 DEF AuthOK, DbOK, Kind

\* What a server carries before and after a step is the same message.
RequestsKept == \A s \in Server : \A x \in Carried(s) : x \in Carried(s)' => req'[x] = req[x]

LEMMA SameSessions ==
    ASSUME TypeOK, SessionInv, RequestsKept,
           UNCHANGED <<imsg_q, session, authenticated, connecting>>,
           \A s \in Server : s \in open' => s \in open
    PROVE  SessionInv'
<1>1. \A s \in Server : \A x \in Range(imsg_q[s]) : req'[x] = req[x]
  BY DEF RequestsKept, Carried
<1>2. \A s \in Server : (AuthOK(s) => AuthOK(s)') /\ (DbOK(s) => DbOK(s)')
  BY <1>1, SessionKept
<1> QED BY <1>2 DEF SessionInv

LEMMA KeptByRead ==
    ASSUME TypeOK, OwnInv, NEW c \in Client, NEW m \in Msg,
           \/ \E kind : ReadSingle(c, m, kind)
           \/ \E kind : \E q \in Seq(Msg) : ReadVector(c, m, q, kind)
           \/ ReadLocal(c, m)
    PROVE  RequestsKept
<1>1. \A x \in Msg : x \in Free \/ req'[x] = req[x]
  BY DEF ReadSingle, ReadVector, ReadLocal, TypeOK, MsgTypes
<1> QED BY <1>1, QueuesTyped DEF RequestsKept, OwnInv, ServersOK

LEMMA KeptByFinish == ASSUME TypeOK, Finishes PROVE RequestsKept
<1>1. PICK gone, lost \in SUBSET Msg : Finished(gone, lost)
  BY DEF Finishes
<1>2. /\ req' = Reset(req, gone, Blank)
      /\ \A s \in Server : \A x \in Carried(s)' : x \notin gone
  BY <1>1 DEF Finished
<1> QED BY <1>2, QueuesTyped DEF RequestsKept, Reset

LEMMA KeptByPut == ASSUME TypeOK, OwnInv, Puts PROVE RequestsKept
<1>1. PICK gone, left \in SUBSET Msg : Put(gone, left)
  BY DEF Puts
<1>2. req' = Reset(req, gone, Blank) /\ \A x \in gone : x \in done
  BY <1>1 DEF Put
<1> QED BY <1>2, QueuesTyped DEF RequestsKept, Reset, OwnInv, ServersOK

LEMMA KeptByForward ==
    ASSUME TypeOK, TypeOK', OwnInv,
           ReqForwardError \/ \E s \in Server : ReqForward(s) \/ ServerConnected(s)
    PROVE  RequestsKept
<1>1. \A s \in Server : \A x \in Carried(s) : x \in Msg /\ x \notin Free
  BY QueuesTyped DEF OwnInv, ServersOK
<1>2. ReqForwardError => RequestsKept
  <2> SUFFICES ASSUME ReqForwardError
               PROVE  RequestsKept
    OBVIOUS
  <2>1. PICK m \in Msg, gone \in SUBSET Msg : ForwardFailed(m, gone)
    BY ForwardErrorFacts
  <2>2. /\ \A x \in Msg : x \notin gone => req'[x] = req[x]
        /\ \A x \in gone : x = m
        /\ \A s \in Server : m \notin Carried(s)
    BY <2>1 DEF ForwardFailed
  <2> QED BY <1>1, <2>2 DEF RequestsKept
<1>3. ASSUME NEW s \in Server, ReqForward(s)
      PROVE  RequestsKept
  <2>1. PICK m \in Msg, a \in SUBSET Msg : Forwarded(s, m, a)
    BY <1>3, ReqForwardFacts
  <2>2. /\ \A x \in a : x \in Free
        /\ \A x \in Msg : x \notin a => req'[x] = req[x]
    BY <2>1 DEF Forwarded
  <2> QED BY <1>1, <2>2 DEF RequestsKept
<1>4. ASSUME NEW s \in Server, ServerConnected(s)
      PROVE  RequestsKept
  <2>1. PICK a \in SUBSET Msg : Connected(s, a)
    BY <1>4, ServerConnectedFacts
  <2>2. /\ \A x \in a : x \in Free
        /\ \A x \in Msg : x \notin a => req'[x] = req[x]
    BY <2>1 DEF Connected
  <2> QED BY <1>1, <2>2 DEF RequestsKept
<1> QED BY <1>2, <1>3, <1>4

\* A request is queued behind the AUTH that was queued before it or with it.
LEMMA ReqForwardSessions ==
    ASSUME TypeOK, TypeOK', OwnInv, ConnInv, SessionInv, NEW s \in Server, ReqForward(s)
    PROVE  SessionInv'
<1>1. PICK m, auth : /\ m = Head(frag_msgq) /\ frag_msgq # <<>>
                     /\ auth \in ProxyMsg(RequireAuth /\ s \notin authenticated)
                     /\ req' = Reset(req, Range(auth), Message("auth", 0, 0, recving, Nil, 0))
                     /\ imsg_q' = [imsg_q EXCEPT ![s] = @ \o auth \o <<m>>]
                     /\ authenticated' = IF RequireAuth THEN authenticated \cup {s} ELSE authenticated
  BY DEF ReqForward
<1>2. /\ session' = session /\ open' = open \cup {s}
      /\ connecting' = IF s \notin open /\ ~UnixSocket THEN connecting \cup {s} ELSE connecting
  BY DEF ReqForward, envVars
<1>3. m \in Msg /\ auth \in Seq(Msg)
  BY <1>1, QueuedIsMsg, ProxyMsgFree
<1>4. PICK q, r, n : q = imsg_q[s] /\ r = imsg_q'[s] /\ n = Len(q)
  OBVIOUS
<1>5. q \in Seq(Msg) /\ r = q \o auth \o <<m>> /\ n \in Nat /\ DOMAIN q = 1..n
  <2>1. q \in Seq(Msg) /\ r = q \o auth \o <<m>>
    BY <1>1, <1>4 DEF TypeOK, QueueTypes
  <2> QED BY SMTT(60), <1>4, <2>1
<1>6. /\ DOMAIN q \subseteq DOMAIN r /\ \A i \in 1..n : r[i] = q[i]
      /\ q # <<>> => r # <<>> /\ Head(r) = Head(q)
  BY SMTT(60), <1>3, <1>5
<1>7. \A t \in Server : \A x \in Range(imsg_q[t]) : req'[x] = req[x]
  <2>1. \A t \in Server : Range(imsg_q[t]) \subseteq Range(imsg_q'[t])
    <3>1. PICK x \in Msg, a \in SUBSET Msg : Forwarded(s, x, a)
      BY ReqForwardFacts
    <3> QED BY <3>1 DEF Forwarded
  <2> QED BY <2>1, KeptByForward DEF RequestsKept, Carried
<1>8. \A i \in 1..n : Kind(q[i])' = Kind(q[i])
  <2>1. \A i \in 1..n : req'[q[i]] = req[q[i]]
    BY <1>4, <1>5, <1>7 DEF Range
  <2> QED BY <2>1 DEF Kind
<1>9. ASSUME RequireAuth
      PROVE  AuthOK(s)'
  <2>1. CASE "auth" \in session[s]
    BY <1>2, <2>1 DEF AuthOK
  <2>2. CASE "auth" \notin session[s] /\ s \in authenticated
    <3>1. BehindAuth(q) /\ HoldsAuth(q)
      BY <1>4, <1>9, <2>2 DEF SessionInv, AuthOK
    <3>2. auth = <<>>
      BY <1>1, <2>2 DEF ProxyMsg
    <3>3. DOMAIN r = 1..(n + 1)
      BY SMTT(60), <1>3, <1>4, <1>5, <3>2
    <3>4. PICK j \in 1..n : Kind(r[j])' = "auth"
      BY <1>5, <1>6, <1>8, <3>1 DEF HoldsAuth
    <3>5. ASSUME NEW i \in DOMAIN r
          PROVE  Kind(r[i])' \in ProxyKinds \/ \E k \in DOMAIN r : k < i /\ Kind(r[k])' = "auth"
      <4>1. CASE i \in 1..n
        BY <1>5, <1>6, <1>8, <3>1, <4>1 DEF BehindAuth
      <4>2. CASE i = n + 1
        BY SMTT(60), <1>5, <3>3, <3>4, <4>2
      <4> QED BY SMTT(60), <1>5, <3>3, <3>5, <4>1, <4>2
    <3>6. j \in DOMAIN r
      BY SMTT(60), <1>5, <3>3
    <3> QED BY <1>4, <3>4, <3>5, <3>6 DEF AuthOK, BehindAuth, HoldsAuth
  <2>3. CASE "auth" \notin session[s] /\ s \notin authenticated
    <3>1. BehindAuth(q)
      BY <1>4, <1>9, <2>3 DEF SessionInv, AuthOK
    <3>2. PICK a \in Msg : auth = <<a>>
      BY <1>1, <1>9, <2>3 DEF ProxyMsg, Free
    <3>3. DOMAIN r = 1..(n + 2) /\ r[n + 1] = a
      BY SMTT(60), <1>3, <1>4, <1>5, <3>2
    <3>4. Kind(a)' = "auth"
      BY <1>1, <3>2, RangeOne DEF Kind, Reset, Message
    <3>5. ASSUME NEW i \in DOMAIN r
          PROVE  Kind(r[i])' \in ProxyKinds \/ \E k \in DOMAIN r : k < i /\ Kind(r[k])' = "auth"
      <4>1. CASE i \in 1..n
        BY <1>5, <1>6, <1>8, <3>1, <4>1 DEF BehindAuth
      <4>2. CASE i = n + 1
        BY <3>3, <3>4, <4>2 DEF ProxyKinds
      <4>3. CASE i = n + 2
        BY SMTT(60), <1>5, <3>3, <3>4, <4>3
      <4> QED BY SMTT(60), <1>5, <3>3, <3>5, <4>1, <4>2, <4>3
    <3>6. n + 1 \in DOMAIN r
      BY SMTT(60), <1>5, <3>3
    <3> QED BY <1>4, <3>3, <3>4, <3>5, <3>6 DEF AuthOK, BehindAuth, HoldsAuth
  <2> QED BY <2>1, <2>2, <2>3
<1>10. ASSUME SelectDb, ~RequireAuth, ~UnixSocket
       PROVE  DbOK(s)'
  <2>1. s \in open' /\ s \notin connecting' => s \in open /\ s \notin connecting
    BY <1>2, <1>10
  <2>2. q # <<>> => Kind(Head(q))' = Kind(Head(q))
    <3>1. q # <<>> => 1 \in 1..n /\ Head(q) = q[1]
      BY SMTT(60), <1>4, <1>5
    <3> QED BY <1>8, <3>1
  <2> QED BY <1>2, <1>4, <1>6, <1>10, <2>1, <2>2 DEF SessionInv, DbOK
<1>11. ASSUME NEW t \in Server, t # s
       PROVE  (AuthOK(t) => AuthOK(t)') /\ (DbOK(t) => DbOK(t)')
  <2>1. imsg_q'[t] = imsg_q[t]
    BY <1>1, <1>11 DEF TypeOK, QueueTypes
  <2> QED BY <1>1, <1>2, <1>7, <1>11, <2>1, SessionKept
<1> QED BY <1>9, <1>10, <1>11 DEF SessionInv

\* The SELECT goes ahead of whatever is queued.
LEMMA ServerConnectedSessions ==
    ASSUME TypeOK, TypeOK', OwnInv, SessionInv, NEW s \in Server, ServerConnected(s)
    PROVE  SessionInv'
<1>1. PICK select : /\ select \in ProxyMsg(SelectDb)
                    /\ req' = Reset(req, Range(select), Message("select", 0, 0, Nil, Nil, 0))
                    /\ imsg_q' = [imsg_q EXCEPT ![s] = select \o @]
  BY DEF ServerConnected
<1>2. connecting' = connecting \ {s} /\ UNCHANGED <<session, open, authenticated>>
  BY DEF ServerConnected, envVars, connVars
<1>3. select \in Seq(Msg)
  BY <1>1, ProxyMsgFree
<1>4. PICK q, r, n, d : q = imsg_q[s] /\ r = imsg_q'[s] /\ n = Len(q) /\ d = Len(select)
  OBVIOUS
<1>5. q \in Seq(Msg) /\ r = select \o q /\ n \in Nat /\ DOMAIN q = 1..n /\ d \in Nat
  BY SMTT(60), <1>1, <1>3, <1>4 DEF TypeOK, QueueTypes
<1>6. /\ DOMAIN r = 1..(d + n) /\ \A i \in 1..n : r[d + i] = q[i]
      /\ \A i \in 1..d : r[i] = select[i]
  BY SMTT(60), <1>3, <1>4, <1>5
<1>7. \A t \in Server : \A x \in Range(imsg_q[t]) : req'[x] = req[x]
  <2>1. \A t \in Server : Range(imsg_q[t]) \subseteq Range(imsg_q'[t])
    <3>1. PICK a \in SUBSET Msg : Connected(s, a)
      BY ServerConnectedFacts
    <3> QED BY <3>1 DEF Connected
  <2> QED BY <2>1, KeptByForward DEF RequestsKept, Carried
<1>8. \A i \in 1..n : Kind(q[i])' = Kind(q[i])
  <2>1. \A i \in 1..n : req'[q[i]] = req[q[i]]
    BY <1>4, <1>5, <1>7 DEF Range
  <2> QED BY <2>1 DEF Kind
<1>9. \A i \in 1..d : Kind(select[i])' = "select"
  <2>1. \A i \in 1..d : select[i] \in Msg /\ select[i] \in Range(select)
    BY SMTT(60), <1>3, <1>4 DEF Range
  <2> QED BY <1>1, <2>1 DEF Kind, Reset, Message
<1>10. AuthOK(s) => AuthOK(s)'
  <2>1. BehindAuth(q) => BehindAuth(r)'
    <3> SUFFICES ASSUME BehindAuth(q), NEW i \in 1..(d + n)
                 PROVE  \/ Kind(r[i])' \in ProxyKinds
                        \/ \E j \in 1..(d + n) : j < i /\ Kind(r[j])' = "auth"
      BY <1>6 DEF BehindAuth
    <3>1. CASE i \in 1..d
      BY <1>6, <1>9, <3>1 DEF ProxyKinds
    <3>2. CASE ~(i \in 1..d)
      <4>1. PICK k \in 1..n : i = d + k
        <5>1. i - d \in 1..n /\ i = d + (i - d)
          BY SMTT(60), <1>5, <3>2
        <5> QED BY <5>1
      <4>2. Kind(r[i])' = Kind(q[k])
        BY <1>6, <1>8, <4>1
      <4>3. Kind(q[k]) \in ProxyKinds \/ \E j \in 1..n : j < k /\ Kind(q[j]) = "auth"
        BY <1>5 DEF BehindAuth
      <4>4. ASSUME NEW j \in 1..n, j < k, Kind(q[j]) = "auth"
            PROVE  \E h \in 1..(d + n) : h < i /\ Kind(r[h])' = "auth"
        <5>1. d + j \in 1..(d + n) /\ d + j < i
          BY SMTT(60), <1>5, <4>1, <4>4
        <5>2. Kind(r[d + j])' = "auth"
          BY <1>6, <1>8, <4>4
        <5> QED BY <5>1, <5>2
      <4> QED BY <4>2, <4>3, <4>4
    <3> QED BY <3>1, <3>2
  <2>2. HoldsAuth(q) => HoldsAuth(r)'
    <3> SUFFICES ASSUME NEW j \in 1..n, Kind(q[j]) = "auth"
                 PROVE  \E h \in 1..(d + n) : Kind(r[h])' = "auth"
      BY <1>5, <1>6 DEF HoldsAuth
    <3>1. d + j \in 1..(d + n)
      BY SMTT(60), <1>5
    <3> QED BY <1>6, <1>8, <3>1
  <2> QED BY <1>2, <1>4, <2>1, <2>2 DEF AuthOK
<1>11. ASSUME SelectDb
       PROVE  DbOK(s)'
  <2>1. PICK a \in Msg : select = <<a>>
    BY <1>1, <1>11 DEF ProxyMsg, Free
  <2>2. r # <<>> /\ Head(r) = a
    BY SMTT(60), <1>5, <2>1
  <2>3. Kind(a)' = "select"
    BY <1>1, <2>1, RangeOne DEF Kind, Reset, Message
  <2> QED BY <1>4, <2>2, <2>3 DEF DbOK
<1>12. ASSUME NEW t \in Server, t # s
       PROVE  (AuthOK(t) => AuthOK(t)') /\ (DbOK(t) => DbOK(t)')
  <2>1. imsg_q'[t] = imsg_q[t]
    BY <1>1, <1>12 DEF TypeOK, QueueTypes
  <2> QED BY <1>2, <1>7, <1>12, <2>1, SessionKept
<1> QED BY <1>10, <1>11, <1>12 DEF SessionInv

\* Writing the AUTH or the SELECT makes the server grant what it asks for.
LEMMA ReqSendDoneSessions ==
    ASSUME TypeOK, OwnInv, SessionInv, NEW s \in Server, ReqSendDone(s)
    PROVE  SessionInv'
<1>1. PICK m, q, n : m = Head(imsg_q[s]) /\ q = imsg_q[s] /\ n = Len(q)
  OBVIOUS
<1>2. /\ q # <<>> /\ imsg_q' = [imsg_q EXCEPT ![s] = Tail(@)]
      /\ req' = Reset(req, {x \in {m} : Noreply(x)}, Blank)
      /\ session' = [session EXCEPT ![s] = @ \cup Granted(s, req[m].kind)]
      /\ s \in open /\ s \notin connecting
      /\ UNCHANGED <<open, connecting, authenticated>>
  BY <1>1 DEF ReqSendDone, CanSend, connVars
<1>3. session \in [Server -> SUBSET {"auth", "db"}]
  BY DEF TypeOK, PeerTypes
<1>4. /\ session'[s] = session[s] \cup Granted(s, Kind(m))
      /\ \A t \in Server : t # s => session'[t] = session[t] /\ imsg_q'[t] = imsg_q[t]
      /\ imsg_q'[s] = Tail(q)
  BY <1>1, <1>2, <1>3 DEF TypeOK, QueueTypes, Kind
<1>5. /\ q \in Seq(Msg) /\ n \in Nat \ {0} /\ m = q[1] /\ DOMAIN q = 1..n
      /\ DOMAIN Tail(q) = 1..(n - 1) /\ \A i \in 1..(n - 1) : Tail(q)[i] = q[i + 1]
  BY SMTT(60), <1>1, <1>2 DEF TypeOK, QueueTypes
<1>6. m \in Msg /\ m \in Range(q) /\ IsInjective(q) /\ m \notin Range(Tail(q))
  BY SMTT(60), <1>1, <1>2, <1>5, RangeTail DEF OwnInv, CarriedOnce
<1>7. \A x \in Msg : x # m => req'[x] = req[x]
  BY <1>2 DEF Reset
<1>8. \A i \in 1..(n - 1) : Kind(Tail(q)[i])' = Kind(q[i + 1])
  <2> TAKE i \in 1..(n - 1)
  <2>1. i + 1 \in DOMAIN q /\ i + 1 # 1 /\ 1 \in DOMAIN q
    BY SMTT(60), <1>5
  <2>2. q[i + 1] # m /\ q[i + 1] \in Msg
    BY SMTT(60), <1>5, <1>6, <2>1 DEF IsInjective
  <2> QED BY <1>1, <1>5, <1>7, <2>2 DEF Kind
<1>9. AuthOK(s) => AuthOK(s)'
  <2>1. CASE "auth" \in session[s] \/ Kind(m) = "auth"
    BY <1>4, <2>1 DEF AuthOK, Granted
  <2>2. CASE "auth" \notin session[s] /\ Kind(m) # "auth"
    <3>1. ASSUME NEW j \in 1..n, Kind(q[j]) = "auth"
          PROVE  j - 1 \in 1..(n - 1) /\ Kind(Tail(q)[j - 1])' = "auth"
      <4>1. j # 1
        BY <1>5, <2>2, <3>1
      <4>2. j - 1 \in 1..(n - 1) /\ (j - 1) + 1 = j
        BY SMTT(60), <1>5, <4>1
      <4> QED BY <1>8, <3>1, <4>2
    <3>2. BehindAuth(q) => BehindAuth(Tail(q))'
      <4> SUFFICES ASSUME BehindAuth(q), NEW i \in 1..(n - 1)
                   PROVE  \/ Kind(Tail(q)[i])' \in ProxyKinds
                          \/ \E h \in 1..(n - 1) : h < i /\ Kind(Tail(q)[h])' = "auth"
        BY <1>5 DEF BehindAuth
      <4>1. i + 1 \in 1..n
        BY SMTT(60), <1>5
      <4>2. Kind(q[i + 1]) \in ProxyKinds \/ \E j \in 1..n : j < i + 1 /\ Kind(q[j]) = "auth"
        BY <1>5, <4>1 DEF BehindAuth
      <4>3. ASSUME NEW j \in 1..n, j < i + 1, Kind(q[j]) = "auth"
            PROVE  \E h \in 1..(n - 1) : h < i /\ Kind(Tail(q)[h])' = "auth"
        <5>1. j - 1 < i
          BY SMTT(60), <1>5, <4>3
        <5> QED BY <3>1, <4>3, <5>1
      <4> QED BY <1>8, <4>2, <4>3
    <3>3. HoldsAuth(q) => HoldsAuth(Tail(q))'
      BY <1>5, <3>1 DEF HoldsAuth
    <3> QED BY <1>1, <1>2, <1>4, <2>2, <3>2, <3>3 DEF AuthOK
  <2> QED BY <2>1, <2>2
<1>10. ASSUME ~RequireAuth
       PROVE  DbOK(s) => DbOK(s)'
  <2>1. Kind(m) = "select" => "db" \in session'[s]
    BY <1>4, <1>10 DEF Granted
  <2> QED BY <1>1, <1>2, <1>4, <2>1 DEF DbOK
<1>11. ASSUME NEW t \in Server, t # s
       PROVE  (AuthOK(t) => AuthOK(t)') /\ (DbOK(t) => DbOK(t)')
  <2>1. \A x \in Range(imsg_q[t]) : req'[x] = req[x]
    BY <1>1, <1>6, <1>7, <1>11, QueuesTyped DEF Carried, OwnInv, CarriedOnce
  <2> QED BY <1>2, <1>4, <1>11, <2>1, SessionKept
<1> QED BY <1>9, <1>10, <1>11 DEF SessionInv

LEMMA ServerCloseSessions ==
    ASSUME TypeOK, OwnInv, SessionInv, NEW s \in Server, NEW expired, ServerClose(s, expired)
    PROVE  SessionInv'
<1>1. /\ open' = open \ {s} /\ connecting' = connecting \ {s}
      /\ authenticated' = authenticated \ {s}
      /\ imsg_q' = [imsg_q EXCEPT ![s] = <<>>] /\ session' = [session EXCEPT ![s] = {}]
      /\ req' = Reset(req, {m \in Carried(s) : m \in swallow \/ Noreply(m)}, Blank)
  BY DEF ServerClose
<1>2. /\ imsg_q'[s] = <<>>
      /\ \A t \in Server : t # s => imsg_q'[t] = imsg_q[t] /\ session'[t] = session[t]
  BY <1>1 DEF TypeOK, QueueTypes, PeerTypes
<1>3. AuthOK(s)' /\ DbOK(s)'
  BY SMTT(60), <1>1, <1>2 DEF AuthOK, DbOK, BehindAuth
<1>4. ASSUME NEW t \in Server, t # s
      PROVE  (AuthOK(t) => AuthOK(t)') /\ (DbOK(t) => DbOK(t)')
  <2>1. \A x \in Range(imsg_q[t]) : req'[x] = req[x]
    BY <1>1, <1>4, QueuesTyped DEF Carried, OwnInv, CarriedOnce, Reset
  <2> QED BY <1>1, <1>2, <1>4, <2>1, SessionKept
<1> QED BY <1>3, <1>4 DEF SessionInv

-----------------------------------------------------------------------------
(* Types *)

\* A step keeps the types of what it leaves alone.
LEMMA SameTypes ==
    ASSUME TypeOK
    PROVE  /\ UNCHANGED <<req, nfrag_done, peer, frags, tmo>> => MsgTypes'
           /\ UNCHANGED <<done, error, fdone, ferror, swallow>> => FlagTypes'
           /\ UNCHANGED <<open, send_active, connecting, authenticated, eof, err>> => ConnTypes'
           /\ UNCHANGED <<c_omsg_q, imsg_q, s_omsg_q, frag_msgq>> => QueueTypes'
           /\ UNCHANGED <<recving, sending, pm_terminate, ntag>> => LoopTypes'
           /\ UNCHANGED <<wire, session, out>> => PeerTypes'
BY DEF TypeOK, MsgTypes, FlagTypes, ConnTypes, QueueTypes, LoopTypes, PeerTypes

\* One step: the read side of a client.
LEMMA ReadTypes ==
    ASSUME TypeOK, NEW c \in Client, NEW m \in Msg, NEW kind \in Kinds, ReadSingle(c, m, kind)
    PROVE  TypeOK'
<1>1. Message(kind, ntag + 1, 0, c, Nil, 0) \in Request
  BY SMTT(60) DEF ReadSingle, Message, Request, ClientKinds, TypeOK, LoopTypes
<1>2. MsgTypes'
  BY <1>1 DEF TypeOK, MsgTypes, ReadSingle
<1>3. QueueTypes' /\ LoopTypes'
  BY SMTT(60) DEF TypeOK, QueueTypes, LoopTypes, ReadSingle, serverVars, clientVars
<1>4. FlagTypes' /\ ConnTypes' /\ PeerTypes'
  BY SameTypes DEF ReadSingle, flagVars, clientVars, serverVars, connVars
<1> QED BY <1>2, <1>3, <1>4 DEF TypeOK

LEMMA ReadLocalTypes ==
    ASSUME TypeOK, NEW c \in Client, NEW m \in Msg, ReadLocal(c, m)
    PROVE  TypeOK'
<1>1. Message("local", ntag + 1, 0, c, Nil, 0) \in Request /\ <<ntag + 1, 0>> \in Identity
  BY SMTT(60) DEF Message, Request, ClientKinds, Identity, TypeOK, LoopTypes
<1>2. MsgTypes'
  BY <1>1 DEF TypeOK, MsgTypes, ReadLocal
<1>3. FlagTypes' /\ ConnTypes'
  BY DEF TypeOK, FlagTypes, ConnTypes, ReadLocal, serverVars
<1>4. QueueTypes' /\ LoopTypes'
  BY SMTT(60) DEF TypeOK, QueueTypes, LoopTypes, ReadLocal, serverVars
<1>5. PeerTypes'
  BY SameTypes DEF ReadLocal
<1> QED BY <1>2, <1>3, <1>4, <1>5 DEF TypeOK

LEMMA ReadVectorTypes ==
    ASSUME TypeOK, NEW c \in Client, NEW m \in Msg, NEW q \in Seq(Msg), NEW kind \in Kinds,
           ReadVector(c, m, q, kind)
    PROVE  TypeOK'
<1>1. <<ntag + 1, 0>> \in Identity /\ ntag + 1 \in Nat /\ Len(q) \in Nat
  BY SMTT(60) DEF Identity, TypeOK, LoopTypes
<1>2. \A x \in Range(q) : (CHOOSE i \in DOMAIN q : q[i] = x) \in Nat
  BY SMTT(60) DEF Range
<1>3. /\ Message(kind, ntag + 1, 0, c, m, Len(q)) \in Request
      /\ \A i \in Nat : Message(kind, ntag + 1, i, c, m, 0) \in Request
  BY <1>1 DEF Message, Request, ReadVector, VectorKinds, ClientKinds
<1>4. req' \in [Msg -> Request]
  BY <1>2, <1>3 DEF TypeOK, MsgTypes, ReadVector
<1>5. MsgTypes'
  BY <1>1, <1>4 DEF TypeOK, MsgTypes, ReadVector
<1>6. FlagTypes' /\ ConnTypes'
  BY DEF TypeOK, FlagTypes, ConnTypes, ReadVector, connVars, serverVars
<1>7. QueueTypes' /\ LoopTypes'
  BY SMTT(60), <1>1 DEF TypeOK, QueueTypes, LoopTypes, ReadVector, serverVars
<1>8. PeerTypes'
  BY SameTypes DEF ReadVector
<1> QED BY <1>5, <1>6, <1>7, <1>8 DEF TypeOK

\* One step: req_forward.
LEMMA ResetTyped ==
    ASSUME NEW T, NEW f \in [Msg -> T], NEW S, NEW v \in T
    PROVE  Reset(f, S, v) \in [Msg -> T]
BY DEF Reset

LEMMA ProxyMsgTyped ==
    ASSUME NEW due, NEW a \in ProxyMsg(due)
    PROVE  a \in Seq(Msg)
<1>1. CASE a = <<>>
  BY SMTT(60), <1>1
<1>2. CASE \E x \in Free : a = <<x>>
  BY SMTT(60), <1>2 DEF Free
<1> QED BY <1>1, <1>2 DEF ProxyMsg

LEMMA EnqueueTyped ==
    ASSUME TypeOK, NEW c, NEW m \in Msg, EnqueueOutq(c, m)
    PROVE  c_omsg_q' \in [Client -> Seq(Msg)] /\ frags' \in [Msg -> SUBSET Msg]
<1>1. \A q \in Seq(Msg) : Append(q, m) \in Seq(Msg)
  BY SMTT(60)
<1>2. c_omsg_q' \in [Client -> Seq(Msg)]
  BY <1>1 DEF TypeOK, QueueTypes, EnqueueOutq
<1>3. frags' \in [Msg -> SUBSET Msg]
  BY DEF TypeOK, MsgTypes, EnqueueOutq
<1> QED BY <1>2, <1>3

LEMMA ReqForwardTypes ==
    ASSUME TypeOK, NEW s \in Server, ReqForward(s)
    PROVE  TypeOK'
<1>1. PICK m : m = Head(frag_msgq)
  OBVIOUS
<1>2. PICK auth \in ProxyMsg(RequireAuth /\ s \notin authenticated) :
         /\ req' = Reset(req, Range(auth), Message("auth", 0, 0, recving, Nil, 0))
         /\ swallow' = swallow \cup Range(auth)
         /\ imsg_q' = [imsg_q EXCEPT ![s] = imsg_q[s] \o auth \o <<m>>]
         /\ authenticated' = IF RequireAuth THEN authenticated \cup {s} ELSE authenticated
         /\ tmo' = TmoInsert(Range(auth) \cup {x \in {m} : ~Noreply(x)}, s)
  BY <1>1 DEF ReqForward
<1>3. m \in Msg /\ Tail(frag_msgq) \in Seq(Msg) /\ auth \in Seq(Msg) /\ Range(auth) \subseteq Msg
  BY <1>1, QueuedIsMsg, ProxyMsgTyped, RangeOfSeq DEF ReqForward
<1>4. c_omsg_q' \in [Client -> Seq(Msg)] /\ frags' \in [Msg -> SUBSET Msg]
  BY <1>1, <1>3, EnqueueTyped DEF ReqForward
<1>5. req' \in [Msg -> Request]
  <2>1. Message("auth", 0, 0, recving, Nil, 0) \in Request
    BY DEF Message, Request, ProxyKinds, TypeOK, LoopTypes
  <2> QED BY <1>2, <2>1, ResetTyped DEF TypeOK, MsgTypes
<1>6. tmo' \in [Msg -> Server \cup {Nil}]
  BY <1>2, ResetTyped DEF TmoInsert, TypeOK, MsgTypes
<1>7. MsgTypes'
  BY <1>4, <1>5, <1>6 DEF TypeOK, MsgTypes, ReqForward
<1>8. FlagTypes'
  BY <1>2, <1>3 DEF TypeOK, FlagTypes, ReqForward
<1>9. ConnTypes'
  BY DEF TypeOK, ConnTypes, ReqForward
<1>10. QueueTypes'
  <2>1. \A q \in Seq(Msg) : q \o auth \o <<m>> \in Seq(Msg)
    BY SMTT(60), <1>3
  <2>2. imsg_q' \in [Server -> Seq(Msg)]
    BY <1>2, <2>1 DEF TypeOK, QueueTypes
  <2> QED BY <1>3, <1>4, <2>2 DEF TypeOK, QueueTypes, ReqForward, ForwardNext
<1>11. LoopTypes' /\ PeerTypes'
  BY SameTypes DEF TypeOK, LoopTypes, ReqForward, ForwardNext, envVars
<1> QED BY <1>7, <1>8, <1>9, <1>10, <1>11 DEF TypeOK

LEMMA ReqForwardErrorTypes ==
    ASSUME TypeOK, ReqForwardError
    PROVE  TypeOK'
<1>1. PICK m : m = Head(frag_msgq)
  OBVIOUS
<1>2. m \in Msg /\ Tail(frag_msgq) \in Seq(Msg)
  BY <1>1, QueuedIsMsg DEF ReqForwardError
<1>3. c_omsg_q' \in [Client -> Seq(Msg)] /\ frags' \in [Msg -> SUBSET Msg]
  BY <1>1, <1>2, EnqueueTyped DEF ReqForwardError
<1>4. PICK S : req' = Reset(req, S, Blank)
  BY DEF ReqForwardError
<1>5. MsgTypes'
  <2>1. Blank \in Request
    BY DEF Blank, Message, Request
  <2>2. req' \in [Msg -> Request]
    BY <1>4, <2>1, ResetTyped DEF TypeOK, MsgTypes
  <2> QED BY <1>3, <2>2 DEF TypeOK, MsgTypes, ReqForwardError
<1>6. done' \subseteq Msg /\ error' \subseteq Msg
  BY <1>1, <1>2 DEF TypeOK, FlagTypes, ReqForwardError
<1>7. PICK C, gone : /\ C \subseteq {recving} /\ CheckHeads(C, gone)
                     /\ send_active' = send_active \cup Answered(C)
  BY DEF ReqForwardError
<1>8. FlagTypes'
  BY <1>6, <1>7, HeadsTyped DEF TypeOK, FlagTypes, ReqForwardError
<1>9. ConnTypes'
  <2>1. err' \subseteq err \cup {recving} /\ send_active' \subseteq send_active \cup {recving}
    BY <1>7, HeadsTyped
  <2> QED BY <2>1 DEF TypeOK, ConnTypes, LoopTypes, ReqForwardError, serverVars
<1>10. QueueTypes'
  BY <1>2, <1>3 DEF TypeOK, QueueTypes, ReqForwardError, ForwardNext, serverVars
<1>11. LoopTypes' /\ PeerTypes'
  BY SameTypes DEF TypeOK, LoopTypes, ReqForwardError, ForwardNext, envVars
<1> QED BY <1>5, <1>8, <1>9, <1>10, <1>11 DEF TypeOK

\* One step: the servers.
LEMMA BlankTyped == Blank \in Request
BY DEF Blank, Message, Request

LEMMA ServerConnectedTypes ==
    ASSUME TypeOK, NEW s \in Server, ServerConnected(s)
    PROVE  TypeOK'
<1>1. PICK select \in ProxyMsg(SelectDb) :
         /\ req' = Reset(req, Range(select), Message("select", 0, 0, Nil, Nil, 0))
         /\ swallow' = swallow \cup Range(select)
         /\ imsg_q' = [imsg_q EXCEPT ![s] = select \o imsg_q[s]]
         /\ tmo' = TmoInsert(Range(select), s)
  BY DEF ServerConnected
<1>2. select \in Seq(Msg) /\ Range(select) \subseteq Msg
  BY ProxyMsgTyped, RangeOfSeq
<1>3. req' \in [Msg -> Request]
  <2>1. Message("select", 0, 0, Nil, Nil, 0) \in Request
    BY DEF Message, Request, ProxyKinds
  <2> QED BY <1>1, <2>1, ResetTyped DEF TypeOK, MsgTypes
<1>4. tmo' \in [Msg -> Server \cup {Nil}]
  BY <1>1, ResetTyped DEF TmoInsert, TypeOK, MsgTypes
<1>5. MsgTypes'
  BY <1>3, <1>4 DEF TypeOK, MsgTypes, ServerConnected
<1>6. FlagTypes' /\ ConnTypes'
  BY <1>1, <1>2 DEF TypeOK, FlagTypes, ConnTypes, ServerConnected, clientVars, connVars
<1>7. QueueTypes'
  <2>1. \A q \in Seq(Msg) : select \o q \in Seq(Msg)
    BY SMTT(60), <1>2
  <2> QED BY <1>1, <2>1 DEF TypeOK, QueueTypes, ServerConnected, clientVars, loopVars
<1>8. LoopTypes' /\ PeerTypes'
  BY SameTypes DEF ServerConnected, loopVars, envVars
<1> QED BY <1>5, <1>6, <1>7, <1>8 DEF TypeOK

LEMMA ReqSendDoneTypes ==
    ASSUME TypeOK, NEW s \in Server, ReqSendDone(s)
    PROVE  TypeOK'
<1>1. /\ Head(imsg_q[s]) \in Msg /\ Tail(imsg_q[s]) \in Seq(Msg)
      /\ Append(s_omsg_q[s], Head(imsg_q[s])) \in Seq(Msg)
  BY SMTT(60) DEF ReqSendDone, TypeOK, QueueTypes
<1>2. PICK S : req' = Reset(req, S, Blank)
  BY DEF ReqSendDone
<1>3. req' \in [Msg -> Request]
  BY <1>2, BlankTyped, ResetTyped DEF TypeOK, MsgTypes
<1>4. MsgTypes'
  BY <1>3 DEF TypeOK, MsgTypes, ReqSendDone
<1>5. QueueTypes'
  BY <1>1 DEF TypeOK, QueueTypes, ReqSendDone, clientVars, loopVars
<1>6. PeerTypes'
  <2>1. Append(wire[s], Id(Head(imsg_q[s]))) \in Seq(Identity)
    BY SMTT(60), <1>1 DEF TypeOK, PeerTypes, MsgTypes, Id, Request, Identity
  <2>2. \A kind : Granted(s, kind) \subseteq {"auth", "db"}
    BY DEF Granted
  <2> QED BY <2>1, <2>2 DEF TypeOK, PeerTypes, ReqSendDone
<1>7. FlagTypes' /\ ConnTypes' /\ LoopTypes'
  BY SameTypes DEF ReqSendDone, flagVars, clientVars, connVars, loopVars
<1> QED BY <1>4, <1>5, <1>6, <1>7 DEF TypeOK

LEMMA EarlyAnswerTypes ==
    ASSUME TypeOK, NEW s \in Server, EarlyAnswer(s)
    PROVE  TypeOK'
<1>1. Append(wire[s], Id(Head(imsg_q[s]))) \in Seq(Identity)
  <2>1. Head(imsg_q[s]) \in Msg
    BY SMTT(60) DEF EarlyAnswer, TypeOK, QueueTypes
  <2> QED BY SMTT(60), <2>1 DEF TypeOK, PeerTypes, MsgTypes, Id, Request, Identity
<1>2. PeerTypes'
  BY <1>1 DEF TypeOK, PeerTypes, EarlyAnswer
<1>3. MsgTypes' /\ FlagTypes' /\ ConnTypes' /\ QueueTypes' /\ LoopTypes'
  BY SameTypes DEF EarlyAnswer, msgVars, flagVars, clientVars, serverVars, connVars, loopVars
<1> QED BY <1>2, <1>3 DEF TypeOK

LEMMA ServerCloseTypes ==
    ASSUME TypeOK, NEW s \in Server, NEW expired, ServerClose(s, expired),
           nfrag_done' \in [Msg -> Nat]
    PROVE  TypeOK'
<1>10. \A m \in Carried(s) : m \in Msg /\ req[m].owner \in Client \cup {Nil}
  BY QueuedIsMsg DEF TypeOK, MsgTypes, Request
<1> DEFINE gone == {m \in Carried(s) : m \in swallow \/ Noreply(m)}
           lost == Carried(s) \ gone
           awake == {req[m].owner : m \in lost}
<1>1. lost \subseteq Msg /\ awake \subseteq Client \cup {Nil}
  BY <1>10
<1>2. MsgTypes'
  <2>1. req' \in [Msg -> Request]
    BY BlankTyped, ResetTyped DEF TypeOK, MsgTypes, ServerClose
  <2>2. tmo' \in [Msg -> Server \cup {Nil}]
    BY ResetTyped DEF TypeOK, MsgTypes, ServerClose
  <2> QED BY <2>1, <2>2 DEF TypeOK, MsgTypes, ServerClose
<1>3. /\ done' = done \cup lost /\ error' = error \cup lost /\ swallow' = swallow \ gone
      /\ ferror' = ferror /\ CheckHeads(awake, gone)
      /\ send_active' = (send_active \cup Answered(awake)) \ {s}
  BY DEF ServerClose
<1> HIDE DEF lost, gone, awake
<1>4. /\ fdone' \subseteq fdone \cup done' /\ err' \subseteq err \cup awake
      /\ Answered(awake) \subseteq awake
  BY <1>3, HeadsTyped
<1>5. FlagTypes'
  BY <1>1, <1>3, <1>4 DEF TypeOK, FlagTypes
<1>6. ConnTypes'
  <2>1. /\ open' = open \ {s} /\ connecting' = connecting \ {s}
        /\ authenticated' = authenticated \ {s} /\ eof' = eof
    BY DEF ServerClose
  <2> QED BY <1>1, <1>3, <1>4, <2>1 DEF TypeOK, ConnTypes
<1>7. QueueTypes' /\ LoopTypes' /\ PeerTypes'
  <2>1. /\ imsg_q' = [imsg_q EXCEPT ![s] = <<>>] /\ s_omsg_q' = [s_omsg_q EXCEPT ![s] = <<>>]
        /\ wire' = [wire EXCEPT ![s] = <<>>] /\ session' = [session EXCEPT ![s] = {}]
        /\ UNCHANGED <<c_omsg_q, frag_msgq, recving, sending, pm_terminate, ntag, out>>
    BY DEF ServerClose, loopVars
  <2> QED BY SMTT(60), <2>1 DEF TypeOK, QueueTypes, LoopTypes, PeerTypes
<1> QED BY <1>2, <1>5, <1>6, <1>7 DEF TypeOK

LEMMA TimeoutSkipTypes ==
    ASSUME TypeOK, NEW m \in Msg, TimeoutSkip(m)
    PROVE  TypeOK'
<1>1. MsgTypes'
  BY DEF TypeOK, MsgTypes, TimeoutSkip
<1>2. FlagTypes' /\ ConnTypes' /\ QueueTypes' /\ LoopTypes' /\ PeerTypes'
  BY SameTypes DEF TimeoutSkip, flagVars, clientVars, serverVars, connVars, loopVars, envVars
<1> QED BY <1>1, <1>2 DEF TypeOK

LEMMA RspSwallowTypes ==
    ASSUME TypeOK, NEW s \in Server, RspSwallow(s)
    PROVE  TypeOK'
<1>1. Tail(s_omsg_q[s]) \in Seq(Msg) /\ Tail(wire[s]) \in Seq(Identity)
  BY SMTT(60) DEF RspSwallow, CanAnswer, TypeOK, QueueTypes, PeerTypes
<1>2. req' \in [Msg -> Request]
  BY BlankTyped, ResetTyped DEF TypeOK, MsgTypes, RspSwallow
<1>3. MsgTypes'
  BY <1>2 DEF TypeOK, MsgTypes, RspSwallow
<1>4. FlagTypes' /\ QueueTypes' /\ PeerTypes'
  BY <1>1 DEF TypeOK, FlagTypes, QueueTypes, PeerTypes, RspSwallow, clientVars, loopVars
<1>5. ConnTypes' /\ LoopTypes'
  BY SameTypes DEF RspSwallow, clientVars, connVars, loopVars
<1> QED BY <1>3, <1>4, <1>5 DEF TypeOK

LEMMA RspForwardTypes ==
    ASSUME TypeOK, NEW s \in Server, NEW bad \in BOOLEAN, RspForward(s, bad)
    PROVE  TypeOK'
<1>1. /\ Tail(s_omsg_q[s]) \in Seq(Msg) /\ Head(s_omsg_q[s]) \in Msg
      /\ Tail(wire[s]) \in Seq(Identity) /\ Head(wire[s]) \in Identity
  BY SMTT(60) DEF RspForward, CanAnswer, TypeOK, QueueTypes, PeerTypes
<1>2. PICK c, m : /\ m = Head(s_omsg_q[s]) /\ c = req[m].owner
                  /\ done' = done \cup {m} /\ error' \subseteq error \cup {m}
                  /\ CheckHeads({c}, {})
                  /\ send_active' = send_active \cup Answered({c})
  BY DEF RspForward
<1>3. m \in Msg /\ c \in Client \cup {Nil}
  BY <1>1, <1>2 DEF TypeOK, MsgTypes, Request
<1>4. MsgTypes'
  <2>1. nfrag_done' \in [Msg -> Nat]
    <3>1. \/ nfrag_done' = nfrag_done
          \/ \E x : nfrag_done' = [nfrag_done EXCEPT ![x] = nfrag_done[x] + 1]
      BY DEF RspForward
    <3>2. nfrag_done \in [Msg -> Nat]
      BY DEF TypeOK, MsgTypes
    <3> QED BY SMTT(60), <3>1, <3>2
  <2>2. peer' \in [Msg -> Identity] /\ tmo' \in [Msg -> Server \cup {Nil}]
    BY <1>1 DEF TypeOK, MsgTypes, RspForward
  <2> QED BY <2>1, <2>2 DEF TypeOK, MsgTypes, RspForward
<1>5. fdone' \subseteq fdone \cup done' /\ err' \subseteq err \cup {c} /\ Answered({c}) \subseteq {c}
  BY <1>2, HeadsTyped
<1>6. FlagTypes'
  BY <1>2, <1>3, <1>5 DEF TypeOK, FlagTypes, RspForward
<1>7. ConnTypes'
  BY <1>2, <1>3, <1>5 DEF TypeOK, ConnTypes, RspForward
<1>8. QueueTypes' /\ PeerTypes'
  BY <1>1 DEF TypeOK, QueueTypes, PeerTypes, RspForward, loopVars
<1>9. LoopTypes'
  BY SameTypes DEF RspForward, loopVars
<1> QED BY <1>4, <1>6, <1>7, <1>8, <1>9 DEF TypeOK

\* One step: the write side of a client, and its close.

LEMMA RspSendNextTypes ==
    ASSUME TypeOK, NEW c \in Client, NEW i \in 1..Len(c_omsg_q[c]), RspSendNext(c, i)
    PROVE  TypeOK'
<1>1. PICK m : m = c_omsg_q[c][i]
  OBVIOUS
<1>2. m \in Msg
  BY SMTT(60), <1>1 DEF TypeOK, QueueTypes
<1>3. MsgTypes'
  <2>1. req' \in [Msg -> Request]
    BY BlankTyped, ResetTyped DEF TypeOK, MsgTypes, RspSendNext
  <2>2. NoAnswer \in Identity
    BY DEF NoAnswer, Identity
  <2>3. peer' \in [Msg -> Identity] /\ tmo' \in [Msg -> Server \cup {Nil}]
    BY <2>2, ResetTyped DEF TypeOK, MsgTypes, RspSendNext
  <2> QED BY <2>1, <2>3 DEF TypeOK, MsgTypes, RspSendNext
<1>4. FlagTypes' /\ ConnTypes'
  BY <1>1, <1>2 DEF TypeOK, FlagTypes, ConnTypes, RspSendNext, serverVars, connVars
<1>5. QueueTypes' /\ LoopTypes' /\ PeerTypes'
  BY DEF TypeOK, QueueTypes, LoopTypes, PeerTypes, RspSendNext, serverVars, envVars
<1> QED BY <1>3, <1>4, <1>5 DEF TypeOK

LEMMA RspSendDoneTypes ==
    ASSUME TypeOK, NEW c \in Client, RspSendDone(c)
    PROVE  TypeOK'
<1>1. HeadOf(c) \in Msg /\ Tail(c_omsg_q[c]) \in Seq(Msg)
  <2>1. c_omsg_q[c] # <<>>
    BY DEF RspSendDone
  <2> QED BY SMTT(60), <2>1 DEF HeadOf, TypeOK, QueueTypes
<1>2. MsgTypes'
  <2>1. req' \in [Msg -> Request]
    BY BlankTyped, ResetTyped DEF TypeOK, MsgTypes, RspSendDone
  <2>2. NoAnswer \in Identity
    BY DEF NoAnswer, Identity
  <2> QED BY <2>1, <2>2 DEF TypeOK, MsgTypes, RspSendDone
<1>3. FlagTypes' /\ QueueTypes'
  BY <1>1 DEF TypeOK, FlagTypes, QueueTypes, RspSendDone, serverVars
<1>4. PeerTypes'
  <2>1. Id(HeadOf(c)) \in Identity /\ peer[HeadOf(c)] \in Identity
    BY <1>1 DEF TypeOK, MsgTypes, Id, Request, Identity
  <2>2. \A x \in Identity, b \in BOOLEAN : [id |-> x, ok |-> b] \in Outcome
    BY DEF Outcome
  <2> QED BY <2>1, <2>2 DEF TypeOK, PeerTypes, RspSendDone
<1>5. LoopTypes'
  BY DEF TypeOK, LoopTypes, RspSendDone
<1>6. ConnTypes'
  BY SameTypes DEF RspSendDone, serverVars, connVars
<1> QED BY <1>2, <1>3, <1>4, <1>5, <1>6 DEF TypeOK

LEMMA ClientCloseTypes ==
    ASSUME TypeOK, NEW c \in Client, ClientClose(c)
    PROVE  TypeOK'
<1>1. MsgTypes'
  <2>1. req' \in [Msg -> Request]
    BY BlankTyped, ResetTyped DEF TypeOK, MsgTypes, ClientClose
  <2>2. NoAnswer \in Identity /\ 0 \in Nat
    BY DEF NoAnswer, Identity
  <2>3. peer' \in [Msg -> Identity] /\ nfrag_done' \in [Msg -> Nat]
    BY <2>2, ResetTyped DEF TypeOK, MsgTypes, ClientClose
  <2>4. tmo' \in [Msg -> Server \cup {Nil}] /\ frags' \in [Msg -> SUBSET Msg]
    BY ResetTyped DEF TypeOK, MsgTypes, ClientClose
  <2> QED BY <2>1, <2>3, <2>4 DEF MsgTypes
<1>2. FlagTypes'
  <2>1. Held(c) \subseteq Msg
    <3>1. Range(c_omsg_q[c]) \subseteq Msg
      BY QueuedIsMsg
    <3>2. \A m \in Msg : frags[m] \subseteq Msg
      BY DEF TypeOK, MsgTypes
    <3> QED BY <3>1, <3>2 DEF Held, Behind
  <2> QED BY <2>1 DEF TypeOK, FlagTypes, ClientClose
<1>3. ConnTypes' /\ LoopTypes'
  BY DEF TypeOK, ConnTypes, LoopTypes, ClientClose, serverVars
<1>4. QueueTypes'
  <2>1. /\ c_omsg_q' = [c_omsg_q EXCEPT ![c] = <<>>]
        /\ UNCHANGED <<imsg_q, s_omsg_q, frag_msgq>>
    BY DEF ClientClose, serverVars
  <2> QED BY SMTT(60), <2>1 DEF TypeOK, QueueTypes
<1>5. PeerTypes'
  <2>1. NoReply \in Outcome
    BY DEF NoReply, NoAnswer, Outcome, Identity
  <2> QED BY <2>1 DEF TypeOK, PeerTypes, ClientClose
<1> QED BY <1>1, <1>2, <1>3, <1>4, <1>5 DEF TypeOK

\* One step: handlers that move no message.
LEMMA QuietTypes ==
    ASSUME TypeOK,
           \/ \E c \in Client : Accept(c) \/ ReadEof(c) \/ RspSendIdle(c)
           \/ \E s \in Server : ReqSendIdle(s)
           \/ Terminate
    PROVE  TypeOK'
<1>1. ASSUME NEW c \in Client, Accept(c) \/ ReadEof(c) \/ RspSendIdle(c)
      PROVE  ConnTypes' /\ LoopTypes'
  BY <1>1 DEF TypeOK, ConnTypes, LoopTypes, Accept, ReadEof, RspSendIdle,
              clientVars, serverVars, connVars, loopVars, envVars
<1>2. ASSUME NEW s \in Server, ReqSendIdle(s)
      PROVE  ConnTypes' /\ LoopTypes'
  BY <1>2 DEF TypeOK, ConnTypes, LoopTypes, ReqSendIdle, clientVars, serverVars, loopVars, envVars
<1>3. Terminate => ConnTypes' /\ LoopTypes'
  BY DEF TypeOK, ConnTypes, LoopTypes, Terminate, clientVars, serverVars, connVars, envVars
<1>4. UNCHANGED <<msgVars, c_omsg_q, imsg_q, s_omsg_q, frag_msgq, wire, session, out>>
  BY DEF Accept, ReadEof, RspSendIdle, ReqSendIdle, Terminate,
         clientVars, serverVars, loopVars, envVars
<1>5. MsgTypes' /\ FlagTypes' /\ QueueTypes' /\ PeerTypes'
  BY <1>4, SameTypes DEF msgVars, flagVars
<1> QED BY <1>1, <1>2, <1>3, <1>5 DEF TypeOK

-----------------------------------------------------------------------------
(* Links *)

LEMMA InitLinks == Init => LinkInv
<1> SUFFICES ASSUME Init
             PROVE  LinkInv
  OBVIOUS
<1>1. /\ \A m \in Msg : m \in Free /\ tmo[m] = Nil
      /\ error = {} /\ \A s \in Server : imsg_q[s] = <<>> /\ s_omsg_q[s] = <<>>
  BY DEF Init, Free
<1>2. \A s \in Server : Carried(s) = {}
  BY <1>1, RangeEmpty DEF Carried
<1> QED BY <1>1, <1>2 DEF LinkInv, OwnersOK, KeptOK, TimersOK

\* A timer that core_timeout finds on a finished request is only deleted.
LEMMA QuietLinks ==
    ASSUME TypeOK, OwnInv, LinkInv,
           \/ UNCHANGED tmo
           \/ \E m \in done \cup error : tmo' = [tmo EXCEPT ![m] = Nil],
           UNCHANGED <<req, done, error, swallow, c_omsg_q, imsg_q, s_omsg_q, frag_msgq>>
    PROVE  LinkInv'
<1>1. /\ \A c \in Client : Requests(c)' = Requests(c)
      /\ \A s \in Server : Carried(s)' = Carried(s)
      /\ Forwarding' = Forwarding /\ Free' = Free
      /\ \A m : Noreply(m)' <=> Noreply(m)
  BY DEF Requests, Carried, Forwarding, Free, Noreply
<1>2. \A m \in Msg : tmo'[m] = tmo[m] \/ (tmo'[m] = Nil /\ m \in done)
  <2>1. ASSUME NEW x \in done \cup error, tmo' = [tmo EXCEPT ![x] = Nil]
        PROVE  \A m \in Msg : tmo'[m] = tmo[m] \/ (tmo'[m] = Nil /\ m \in done)
    <3>1. tmo \in [Msg -> Server \cup {Nil}] /\ x \in done
      BY DEF LinkInv, TypeOK, MsgTypes
    <3>2. \A m \in Msg : m # x => tmo'[m] = tmo[m]
      BY <2>1, <3>1
    <3>3. x \in Msg => tmo'[x] = Nil
      BY <2>1, <3>1
    <3> QED BY <3>1, <3>2, <3>3
  <2>2. CASE UNCHANGED tmo
    BY <2>2
  <2> QED BY <2>1, <2>2
<1>3. OwnersOK' /\ KeptOK'
  BY SMTT(60), <1>1, QueuesTyped DEF LinkInv, OwnersOK, KeptOK
<1>4. TimersOK'
  <2>1. \A s \in Server : \A m \in Carried(s) : m \in Msg /\ m \notin done
    BY QueuesTyped DEF OwnInv, ServersOK
  <2>2. ASSUME NEW m \in Msg, tmo'[m] # Nil, m \notin done
        PROVE  m \in Carried(tmo[m])'
    <3>1. tmo'[m] = tmo[m]
      BY <1>2, <2>2
    <3>2. m \in Carried(tmo[m]) /\ tmo[m] \in Server
      BY <2>2, <3>1 DEF LinkInv, TimersOK, TypeOK, MsgTypes
    <3>3. PICK t \in Server : t = tmo[m]
      BY <3>2
    <3> QED BY <1>1, <3>1, <3>2, <3>3
  <2>3. HasTimeout => \A s \in Server : \A m \in Carried(s)' : ~Noreply(m)' => tmo'[m] = s
    BY SMTT(60), <1>1, <1>2, <2>1 DEF LinkInv, TimersOK
  <2> QED BY <2>2, <2>3 DEF TimersOK
<1> QED BY <1>3, <1>4 DEF LinkInv

\* A message that is read comes from the pool, and no server carries it yet.
LEMMA ReadLinks ==
    ASSUME TypeOK, OwnInv, LinkInv, NEW new \in SUBSET Msg, \A m \in new : m \in Free,
           \A m \in Msg : m \notin new => req'[m] = req[m],
           \A m \in Msg : m \notin new => (m \in done' <=> m \in done),
           \A m \in new : m \in done' \/ m \in Forwarding',
           \A c \in Client : Requests(c) \subseteq Requests(c)',
           frag_msgq = <<>>, done \subseteq done', UNCHANGED <<error, swallow, tmo, imsg_q, s_omsg_q>>
    PROVE  LinkInv'
<1>1. \A m \in new : /\ \A s \in Server : m \notin Carried(s)
                     /\ m \in Msg /\ tmo[m] = Nil
  BY FreeNowhere
<1>2. \A s \in Server : Carried(s)' = Carried(s)
  BY DEF Carried
<1>3. \A m \in Msg : m \notin new => (m \in Free' <=> m \in Free) /\ (Noreply(m)' <=> Noreply(m))
  BY DEF Free, Noreply
<1>4. Forwarding = {}
  BY RangeEmpty DEF Forwarding
<1>5. \A s \in Server : \A m \in Carried(s) : m \in Msg /\ m \notin new
  BY <1>1, QueuesTyped
<1>6. OwnersOK'
  BY <1>2, <1>3, <1>5 DEF LinkInv, OwnersOK
<1>7. KeptOK'
  BY <1>2, <1>3, <1>4 DEF LinkInv, KeptOK
<1>8. TimersOK'
  <2>1. \A m \in Msg : tmo[m] # Nil /\ m \notin done' => m \in Carried(tmo[m])'
    <3> TAKE m \in Msg
    <3> HAVE tmo[m] # Nil /\ m \notin done'
    <3>1. m \notin new /\ m \in Carried(tmo[m]) /\ tmo[m] \in Server
      BY <1>1 DEF LinkInv, TimersOK, TypeOK, MsgTypes
    <3> QED BY <1>2, <3>1
  <2>2. HasTimeout => \A s \in Server : \A m \in Carried(s)' : ~Noreply(m)' => tmo[m] = s
    BY <1>2, <1>3, <1>5 DEF LinkInv, TimersOK
  <2>3. tmo' = tmo
    OBVIOUS
  <2> QED BY <2>1, <2>2, <2>3 DEF TimersOK
<1>9. error' \subseteq done'
  BY DEF LinkInv
<1> QED BY <1>6, <1>7, <1>8, <1>9 DEF LinkInv

LEMMA ReadSingleLinks ==
    ASSUME TypeOK, OwnInv, LinkInv, NEW c \in Client, NEW m \in Msg, NEW kind, ReadSingle(c, m, kind)
    PROVE  LinkInv'
<1>1. /\ m \in Free /\ req' = [req EXCEPT ![m] = Message(kind, ntag + 1, 0, c, Nil, 0)]
      /\ recving = Nil /\ frag_msgq' = <<m>>
      /\ UNCHANGED <<done, error, swallow, tmo, c_omsg_q, imsg_q, s_omsg_q>>
  BY DEF ReadSingle, CanRead, Idle, flagVars, clientVars, serverVars
<1>2. \A x \in Msg : x # m => req'[x] = req[x]
  BY <1>1 DEF TypeOK, MsgTypes
<1>3. frag_msgq = <<>> /\ Forwarding' = {m} /\ \A d \in Client : Requests(d)' = Requests(d)
  BY <1>1, RangeOne DEF OwnInv, ForwardOK, Forwarding, Requests
<1>4. PICK new \in SUBSET Msg : new = {m}
  OBVIOUS
<1> QED BY <1>1, <1>2, <1>3, <1>4, ReadLinks

LEMMA ReadLocalLinks ==
    ASSUME TypeOK, OwnInv, LinkInv, NEW c \in Client, NEW m \in Msg, ReadLocal(c, m)
    PROVE  LinkInv'
<1>1. /\ m \in Free /\ req' = [req EXCEPT ![m] = Message("local", ntag + 1, 0, c, Nil, 0)]
      /\ recving = Nil /\ done' = done \cup {m}
      /\ c_omsg_q' = [c_omsg_q EXCEPT ![c] = Append(@, m)]
      /\ UNCHANGED <<error, swallow, tmo, imsg_q, s_omsg_q>>
  BY DEF ReadLocal, CanRead, Idle, serverVars
<1>2. \A x \in Msg : x # m => req'[x] = req[x]
  BY <1>1 DEF TypeOK, MsgTypes
<1>3. frag_msgq = <<>> /\ \A d \in Client : m \notin Requests(d)
  BY <1>1, FreeNowhere DEF OwnInv, ForwardOK
<1>4. \A d \in Client : Requests(d) \subseteq Requests(d)'
  <2>1. /\ Requests(c)' = Requests(c) \cup {m}
        /\ \A d \in Client : d # c => Requests(d)' = Requests(d)
    BY <1>1, <1>3, QueuedOnClient
  <2> QED BY <2>1
<1>5. PICK new \in SUBSET Msg : new = {m}
  OBVIOUS
<1> QED BY <1>1, <1>2, <1>3, <1>4, <1>5, ReadLinks

LEMMA ReadVectorLinks ==
    ASSUME TypeOK, OwnInv, LinkInv, NEW c \in Client, NEW m \in Msg, NEW q \in Seq(Msg), NEW kind,
           ReadVector(c, m, q, kind)
    PROVE  LinkInv'
<1>1. /\ m \in Free /\ \A x \in Range(q) : x \in Free
      /\ recving = Nil /\ frag_msgq' = q /\ done' = done \cup {m}
      /\ c_omsg_q' = [c_omsg_q EXCEPT ![c] = Append(@, m)]
      /\ UNCHANGED <<error, swallow, tmo, imsg_q, s_omsg_q>>
  BY DEF ReadVector, CanRead, Idle, serverVars
<1>2. \A x \in Msg : x # m /\ x \notin Range(q) => req'[x] = req[x]
  BY DEF ReadVector
<1>3. frag_msgq = <<>> /\ \A d \in Client : m \notin Requests(d)
  BY <1>1, FreeNowhere DEF OwnInv, ForwardOK
<1>4. \A d \in Client : Requests(d) \subseteq Requests(d)'
  <2>1. /\ Requests(c)' = Requests(c) \cup {m}
        /\ \A d \in Client : d # c => Requests(d)' = Requests(d)
    BY <1>1, <1>3, QueuedOnClient
  <2> QED BY <2>1
<1>5. PICK new \in SUBSET Msg : new = {m} \cup Range(q)
  BY RangeOfSeq
<1>6. \A x \in new : x \in done' \/ x \in Forwarding'
  BY <1>1, <1>5 DEF Forwarding
<1> QED BY <1>1, <1>2, <1>3, <1>4, <1>5, <1>6, ReadLinks

\* req_forward: the message goes to the server together with its timer, and its
\* client holds it from now on.
LEMMA ReqForwardLinks ==
    ASSUME TypeOK, OwnInv, LinkInv, NEW s \in Server, ReqForward(s)
    PROVE  LinkInv'
<1>1. PICK m \in Msg, a \in SUBSET Msg : Forwarded(s, m, a)
  BY ReqForwardFacts
<1>2. /\ m \notin Free /\ m \notin swallow /\ m \notin done /\ m \notin a
      /\ req[m].owner = recving /\ recving \in Client
      /\ req[m].part # 0 => req[m].frag_owner \in Requests(recving)
      /\ \A d \in Client : d = recving /\ ~Noreply(m) /\ req[m].part = 0 => m \in Requests(d)'
  BY <1>1 DEF Forwarded
<1>3. /\ \A x \in a : x \notin Free' /\ ~Noreply(x)' /\ x \in Free
      /\ \A x \in Msg : x \notin a => /\ req'[x] = req[x]
                                      /\ (x \in Free' <=> x \in Free) /\ (Noreply(x)' <=> Noreply(x))
  BY <1>1 DEF Forwarded
<1>4. /\ swallow' = swallow \cup a /\ done' = done /\ error' = error
      /\ \A d \in Client : Requests(d) \subseteq Requests(d)'
      /\ \A x \in Forwarding : x = m \/ x \in Forwarding'
  BY <1>1 DEF Forwarded
<1>5. \A x \in Msg : IF HasTimeout /\ (x \in a \/ (x = m /\ ~Noreply(m)))
                     THEN tmo'[x] = s ELSE tmo'[x] = tmo[x]
  BY <1>1 DEF Forwarded
<1>6. /\ Carried(s)' = Carried(s) \cup a \cup {m}
      /\ \A t \in Server : t # s => Carried(t)' = Carried(t)
      /\ \A t \in Server : m \notin Carried(t)
  BY <1>1 DEF Forwarded
<1>7. \A x \in a : tmo[x] = Nil /\ \A t \in Server : x \notin Carried(t)
  BY <1>3, FreeNowhere
<1>8. \A t \in Server : \A x \in Carried(t)' : \/ x \in Carried(t) /\ x \in Msg /\ x \notin a /\ x # m
                                               \/ t = s /\ (x = m \/ x \in a)
  BY <1>6, <1>7, QueuesTyped
<1>9. OwnersOK'
  <2> SUFFICES ASSUME NEW t \in Server, NEW x \in Carried(t)', x \notin swallow', ~Noreply(x)'
               PROVE  /\ req'[x].owner \in Client
                      /\ req'[x].part = 0 => x \in Requests(req[x].owner)'
                      /\ req'[x].part # 0 => req'[x].frag_owner \in Requests(req[x].owner)'
    BY DEF OwnersOK
  <2>1. CASE x \in Carried(t) /\ x \in Msg /\ x \notin a /\ x # m
    <3>1. /\ req'[x] = req[x] /\ x \notin swallow /\ ~Noreply(x)
      BY <1>3, <1>4, <2>1
    <3>2. /\ req[x].owner \in Client
          /\ req[x].part = 0 => x \in Requests(req[x].owner)
          /\ req[x].part # 0 => req[x].frag_owner \in Requests(req[x].owner)
      BY <2>1, <3>1 DEF LinkInv, OwnersOK
    <3>3. PICK d \in Client : d = req[x].owner
      BY <3>2
    <3> QED BY <1>4, <3>1, <3>2, <3>3
  <2>2. CASE x = m
    <3>1. req'[m] = req[m] /\ ~Noreply(m)
      BY <1>2, <1>3, <2>2
    <3>2. PICK d \in Client : d = recving
      BY <1>2
    <3>3. req[m].part # 0 => req[m].frag_owner \in Requests(d)'
      BY <1>2, <1>4, <3>2
    <3> QED BY <1>2, <2>2, <3>1, <3>2, <3>3
  <2> QED BY <1>4, <1>8, <2>1, <2>2
<1>10. KeptOK'
  <2> SUFFICES ASSUME NEW x \in Msg, x \notin Free', x \notin done'
               PROVE  x \in Forwarding' \/ \E t \in Server : x \in Carried(t)'
    BY DEF KeptOK
  <2>1. CASE x = m \/ x \in a
    BY <1>6, <2>1
  <2>2. CASE x # m /\ x \notin a
    <3>1. x \in Forwarding \/ \E t \in Server : x \in Carried(t)
      BY <1>3, <1>4, <2>2 DEF LinkInv, KeptOK
    <3>2. \A t \in Server : x \in Carried(t) => x \in Carried(t)'
      BY <1>6
    <3> QED BY <1>4, <2>2, <3>1, <3>2
  <2> QED BY <2>1, <2>2
<1>11. TimersOK'
  <2>1. ASSUME NEW x \in Msg, tmo'[x] # Nil, x \notin done'
        PROVE  x \in Carried(tmo[x])'
    <3>1. CASE tmo'[x] = s /\ (x \in a \/ x = m)
      BY <1>6, <3>1 DEF Carried
    <3>2. CASE tmo'[x] = tmo[x]
      <4>1. x \in Carried(tmo[x]) /\ tmo[x] \in Server
        BY <1>4, <2>1, <3>2 DEF LinkInv, TimersOK, TypeOK, MsgTypes
      <4>2. PICK t \in Server : t = tmo[x]
        BY <4>1
      <4>3. x \in Carried(t)'
        BY <1>6, <4>1, <4>2
      <4> QED BY <3>2, <4>2, <4>3 DEF Carried
    <3> QED BY <1>5, <3>1, <3>2
  <2>2. ASSUME HasTimeout, NEW t \in Server, NEW x \in Carried(t)', ~Noreply(x)'
        PROVE  tmo'[x] = t
    <3>1. CASE x \in Carried(t) /\ x \in Msg /\ x \notin a /\ x # m
      BY <1>3, <1>5, <2>2, <3>1 DEF LinkInv, TimersOK
    <3>2. CASE t = s /\ (x = m \/ x \in a)
      BY <1>2, <1>3, <1>5, <2>2, <3>2
    <3> QED BY <1>8, <3>1, <3>2
  <2> QED BY <2>1, <2>2 DEF TimersOK
<1> QED BY <1>4, <1>9, <1>10, <1>11 DEF LinkInv

\* req_forward_error: the message is finished without a server.
LEMMA ReqForwardErrorLinks ==
    ASSUME TypeOK, TypeOK', OwnInv, LinkInv, ReqForwardError
    PROVE  LinkInv'
<1>1. PICK m \in Msg, gone \in SUBSET Msg : ForwardFailed(m, gone)
  BY ForwardErrorFacts
<1>2. /\ \A x : x \in gone => x = m /\ Noreply(m)
      /\ \A x \in Msg : x \notin gone => req'[x] = req[x]
      /\ \A x \in Msg : x \in Free' <=> x \in Free \/ x \in gone
      /\ \A x \in Msg : Noreply(x)' <=> Noreply(x) /\ x \notin gone
      /\ done' = done \cup ({m} \ gone) /\ error' = error \cup ({m} \ gone)
  BY <1>1 DEF ForwardFailed
<1>3. /\ \A d \in Client : Requests(d) \subseteq Requests(d)'
      /\ \A x \in Forwarding : x = m \/ x \in Forwarding'
      /\ \A t \in Server : m \notin Carried(t) /\ Carried(t)' = Carried(t)
      /\ swallow' = swallow /\ tmo' = tmo
  BY <1>1 DEF ForwardFailed
<1>4. \A t \in Server : \A x \in Carried(t) : x \in Msg /\ x \notin gone /\ x # m
  BY <1>2, <1>3, QueuesTyped
<1>5. OwnersOK'
  BY <1>2, <1>3, <1>4 DEF LinkInv, OwnersOK
<1>6. KeptOK'
  BY <1>2, <1>3, <1>4 DEF LinkInv, KeptOK
<1>7. TimersOK'
  <2>1. ASSUME NEW x \in Msg, tmo[x] # Nil, x \notin done'
        PROVE  x \in Carried(tmo[x])'
    <3>1. x \in Carried(tmo[x]) /\ tmo[x] \in Server
      BY <1>2, <2>1 DEF LinkInv, TimersOK, TypeOK, MsgTypes
    <3> QED BY <1>3, <3>1
  <2>2. ASSUME HasTimeout, NEW s \in Server, NEW x \in Carried(s)', ~Noreply(x)'
        PROVE  tmo[x] = s
    <3>1. x \in Carried(s)
      BY <1>3
    <3>2. x \in Msg /\ ~Noreply(x)
      BY <1>2, <1>4, <2>2, <3>1
    <3> QED BY <2>2, <3>1, <3>2 DEF LinkInv, TimersOK
  <2> QED BY <1>3, <2>1, <2>2 DEF TimersOK
<1> QED BY <1>2, <1>5, <1>6, <1>7 DEF LinkInv

\* server_connected: the select request goes first, with a timer of its own.
LEMMA ServerConnectedLinks ==
    ASSUME TypeOK, OwnInv, LinkInv, NEW s \in Server, ServerConnected(s)
    PROVE  LinkInv'
<1>1. PICK a \in SUBSET Msg : Connected(s, a)
  BY ServerConnectedFacts
<1>2. /\ \A x \in a : x \notin Free' /\ x \in Free
      /\ \A x \in Msg : x \notin a => /\ req'[x] = req[x]
                                      /\ (x \in Free' <=> x \in Free) /\ (Noreply(x)' <=> Noreply(x))
      /\ \A x \in Msg : IF HasTimeout /\ x \in a THEN tmo'[x] = s ELSE tmo'[x] = tmo[x]
      /\ Carried(s)' = Carried(s) \cup a
      /\ \A t \in Server : t # s => Carried(t)' = Carried(t)
      /\ \A d \in Client : Requests(d)' = Requests(d)
      /\ swallow' = swallow \cup a /\ done' = done /\ error' = error /\ frag_msgq' = frag_msgq
  BY <1>1 DEF Connected
<1>3. \A x \in a : tmo[x] = Nil /\ \A t \in Server : x \notin Carried(t)
  BY <1>2, FreeNowhere
<1>4. \A t \in Server : \A x \in Carried(t)' : \/ x \in Carried(t) /\ x \in Msg /\ x \notin a
                                               \/ t = s /\ x \in a
  BY <1>2, <1>3, QueuesTyped
<1>5. OwnersOK'
  <2> SUFFICES ASSUME NEW t \in Server, NEW x \in Carried(t)', x \notin swallow', ~Noreply(x)'
               PROVE  /\ req'[x].owner \in Client
                      /\ req'[x].part = 0 => x \in Requests(req[x].owner)'
                      /\ req'[x].part # 0 => req'[x].frag_owner \in Requests(req[x].owner)'
    BY DEF OwnersOK
  <2>1. /\ x \in Carried(t) /\ req'[x] = req[x] /\ x \notin swallow /\ ~Noreply(x)
    BY <1>2, <1>4
  <2>2. /\ req[x].owner \in Client
        /\ req[x].part = 0 => x \in Requests(req[x].owner)
        /\ req[x].part # 0 => req[x].frag_owner \in Requests(req[x].owner)
    BY <2>1 DEF LinkInv, OwnersOK
  <2>3. PICK d \in Client : d = req[x].owner
    BY <2>2
  <2> QED BY <1>2, <2>1, <2>2, <2>3
<1>6. KeptOK'
  <2> SUFFICES ASSUME NEW x \in Msg, x \notin Free', x \notin done'
               PROVE  x \in Forwarding' \/ \E t \in Server : x \in Carried(t)'
    BY DEF KeptOK
  <2>1. CASE x \in a
    BY <1>2, <2>1
  <2>2. CASE x \notin a
    <3>1. x \in Forwarding \/ \E t \in Server : x \in Carried(t)
      BY <1>2, <2>2 DEF LinkInv, KeptOK
    <3>2. \A t \in Server : x \in Carried(t) => x \in Carried(t)'
      BY <1>2
    <3> QED BY <1>2, <3>1, <3>2 DEF Forwarding
  <2> QED BY <2>1, <2>2
<1>7. TimersOK'
  <2>1. ASSUME NEW x \in Msg, tmo'[x] # Nil, x \notin done'
        PROVE  x \in Carried(tmo[x])'
    <3>1. CASE tmo'[x] = s /\ x \in a
      BY <1>2, <3>1
    <3>2. CASE tmo'[x] = tmo[x]
      <4>1. x \in Carried(tmo[x]) /\ tmo[x] \in Server
        BY <1>2, <2>1, <3>2 DEF LinkInv, TimersOK, TypeOK, MsgTypes
      <4>2. PICK t \in Server : t = tmo[x]
        BY <4>1
      <4>3. x \in Carried(t)'
        BY <1>2, <4>1, <4>2
      <4> QED BY <3>2, <4>2, <4>3
    <3> QED BY <1>2, <3>1, <3>2
  <2>2. ASSUME HasTimeout, NEW t \in Server, NEW x \in Carried(t)', ~Noreply(x)'
        PROVE  tmo'[x] = t
    <3>1. CASE x \in Carried(t) /\ x \in Msg /\ x \notin a
      BY <1>2, <2>2, <3>1 DEF LinkInv, TimersOK
    <3>2. CASE t = s /\ x \in a
      BY <1>2, <2>2, <3>2
    <3> QED BY <1>4, <3>1, <3>2
  <2> QED BY <2>1, <2>2 DEF TimersOK
<1> QED BY <1>2, <1>5, <1>6, <1>7 DEF LinkInv

\* What leaves the servers is done or free, and leaves the timers.
LEMMA FinishesLinks ==
    ASSUME TypeOK, OwnInv, LinkInv, Finishes
    PROVE  LinkInv'
<1>1. PICK gone \in SUBSET Msg, lost \in SUBSET Msg : Finished(gone, lost)
  BY DEF Finishes
<1>2. /\ req' = Reset(req, gone, Blank) /\ swallow' = swallow \ gone /\ done' = done \cup lost
      /\ \A x \in error' : x \in error \/ x \in lost
      /\ \A x \in Msg : \/ tmo'[x] = tmo[x]
                        \/ tmo'[x] = Nil /\ (x \in gone \/ x \in lost)
      /\ \A t \in Server : /\ \A x \in Carried(t)' :
                                 x \in Carried(t) /\ x \notin gone /\ x \notin lost
                           /\ \A x \in Carried(t) : x \in gone \/ x \in lost \/ x \in Carried(t)'
      /\ c_omsg_q' = c_omsg_q /\ frag_msgq' = frag_msgq
  BY <1>1 DEF Finished
<1>3. /\ \A x \in Msg : x \notin gone => req'[x] = req[x]
      /\ \A x \in Msg : x \in Free' <=> x \in Free \/ x \in gone
      /\ \A x \in Msg : Noreply(x)' <=> Noreply(x) /\ x \notin gone
  BY <1>2, Freed
<1>4. /\ \A d \in Client : Requests(d)' = Requests(d)
      /\ Forwarding' = Forwarding
  BY <1>2 DEF Requests, Forwarding
<1>5. OwnersOK'
  <2> SUFFICES ASSUME NEW t \in Server, NEW x \in Carried(t)', x \notin swallow', ~Noreply(x)'
               PROVE  /\ req'[x].owner \in Client
                      /\ req'[x].part = 0 => x \in Requests(req[x].owner)'
                      /\ req'[x].part # 0 => req'[x].frag_owner \in Requests(req[x].owner)'
    BY DEF OwnersOK
  <2>1. /\ x \in Carried(t) /\ x \in Msg /\ x \notin gone
    BY <1>2, QueuesTyped
  <2>2. req'[x] = req[x] /\ x \notin swallow /\ ~Noreply(x)
    BY <1>2, <1>3, <2>1
  <2>3. /\ req[x].owner \in Client
        /\ req[x].part = 0 => x \in Requests(req[x].owner)
        /\ req[x].part # 0 => req[x].frag_owner \in Requests(req[x].owner)
    BY <2>1, <2>2 DEF LinkInv, OwnersOK
  <2>4. PICK d \in Client : d = req[x].owner
    BY <2>3
  <2> QED BY <1>4, <2>2, <2>3, <2>4
<1>6. KeptOK'
  <2> SUFFICES ASSUME NEW x \in Msg, x \notin Free', x \notin done'
               PROVE  x \in Forwarding' \/ \E t \in Server : x \in Carried(t)'
    BY DEF KeptOK
  <2>1. x \notin gone /\ x \notin Free /\ x \notin lost /\ x \notin done
    BY <1>2, <1>3
  <2>2. x \in Forwarding \/ \E t \in Server : x \in Carried(t)
    BY <2>1 DEF LinkInv, KeptOK
  <2> QED BY <1>2, <1>4, <2>1, <2>2
<1>7. TimersOK'
  <2>1. ASSUME NEW x \in Msg, tmo'[x] # Nil, x \notin done'
        PROVE  x \in Carried(tmo[x])'
    <3>1. tmo'[x] = tmo[x] /\ x \notin done /\ x \notin lost
      BY <1>2, <2>1
    <3>2. x \in Carried(tmo[x]) /\ tmo[x] \in Server
      BY <2>1, <3>1 DEF LinkInv, TimersOK, TypeOK, MsgTypes
    <3>3. PICK t \in Server : t = tmo[x]
      BY <3>2
    <3>4. x \notin gone
      BY <1>1, <2>1 DEF Finished
    <3>5. x \in Carried(t)'
      BY <1>2, <3>1, <3>2, <3>3, <3>4
    <3> QED BY <3>1, <3>3, <3>5
  <2>2. ASSUME HasTimeout, NEW t \in Server, NEW x \in Carried(t)', ~Noreply(x)'
        PROVE  tmo'[x] = t
    <3>1. x \in Carried(t) /\ x \in Msg /\ x \notin gone /\ x \notin lost
      BY <1>2, QueuesTyped
    <3>2. ~Noreply(x) /\ tmo'[x] = tmo[x]
      BY <1>2, <1>3, <2>2, <3>1
    <3> QED BY <2>2, <3>1, <3>2 DEF LinkInv, TimersOK
  <2> QED BY <2>1, <2>2 DEF TimersOK
<1>8. error' \subseteq done'
  BY <1>2 DEF LinkInv
<1> QED BY <1>5, <1>6, <1>7, <1>8 DEF LinkInv

\* What a client gives back is done; what it leaves with a server is marked swallow.
LEMMA PutsLinks ==
    ASSUME TypeOK, OwnInv, LinkInv, Puts
    PROVE  LinkInv'
<1>1. PICK gone \in SUBSET Msg, left \in SUBSET Msg : Put(gone, left)
  BY DEF Puts
<1>2. /\ gone \subseteq done /\ \A x \in left : x \notin done
      /\ req' = Reset(req, gone, Blank) /\ swallow' = swallow \cup left
      /\ done' = done \ gone /\ error' = error \ gone
      /\ \A x \in Msg : /\ x \in gone => tmo'[x] = Nil /\ frags'[x] = {}
                        /\ x \notin gone => tmo'[x] = tmo[x]
      /\ \A x \in Msg : \A f \in frags[x] : f \in gone \/ f \in left \/ f \in frags'[x]
      /\ \A d \in Client : \A x \in Requests(d) : x \in gone \/ x \in left \/ x \in Requests(d)'
      /\ imsg_q' = imsg_q /\ s_omsg_q' = s_omsg_q
      /\ frag_msgq = <<>> /\ frag_msgq' = <<>>
  BY <1>1 DEF Put
<1>3. /\ \A x \in Msg : x \notin gone => req'[x] = req[x]
      /\ \A x \in Msg : x \in Free' <=> x \in Free \/ x \in gone
      /\ \A x \in Msg : Noreply(x)' <=> Noreply(x) /\ x \notin gone
  BY <1>2, Freed
<1>4. \A t \in Server : Carried(t)' = Carried(t)
  BY <1>2 DEF Carried
<1>5. \A t \in Server : \A x \in Carried(t) : x \in Msg /\ x \notin done /\ x \notin gone
  BY <1>2, QueuesTyped DEF OwnInv, ServersOK
<1>6. OwnersOK'
  <2> SUFFICES ASSUME NEW t \in Server, NEW x \in Carried(t)', x \notin swallow', ~Noreply(x)'
               PROVE  /\ req'[x].owner \in Client
                      /\ req'[x].part = 0 => x \in Requests(req[x].owner)'
                      /\ req'[x].part # 0 => req'[x].frag_owner \in Requests(req[x].owner)'
    BY DEF OwnersOK
  <2>1. x \in Carried(t) /\ x \in Msg /\ x \notin gone /\ x \notin left /\ x \notin swallow
    BY <1>2, <1>4, <1>5
  <2>2. req'[x] = req[x] /\ ~Noreply(x)
    BY <1>3, <2>1
  <2>3. /\ req[x].owner \in Client
        /\ req[x].part = 0 => x \in Requests(req[x].owner)
        /\ req[x].part # 0 => req[x].frag_owner \in Requests(req[x].owner)
    BY <2>1, <2>2 DEF LinkInv, OwnersOK
  <2>4. PICK d \in Client : d = req[x].owner
    BY <2>3
  <2>5. req[x].part = 0 => x \in Requests(d)'
    BY <1>2, <2>1, <2>3, <2>4
  <2>6. ASSUME req[x].part # 0
        PROVE  req[x].frag_owner \in Requests(d)'
    <3>1. PICK v \in Msg : v = req[x].frag_owner /\ x \in frags[v]
      BY <2>1, <2>6 DEF OwnInv, ServersOK
    <3>2. v \in done
      BY <3>1 DEF OwnInv, FragsOK
    <3>3. v \notin gone
      BY <1>2, <2>1, <3>1
    <3> QED BY <1>2, <2>3, <2>4, <2>6, <3>1, <3>2, <3>3
  <2> QED BY <2>2, <2>3, <2>4, <2>5, <2>6
<1>7. KeptOK'
  <2> SUFFICES ASSUME NEW x \in Msg, x \notin Free', x \notin done'
               PROVE  x \in Forwarding' \/ \E t \in Server : x \in Carried(t)'
    BY DEF KeptOK
  <2>1. x \notin gone /\ x \notin Free /\ x \notin done
    BY <1>2, <1>3
  <2>2. x \in Forwarding \/ \E t \in Server : x \in Carried(t)
    BY <2>1 DEF LinkInv, KeptOK
  <2> QED BY <1>2, <1>4, <2>2 DEF Forwarding
<1>8. TimersOK'
  <2>1. ASSUME NEW x \in Msg, tmo'[x] # Nil, x \notin done'
        PROVE  x \in Carried(tmo[x])'
    <3>1. tmo'[x] = tmo[x] /\ x \notin done
      BY <1>2, <2>1
    <3>2. x \in Carried(tmo[x]) /\ tmo[x] \in Server
      BY <2>1, <3>1 DEF LinkInv, TimersOK, TypeOK, MsgTypes
    <3>3. PICK t \in Server : t = tmo[x]
      BY <3>2
    <3> QED BY <1>4, <3>1, <3>2, <3>3
  <2>2. ASSUME HasTimeout, NEW t \in Server, NEW x \in Carried(t)', ~Noreply(x)'
        PROVE  tmo'[x] = t
    <3>1. x \in Carried(t)
      BY <1>4
    <3>2. x \in Msg /\ x \notin gone
      BY <1>5, <3>1
    <3>3. tmo[x] = t
      BY <1>3, <2>2, <3>1, <3>2 DEF LinkInv, TimersOK
    <3> QED BY <1>2, <3>2, <3>3
  <2> QED BY <2>1, <2>2 DEF TimersOK
<1>9. error' \subseteq done'
  BY <1>2 DEF LinkInv
<1> QED BY <1>6, <1>7, <1>8, <1>9 DEF LinkInv

LEMMA QuietStepsLinks ==
    ASSUME TypeOK, OwnInv, LinkInv,
           \/ \E c \in Client : Accept(c) \/ ReadEof(c) \/ RspSendIdle(c)
           \/ \E s \in Server : ReqSendIdle(s) \/ EarlyAnswer(s)
           \/ \E m \in Msg : TimeoutSkip(m)
           \/ Terminate \/ UNCHANGED vars
    PROVE  LinkInv'
<1>1. UNCHANGED <<req, done, error, swallow, c_omsg_q, imsg_q, s_omsg_q, frag_msgq>>
  BY DEF Accept, ReadEof, RspSendIdle, ReqSendIdle, EarlyAnswer, TimeoutSkip, Terminate,
         vars, msgVars, flagVars, clientVars, serverVars, loopVars
<1>2. \/ UNCHANGED tmo
      \/ \E m \in done \cup error : tmo' = [tmo EXCEPT ![m] = Nil]
  BY DEF Accept, ReadEof, RspSendIdle, ReqSendIdle, EarlyAnswer, TimeoutSkip, Terminate,
         vars, msgVars
<1> QED BY <1>1, <1>2, QuietLinks

\* The timer of a request that is still waiting points to the connection that
\* carries it, so that core_timeout closes that connection.
LEMMA TimeoutCarried ==
    ASSUME TypeOK, LinkInv, NEW m \in Msg, Timeout(m)
    PROVE  tmo[m] \in Server /\ m \in Carried(tmo[m])
BY DEF Timeout, LinkInv, TimersOK, TypeOK, MsgTypes

LEMMA KeptIsNeverLost ==
    ASSUME TypeOK, OwnInv, LinkInv
    PROVE  NeverLost
<1>1. ASSUME NEW c \in Client, NEW m \in Held(c) \ done
      PROVE  m \in Range(frag_msgq) \/ \E s \in Server : m \in Carried(s)
  <2>1. m \in Msg
    BY SMTT(60), QueuesTyped, FlagsTyped DEF Held, Behind, Requests
  <2>2. m \notin Free
    BY OwnershipIsSafe DEF NoUseAfterFree, Referenced
  <2> QED BY <1>1, <2>1, <2>2 DEF LinkInv, KeptOK, Forwarding
<1>2. ASSUME NEW s \in Server
      PROVE  /\ IsInjective(imsg_q[s]) /\ IsInjective(s_omsg_q[s])
             /\ Range(imsg_q[s]) \cap Range(s_omsg_q[s]) = {}
             /\ \A t \in Server \ {s} : Carried(s) \cap Carried(t) = {}
  BY DEF OwnInv, CarriedOnce
<1> QED BY <1>1, <1>2 DEF NeverLost

-----------------------------------------------------------------------------
(* Connections *)

LEMMA InitConns == Init => ConnInv
BY DEF Init, ConnInv, ClosedIsClean

LEMMA QuietConns ==
    ASSUME ConnInv,
           \/ \E c \in Client : Accept(c) \/ ReadEof(c) \/ RspSendIdle(c)
           \/ \E s \in Server : ReqSendIdle(s) \/ EarlyAnswer(s)
           \/ \E m \in Msg : TimeoutSkip(m)
           \/ Terminate \/ UNCHANGED vars
    PROVE  ConnInv'
<1> USE DEF ConnInv, ClosedIsClean, clientVars, serverVars, connVars, loopVars
<1>1. ASSUME NEW c \in Client, Accept(c)
      PROVE  ConnInv'
  BY <1>1 DEF Accept
<1>2. ASSUME NEW c \in Client, ReadEof(c)
      PROVE  ConnInv'
  BY <1>2 DEF ReadEof
<1>3. ASSUME NEW c \in Client, RspSendIdle(c)
      PROVE  ConnInv'
  BY <1>3 DEF RspSendIdle
<1>4. ASSUME NEW s \in Server, ReqSendIdle(s)
      PROVE  ConnInv'
  BY <1>4 DEF ReqSendIdle
<1>5. ASSUME NEW s \in Server, EarlyAnswer(s)
      PROVE  ConnInv'
  BY <1>5 DEF EarlyAnswer
<1>6. ASSUME NEW m \in Msg, TimeoutSkip(m)
      PROVE  ConnInv'
  BY <1>6 DEF TimeoutSkip
<1>7. Terminate => ConnInv'
  BY DEF Terminate
<1>8. UNCHANGED vars => ConnInv'
  BY DEF vars
<1> QED BY <1>1, <1>2, <1>3, <1>4, <1>5, <1>6, <1>7, <1>8

\* Only an open client is read from.
LEMMA ReadConns ==
    ASSUME TypeOK, ConnInv, NEW c \in Client, NEW m \in Msg,
           \/ \E kind : ReadSingle(c, m, kind)
           \/ \E kind : \E q \in Seq(Msg) : ReadVector(c, m, q, kind)
           \/ ReadLocal(c, m)
    PROVE  ConnInv'
<1>1. /\ c \in open /\ recving' \in {c, Nil} /\ sending' = sending
      /\ open' = open
      /\ UNCHANGED <<connecting, authenticated, imsg_q, s_omsg_q, eof, err>>
      /\ send_active' = send_active \/ send_active' = send_active \cup {c}
      /\ c_omsg_q' = c_omsg_q \/ c_omsg_q' = [c_omsg_q EXCEPT ![c] = Append(@, m)]
  BY DEF ReadSingle, ReadVector, ReadLocal, CanRead, clientVars, serverVars, connVars
<1>2. \A d \in Client : d # c => c_omsg_q'[d] = c_omsg_q[d]
  BY <1>1 DEF TypeOK, QueueTypes
<1> QED BY SMTT(60), <1>1, <1>2 DEF ConnInv, ClosedIsClean

LEMMA ReqForwardConns ==
    ASSUME TypeOK, OwnInv, ConnInv, NEW s \in Server, ReqForward(s)
    PROVE  ConnInv'
<1>1. /\ frag_msgq # <<>> /\ EnqueueOutq(recving, Head(frag_msgq))
      /\ open' = open \cup {s} /\ UNCHANGED <<eof, err, s_omsg_q, sending>>
      /\ connecting' \subseteq connecting \cup {s}
      /\ send_active' \subseteq send_active \cup {s}
      /\ recving' \in {recving, Nil}
  BY DEF ReqForward, ForwardNext
<1>2. authenticated' \subseteq authenticated \cup {s}
  BY DEF ReqForward
<1>3. recving \in Client /\ recving \in open /\ Head(frag_msgq) \in Msg
  BY <1>1, ForwardingOpen, QueuedIsMsg
<1>4. PICK c \in Client : c = recving
  BY <1>3
<1>5. \A d \in Client : d # c => c_omsg_q'[d] = c_omsg_q[d]
  BY <1>1, <1>3, <1>4, EnqueueElsewhere
<1>6. \A t \in Server : t # s => imsg_q'[t] = imsg_q[t]
  BY DEF ReqForward, TypeOK, QueueTypes
<1> QED BY <1>1, <1>2, <1>3, <1>4, <1>5, <1>6 DEF ConnInv, ClosedIsClean

LEMMA ReqForwardErrorConns ==
    ASSUME TypeOK, OwnInv, ConnInv, ReqForwardError
    PROVE  ConnInv'
<1>1. PICK m, gone, awake :
         /\ m = Head(frag_msgq) /\ frag_msgq # <<>> /\ EnqueueOutq(recving, m)
         /\ awake \subseteq {recving} /\ CheckHeads(awake, gone)
         /\ send_active' = send_active \cup Answered(awake)
  BY DEF ReqForwardError
<1>2. /\ open' = open /\ UNCHANGED <<eof, connecting, authenticated, imsg_q, s_omsg_q, sending>>
      /\ recving' \in {recving, Nil}
  BY DEF ReqForwardError, ForwardNext, serverVars
<1>3. recving \in Client /\ recving \in open /\ m \in Msg
  BY <1>1, ForwardingOpen, QueuedIsMsg
<1>4. PICK c \in Client : c = recving
  BY <1>3
<1>5. \A d \in Client : d # c => c_omsg_q'[d] = c_omsg_q[d]
  BY <1>1, <1>3, <1>4, EnqueueElsewhere
<1>6. err' \subseteq err \cup {c} /\ send_active' \subseteq send_active \cup {c}
  BY <1>1, <1>4, HeadsTyped
<1> QED BY <1>2, <1>3, <1>4, <1>5, <1>6 DEF ConnInv, ClosedIsClean

LEMMA ServerConns ==
    ASSUME TypeOK, ConnInv, NEW s \in Server, ServerConnected(s) \/ ReqSendDone(s) \/ RspSwallow(s)
    PROVE  ConnInv'
<1>1. s \in open
  BY DEF ServerConnected, ReqSendDone, RspSwallow, CanSend, CanAnswer, ConnInv, ClosedIsClean
<1>2. UNCHANGED <<open, send_active, eof, err, c_omsg_q, authenticated, recving, sending>>
  BY DEF ServerConnected, ReqSendDone, RspSwallow, connVars, clientVars, loopVars
<1>3. connecting' \subseteq connecting
  BY DEF ServerConnected, ReqSendDone, RspSwallow
<1>4. \A t \in Server : t # s => imsg_q'[t] = imsg_q[t] /\ s_omsg_q'[t] = s_omsg_q[t]
  BY DEF ServerConnected, ReqSendDone, RspSwallow, TypeOK, QueueTypes
<1> QED BY <1>1, <1>2, <1>3, <1>4 DEF ConnInv, ClosedIsClean

\* rsp_forward wakes the owner of the request it answers.
LEMMA RspForwardConns ==
    ASSUME TypeOK, OwnInv, LinkInv, ConnInv, NEW s \in Server, NEW bad, RspForward(s, bad)
    PROVE  ConnInv'
<1>1. PICK m, c : m = Head(s_omsg_q[s]) /\ c = req[m].owner
  OBVIOUS
<1>2. /\ s \in open /\ s_omsg_q[s] # <<>> /\ m \notin swallow
      /\ CheckHeads({c}, {}) /\ send_active' = send_active \cup Answered({c})
      /\ UNCHANGED <<open, c_omsg_q, eof, connecting, authenticated, imsg_q, recving, sending>>
  BY <1>1 DEF RspForward, CanAnswer, loopVars
<1>3. m \in Carried(s) /\ ~Noreply(m)
  <2>1. m \in Range(s_omsg_q[s])
    BY <1>1, <1>2, RangeTail DEF TypeOK, QueueTypes
  <2> QED BY <2>1 DEF Carried, OwnInv, CarriedOnce
<1>4. c \in open
  BY <1>1, <1>2, <1>3, OwnerOpen
<1>5. err' \subseteq err \cup {c} /\ send_active' \subseteq send_active \cup {c}
  BY <1>2, HeadsTyped
<1>6. \A t \in Server : t # s => s_omsg_q'[t] = s_omsg_q[t]
  BY DEF RspForward, TypeOK, QueueTypes
<1> QED BY <1>2, <1>4, <1>5, <1>6 DEF ConnInv, ClosedIsClean

\* server_close wakes the owners of all requests it fails.
LEMMA ServerCloseConns ==
    ASSUME TypeOK, OwnInv, LinkInv, ConnInv, NEW s \in Server, NEW expired, ServerClose(s, expired)
    PROVE  ConnInv'
<1>1. PICK gone, lost, awake : /\ gone = {m \in Carried(s) : m \in swallow \/ Noreply(m)}
                               /\ lost = Carried(s) \ gone
                               /\ awake = {req[m].owner : m \in lost}
  OBVIOUS
<1>2. /\ CheckHeads(awake, gone)
      /\ open' = open \ {s} /\ send_active' = (send_active \cup Answered(awake)) \ {s}
      /\ connecting' = connecting \ {s} /\ authenticated' = authenticated \ {s}
      /\ imsg_q' = [imsg_q EXCEPT ![s] = <<>>] /\ s_omsg_q' = [s_omsg_q EXCEPT ![s] = <<>>]
      /\ UNCHANGED <<c_omsg_q, eof, recving, sending>>
  BY <1>1 DEF ServerClose, loopVars
<1>3. \A c \in awake : c \in Client /\ c \in open
  BY <1>1, OwnerOpen
<1>4. err' \subseteq err \cup awake /\ Answered(awake) \subseteq awake
  BY <1>2, HeadsTyped
<1>5. \A t \in Server : IF t = s THEN imsg_q'[t] = <<>> /\ s_omsg_q'[t] = <<>>
                        ELSE imsg_q'[t] = imsg_q[t] /\ s_omsg_q'[t] = s_omsg_q[t]
  BY <1>2 DEF TypeOK, QueueTypes
<1>6. /\ s \notin Client /\ s # Nil
      /\ err \subseteq Client \cup {Nil} /\ eof \subseteq Client
      /\ recving \in Client \cup {Nil} /\ sending \in Client \cup {Nil}
  BY ConstantsAssumption DEF TypeOK, ConnTypes, LoopTypes
<1> QED BY <1>2, <1>3, <1>4, <1>5, <1>6 DEF ConnInv, ClosedIsClean

LEMMA ReplyConns ==
    ASSUME TypeOK, ConnInv, NEW c \in Client,
           RspSendDone(c) \/ \E i : RspSendNext(c, i)
    PROVE  ConnInv'
<1>1. /\ c \in open /\ sending' \in {c, Nil}
      /\ UNCHANGED <<open, send_active, eof, connecting, authenticated, imsg_q, s_omsg_q, recving>>
      /\ c_omsg_q' = c_omsg_q \/ c_omsg_q' = [c_omsg_q EXCEPT ![c] = Tail(@)]
  BY DEF RspSendDone, RspSendNext, CanReply, connVars, serverVars
<1>2. err' \subseteq err \cup {c}
  BY DEF RspSendDone, RspSendNext
<1>3. \A d \in Client : d # c => c_omsg_q'[d] = c_omsg_q[d]
  BY <1>1 DEF TypeOK, QueueTypes
<1> QED BY <1>1, <1>2, <1>3 DEF ConnInv, ClosedIsClean

LEMMA ClientCloseConns ==
    ASSUME TypeOK, ConnInv, NEW c \in Client, ClientClose(c)
    PROVE  ConnInv'
<1>1. /\ open' = open \ {c} /\ send_active' = send_active \ {c}
      /\ eof' = eof \ {c} /\ err' = err \ {c} /\ recving' = Nil /\ sending' = Nil
      /\ c_omsg_q' = [c_omsg_q EXCEPT ![c] = <<>>]
      /\ UNCHANGED <<connecting, authenticated, imsg_q, s_omsg_q>>
  BY DEF ClientClose, serverVars
<1>2. \A d \in Client : IF d = c THEN c_omsg_q'[d] = <<>> ELSE c_omsg_q'[d] = c_omsg_q[d]
  BY <1>1 DEF TypeOK, QueueTypes
<1>3. /\ c \notin Server /\ connecting \subseteq Server /\ authenticated \subseteq Server
  BY ConstantsAssumption DEF TypeOK, ConnTypes
<1> QED BY <1>1, <1>2, <1>3 DEF ConnInv, ClosedIsClean

-----------------------------------------------------------------------------
(* Write events *)

\* Something is to be written to the client, or it is to be closed.
Due(c) == IF c_omsg_q[c] = <<>> THEN c \in eof ELSE ReqDone(HeadOf(c))

\* A write event will come, or the running handler will end in a close.
Registered(c) == c \in send_active \/ c = sending \/ (c = recving /\ frag_msgq = <<>>)

ClientsWoken == \A c \in Client : c \in open /\ Due(c) => Registered(c)

ServersWoken == \A s \in Server : imsg_q[s] # <<>> \/ s \in connecting => s \in send_active

WakeInv == ClientsWoken /\ ServersWoken

LEMMA InitWakes == Init => WakeInv
BY DEF Init, WakeInv, ClientsWoken, ServersWoken

LEMMA WakeIsNoLostWakeup == ASSUME WakeInv, TypeOK PROVE NoLostWakeup
BY NilIsNone DEF WakeInv, ClientsWoken, ServersWoken, Registered, Due, NoLostWakeup, Idle

\* A request that is done after a step was done before it.
StillPending(x) ==
    /\ x \in fdone' => x \in fdone \/ Complete(x)'
    /\ Complete(x)' => Complete(x)

LEMMA SameDue ==
    ASSUME TypeOK, NEW c \in Client, c \in eof' => c \in eof,
           \/ c_omsg_q'[c] = c_omsg_q[c]
           \/ c_omsg_q[c] # <<>> /\ c_omsg_q'[c] # <<>> /\ HeadOf(c)' = HeadOf(c),
           \A x \in Requests(c) : StillPending(x)
    PROVE  Due(c)' => Due(c)
<1>1. CASE c_omsg_q[c] = <<>>
  BY <1>1 DEF Due
<1>2. CASE c_omsg_q[c] # <<>>
  <2>1. PICK x : x = HeadOf(c) /\ x = HeadOf(c)'
    BY DEF HeadOf
  <2>2. StillPending(x)
    BY <1>2, <2>1, HeadIsRequest
  <2>3. Due(c)' => x \in fdone' \/ Complete(x)'
    BY <1>2, <2>1 DEF Due, ReqDone
  <2>4. x \in fdone \/ Complete(x) => Due(c)
    BY <1>2, <2>1 DEF Due, ReqDone
  <2> QED BY <2>2, <2>3, <2>4 DEF StillPending
<1> QED BY <1>1, <1>2

LEMMA UnchangedDue ==
    ASSUME NEW c, UNCHANGED <<req, done, fdone, nfrag_done, frags, c_omsg_q>>
    PROVE  /\ (c \in eof' <=> c \in eof) => (Due(c)' <=> Due(c))
           /\ c_omsg_q[c] # <<>> => (Due(c)' <=> Due(c))
BY DEF Due, ReqDone, Complete, HeadOf

\* Between two handlers, and while messages are forwarded, only the write event
\* counts.
LEMMA RegisteredIsActive ==
    ASSUME OwnInv, Idle \/ frag_msgq # <<>>, NEW c \in Client, Registered(c)
    PROVE  c \in send_active
BY NilIsNone DEF Registered, Idle, OwnInv, ForwardOK

LEMMA QuietWakes ==
    ASSUME OwnInv, WakeInv,
           \/ \E c \in Client : Accept(c) \/ ReadEof(c) \/ RspSendIdle(c)
           \/ \E s \in Server : ReqSendIdle(s) \/ EarlyAnswer(s)
           \/ \E m \in Msg : TimeoutSkip(m)
           \/ Terminate \/ UNCHANGED vars
    PROVE  WakeInv'
<1> USE DEF msgVars, flagVars, clientVars, serverVars, connVars, loopVars
<1>1. ASSUME NEW c \in Client, Accept(c)
      PROVE  WakeInv'
  <2>1. \A d \in Client : Due(d)' <=> Due(d)
    BY <1>1, UnchangedDue DEF Accept
  <2>2. \A d \in Client : Registered(d) \/ d = c => Registered(d)'
    BY <1>1 DEF Accept, Registered
  <2> QED BY <1>1, <2>1, <2>2 DEF Accept, WakeInv, ClientsWoken, ServersWoken
<1>2. ASSUME NEW c \in Client, ReadEof(c)
      PROVE  WakeInv'
  <2>1. \A d \in Client : d # c \/ c_omsg_q[c] # <<>> => (Due(d)' <=> Due(d))
    BY <1>2, UnchangedDue DEF ReadEof
  <2>2. \A d \in Client : Registered(d) => Registered(d)'
    BY <1>2, RegisteredIsActive DEF ReadEof, Registered
  <2>3. c_omsg_q[c] = <<>> => Registered(c)'
    BY <1>2 DEF ReadEof, Idle, OwnInv, ForwardOK, Registered
  <2> QED BY <1>2, <2>1, <2>2, <2>3 DEF ReadEof, WakeInv, ClientsWoken, ServersWoken
<1>3. ASSUME NEW c \in Client, RspSendIdle(c)
      PROVE  WakeInv'
  <2>1. \A d \in Client : Due(d)' <=> Due(d)
    BY <1>3, UnchangedDue DEF RspSendIdle
  <2>2. \A d \in Client : d # c /\ Registered(d) => Registered(d)'
    BY <1>3, RegisteredIsActive DEF RspSendIdle, Registered
  <2>3. Due(c) => Registered(c)'
    BY <1>3 DEF RspSendIdle, Registered, Due
  <2>4. c \notin Server
    BY ConstantsAssumption
  <2> QED BY <1>3, <2>1, <2>2, <2>3, <2>4 DEF RspSendIdle, WakeInv, ClientsWoken, ServersWoken
<1>4. ASSUME NEW s \in Server, ReqSendIdle(s)
      PROVE  WakeInv'
  <2>1. \A d \in Client : Due(d)' <=> Due(d)
    BY <1>4, UnchangedDue DEF ReqSendIdle
  <2>2. s \notin Client
    BY ConstantsAssumption
  <2>3. \A d \in Client : Registered(d) => Registered(d)'
    BY <1>4, <2>2 DEF ReqSendIdle, Registered
  <2> QED BY <1>4, <2>1, <2>3 DEF ReqSendIdle, CanSend, WakeInv, ClientsWoken, ServersWoken
<1>5. ASSUME UNCHANGED <<req, done, fdone, nfrag_done, frags, c_omsg_q, eof, open, send_active,
                         imsg_q, connecting, frag_msgq, recving, sending>>
      PROVE  WakeInv'
  <2>1. \A d \in Client : Due(d)' <=> Due(d)
    BY <1>5, UnchangedDue
  <2>2. \A d \in Client : Registered(d) => Registered(d)'
    BY <1>5 DEF Registered
  <2> QED BY <1>5, <2>1, <2>2 DEF WakeInv, ClientsWoken, ServersWoken
<1>6. \A s \in Server : EarlyAnswer(s) => WakeInv'
  BY <1>5 DEF EarlyAnswer
<1>7. \A m \in Msg : TimeoutSkip(m) => WakeInv'
  BY <1>5 DEF TimeoutSkip
<1>8. Terminate => WakeInv'
  BY <1>5 DEF Terminate
<1>9. UNCHANGED vars => WakeInv'
  BY <1>5 DEF vars
<1> QED BY <1>1, <1>2, <1>3, <1>4, <1>6, <1>7, <1>8, <1>9

\* Messages that come from the pool touch no request of a client.
LEMMA NewPending ==
    ASSUME TypeOK, OwnInv, NEW new \in SUBSET Msg, \A m \in new : m \in Free,
           \A m \in Msg : m \notin new => req'[m] = req[m],
           \A m \in done' : m \in done \/ m \in new, UNCHANGED <<fdone, nfrag_done, frags>>,
           NEW c \in Client, NEW x \in Requests(c)
    PROVE  StillPending(x)
<1>1. x \in Msg /\ x \notin new /\ frags[x] \cap new = {}
  BY QueuesTyped, FreeNowhere
<1>2. Complete(x)' => Complete(x)
  BY <1>1 DEF Complete
<1> QED BY <1>2 DEF StillPending

LEMMA HeadAppend ==
    ASSUME NEW q \in Seq(Msg), NEW m
    PROVE  /\ Append(q, m) # <<>>
           /\ q # <<>> => Head(Append(q, m)) = Head(q)
           /\ q = <<>> => Head(Append(q, m)) = m
BY SMTT(60)

LEMMA ReadSingleWakes ==
    ASSUME TypeOK, OwnInv, WakeInv, NEW c \in Client, NEW m \in Msg, NEW kind, ReadSingle(c, m, kind)
    PROVE  WakeInv'
<1>1. /\ m \in Free /\ req' = [req EXCEPT ![m] = Message(kind, ntag + 1, 0, c, Nil, 0)]
      /\ Idle /\ UNCHANGED <<done, fdone, nfrag_done, frags, c_omsg_q, eof, open, send_active,
                             imsg_q, connecting>>
  BY DEF ReadSingle, CanRead, flagVars, clientVars, serverVars, connVars
<1>2. \A x \in Msg : x # m => req'[x] = req[x]
  BY <1>1 DEF TypeOK, MsgTypes
<1>3. PICK new \in SUBSET Msg : new = {m}
  OBVIOUS
<1>4. \A d \in Client : \A x \in Requests(d) : StillPending(x)
  BY <1>1, <1>2, <1>3, NewPending
<1>5. \A d \in Client : Due(d)' => Due(d)
  BY <1>1, <1>4, SameDue
<1>6. \A d \in Client : Registered(d) => Registered(d)'
  BY <1>1, RegisteredIsActive DEF Registered
<1> QED BY <1>1, <1>5, <1>6 DEF WakeInv, ClientsWoken, ServersWoken

LEMMA ReadQueuedWakes ==
    ASSUME TypeOK, OwnInv, WakeInv, NEW c \in Client, NEW m \in Msg, Idle,
           NEW new \in SUBSET Msg, m \in new, \A x \in new : x \in Free,
           \A x \in Msg : x \notin new => req'[x] = req[x],
           done' = done \cup {m}, c_omsg_q' = [c_omsg_q EXCEPT ![c] = Append(@, m)],
           send_active \subseteq send_active', Complete(m)' => c \in send_active',
           UNCHANGED <<fdone, nfrag_done, frags, eof, open, imsg_q, connecting>>
    PROVE  WakeInv'
<1>1. \A d \in Client : \A x \in Requests(d) : StillPending(x)
  BY NewPending
<1>2. \A d \in Client : d # c => c_omsg_q'[d] = c_omsg_q[d]
  BY DEF TypeOK, QueueTypes
<1>3. c_omsg_q[c] \in Seq(Msg) /\ c_omsg_q'[c] = Append(c_omsg_q[c], m)
  BY DEF TypeOK, QueueTypes
<1>4. \A d \in Client : Registered(d) => Registered(d)'
  BY RegisteredIsActive DEF Registered
<1>5. ASSUME NEW d \in Client, d \in open', Due(d)'
      PROVE  Registered(d)'
  <2>1. CASE d = c /\ c_omsg_q[c] = <<>>
    <3>1. HeadOf(c)' = m /\ c_omsg_q'[c] # <<>>
      BY SMTT(60), <1>3, <2>1, HeadAppend DEF HeadOf
    <3>2. m \notin fdone'
      BY FreeNowhere
    <3>3. Complete(m)'
      BY <1>5, <2>1, <3>1, <3>2 DEF Due, ReqDone
    <3> QED BY <2>1, <3>3 DEF Registered
  <2>2. CASE d # c \/ c_omsg_q[c] # <<>>
    <3>1. \/ c_omsg_q'[d] = c_omsg_q[d]
          \/ c_omsg_q[d] # <<>> /\ c_omsg_q'[d] # <<>> /\ HeadOf(d)' = HeadOf(d)
      BY SMTT(60), <1>2, <1>3, <2>2, HeadAppend DEF HeadOf
    <3>2. Due(d)
      BY <1>1, <1>5, <3>1, SameDue
    <3> QED BY <1>4, <1>5, <3>2 DEF WakeInv, ClientsWoken
  <2> QED BY <2>1, <2>2
<1>6. ServersWoken'
  BY DEF WakeInv, ServersWoken
<1> QED BY <1>5, <1>6 DEF WakeInv, ClientsWoken

LEMMA ReadLocalWakes ==
    ASSUME TypeOK, OwnInv, WakeInv, NEW c \in Client, NEW m \in Msg, ReadLocal(c, m)
    PROVE  WakeInv'
<1>1. /\ m \in Free /\ req' = [req EXCEPT ![m] = Message("local", ntag + 1, 0, c, Nil, 0)]
      /\ Idle /\ done' = done \cup {m} /\ c_omsg_q' = [c_omsg_q EXCEPT ![c] = Append(@, m)]
      /\ send_active' = send_active \cup {c}
      /\ UNCHANGED <<fdone, nfrag_done, frags, eof, open, imsg_q, connecting>>
  BY DEF ReadLocal, CanRead, serverVars
<1>2. \A x \in Msg : x # m => req'[x] = req[x]
  BY <1>1 DEF TypeOK, MsgTypes
<1>3. PICK new \in SUBSET Msg : new = {m}
  OBVIOUS
<1>4. /\ m \in new /\ \A x \in new : x \in Free
      /\ \A x \in Msg : x \notin new => req'[x] = req[x]
      /\ send_active \subseteq send_active' /\ c \in send_active'
  BY <1>1, <1>2, <1>3
<1> QED BY <1>1, <1>4, ReadQueuedWakes

\* A vector that has just been read is not complete.
LEMMA ReadVectorWakes ==
    ASSUME TypeOK, OwnInv, WakeInv, NEW c \in Client, NEW m \in Msg, NEW q \in Seq(Msg), NEW kind,
           q # <<>>, ReadVector(c, m, q, kind)
    PROVE  WakeInv'
<1>1. /\ m \in Free /\ \A x \in Range(q) : x \in Free
      /\ Idle /\ done' = done \cup {m} /\ c_omsg_q' = [c_omsg_q EXCEPT ![c] = Append(@, m)]
      /\ UNCHANGED <<fdone, nfrag_done, frags, eof, open, send_active, imsg_q, connecting>>
  BY DEF ReadVector, CanRead, serverVars, connVars
<1>2. /\ \A x \in Msg : x # m /\ x \notin Range(q) => req'[x] = req[x]
      /\ req'[m] = Message(kind, ntag + 1, 0, c, m, Len(q))
  BY DEF ReadVector
<1>3. PICK new \in SUBSET Msg : new = {m} \cup Range(q)
  BY RangeOfSeq
<1>4. ~Complete(m)'
  <2>1. Len(q) > 0 /\ Len(q) \in Nat
    BY SMTT(60)
  <2>2. nfrag_done'[m] = 0
    BY <1>1, FreeNowhere
  <2>3. req'[m].nfrag = Len(q)
    BY SMTT(60), <1>2 DEF Message
  <2> QED BY SMTT(60), <2>1, <2>2, <2>3 DEF Complete
<1>5. /\ m \in new /\ \A x \in new : x \in Free
      /\ \A x \in Msg : x \notin new => req'[x] = req[x]
  BY <1>1, <1>2, <1>3
<1>6. send_active \subseteq send_active'
  BY <1>1
<1> QED BY <1>1, <1>4, <1>5, <1>6, ReadQueuedWakes

\* A message is queued behind the client's other requests, or behind its vector.
LEMMA EnqueuedHead ==
    ASSUME TypeOK, NEW c \in Client, NEW m \in Msg, EnqueueOutq(c, m)
    PROVE  \/ c_omsg_q'[c] = c_omsg_q[c]
           \/ c_omsg_q[c] # <<>> /\ c_omsg_q'[c] # <<>> /\ HeadOf(c)' = HeadOf(c)
           \/ c_omsg_q'[c] # <<>> /\ HeadOf(c)' = m
<1>1. c_omsg_q \in [Client -> Seq(Msg)] /\ c_omsg_q[c] \in Seq(Msg)
  BY DEF TypeOK, QueueTypes
<1>2. c_omsg_q' = c_omsg_q \/ c_omsg_q'[c] = Append(c_omsg_q[c], m)
  BY <1>1 DEF EnqueueOutq
<1> QED BY <1>1, <1>2, HeadAppend DEF HeadOf

LEMMA ReqForwardWakes ==
    ASSUME TypeOK, OwnInv, ConnInv, WakeInv, NEW s \in Server, ReqForward(s)
    PROVE  WakeInv'
<1>1. PICK m \in Msg, a \in SUBSET Msg : Forwarded(s, m, a)
  BY ReqForwardFacts
<1>2. PICK h : h = Head(frag_msgq)
  OBVIOUS
<1>3. /\ frag_msgq # <<>> /\ EnqueueOutq(recving, h) /\ open' = open \cup {s}
      /\ connecting' \subseteq connecting \cup {s}
      /\ send_active' = IF imsg_q[s] = <<>> THEN send_active \cup {s} ELSE send_active
      /\ UNCHANGED <<done, fdone, nfrag_done, eof>>
  BY <1>2 DEF ReqForward
<1>4. /\ h \in Msg /\ h \notin done /\ h \notin fdone
  <2>1. h \in Forwarding /\ h \in Msg
    BY <1>2, <1>3, RangeTail DEF Forwarding, TypeOK, QueueTypes
  <2>2. h \notin done
    BY <2>1 DEF OwnInv, ForwardOK, ToForward
  <2> QED BY <2>1, <2>2 DEF OwnInv, VectorsOK
<1>5. PICK c \in Client : c = recving
  BY <1>3, ForwardingOpen
<1>6. \A d \in Client : \A x \in Requests(d) : StillPending(x)
  <2> TAKE d \in Client
  <2> TAKE x \in Requests(d)
  <2>1. x \in Msg /\ x \notin Free
    BY QueuesTyped DEF OwnInv, ClientsOK
  <2>2. req'[x] = req[x] /\ frags[x] \subseteq frags'[x]
    BY <1>1, <2>1 DEF Forwarded
  <2> QED BY <1>3, <2>2 DEF StillPending, Complete
<1>7. \A d \in Client : d \in open /\ Due(d) => d \in send_active
  BY <1>3, RegisteredIsActive DEF WakeInv, ClientsWoken
<1>8. ASSUME NEW d \in Client, d \in open', Due(d)'
      PROVE  Registered(d)'
  <2>1. d \in open
    BY <1>3, <1>8, ConstantsAssumption
  <2>2. Due(d)
    <3>1. CASE d # c
      <4>1. c_omsg_q'[d] = c_omsg_q[d]
        BY <1>3, <1>4, <1>5, <3>1, EnqueueElsewhere
      <4> QED BY <1>3, <1>6, <1>8, <4>1, SameDue
    <3>2. CASE d = c
      <4>1. ~(c_omsg_q'[c] # <<>> /\ HeadOf(c)' = h)
        BY <1>3, <1>4, <1>8, <3>2 DEF Due, ReqDone, Complete
      <4>2. \/ c_omsg_q'[c] = c_omsg_q[c]
            \/ c_omsg_q[c] # <<>> /\ c_omsg_q'[c] # <<>> /\ HeadOf(c)' = HeadOf(c)
        BY <1>3, <1>4, <1>5, <4>1, EnqueuedHead
      <4> QED BY <1>3, <1>6, <1>8, <3>2, <4>2, SameDue
    <3> QED BY <3>1, <3>2
  <2> QED BY <1>3, <1>7, <2>1, <2>2 DEF Registered
<1>9. ServersWoken'
  <2>1. \A t \in Server : t # s => imsg_q'[t] = imsg_q[t]
    BY <1>1 DEF Forwarded
  <2>2. s \in send_active'
    BY <1>3 DEF WakeInv, ServersWoken
  <2> QED BY <1>3, <2>1, <2>2 DEF WakeInv, ServersWoken
<1> QED BY <1>8, <1>9 DEF WakeInv, ClientsWoken

\* The clients for which req_done was called are woken if their head is done.
LEMMA AnsweredDue ==
    ASSUME NEW C, NEW gone, CheckHeads(C, gone), NEW c \in C, c_omsg_q'[c] # <<>>, Due(c)'
    PROVE  c \in Answered(C)
<1>1. HeadOf(c)' \in fdone' \/ Complete(HeadOf(c))'
  BY DEF Due, ReqDone
<1>2. HeadOf(c)' \in fdone' => HeadOf(c)' \in fdone \/ Complete(HeadOf(c))'
  BY HeadsMarked DEF Complete
<1> QED BY <1>1, <1>2 DEF Answered

LEMMA ReqForwardErrorWakes ==
    ASSUME TypeOK, TypeOK', OwnInv, ConnInv, WakeInv, ReqForwardError
    PROVE  WakeInv'
<1>1. PICK m, gone, awake :
         /\ m = Head(frag_msgq) /\ gone = {x \in {m} : Noreply(x)}
         /\ awake = IF gone = {} THEN {recving} ELSE {}
  OBVIOUS
<1>2. /\ frag_msgq # <<>> /\ ForwardNext /\ EnqueueOutq(recving, m)
      /\ CheckHeads(awake, gone) /\ send_active' = send_active \cup Answered(awake)
      /\ req' = Reset(req, gone, Blank) /\ done' = done \cup ({m} \ gone)
      /\ nfrag_done' = nfrag_done
      /\ UNCHANGED <<eof, imsg_q, connecting, open>>
  BY <1>1 DEF ReqForwardError, serverVars
<1>3. /\ m \in Msg /\ m \notin done /\ m \notin Free
      /\ req[m].part # 0 => req[m].frag_owner \in Requests(recving)
      /\ \A d \in Client : m \notin Requests(d)
      /\ \A x \in Msg : m \notin frags[x]
  BY <1>1, <1>2, ForwardHead DEF ToForward
<1>4. PICK c \in Client : c = recving
  BY <1>2, ForwardingOpen
<1>5. \A d \in Client : \A x \in Requests(d) : StillPending(x)
  <2> TAKE d \in Client
  <2> TAKE x \in Requests(d)
  <2>1. x \in Msg /\ x # m /\ frags[x] \subseteq Msg
    BY <1>3, QueuesTyped, FlagsTyped
  <2>2. req'[x] = req[x]
    BY <1>1, <1>2, <2>1 DEF Reset
  <2>3. frags[x] \subseteq frags'[x]
    BY <1>2, <2>1 DEF EnqueueOutq, TypeOK, MsgTypes
  <2>4. Complete(x)' => Complete(x)
    BY <1>2, <1>3, <2>1, <2>2, <2>3 DEF Complete
  <2>5. x \in fdone' => x \in fdone \/ Complete(x)'
    BY <1>2, HeadsMarked DEF Complete
  <2> QED BY <2>4, <2>5 DEF StillPending
<1>6. \A d \in Client : d \in open /\ Due(d) => d \in send_active
  BY <1>2, RegisteredIsActive DEF WakeInv, ClientsWoken
<1>7. ASSUME NEW d \in Client, d \in open', Due(d)'
      PROVE  d \in send_active'
  <2>1. CASE d # c
    <3>1. c_omsg_q'[d] = c_omsg_q[d]
      BY <1>2, <1>3, <1>4, <2>1, EnqueueElsewhere
    <3> QED BY <1>2, <1>5, <1>6, <1>7, <3>1, SameDue
  <2>2. CASE d = c /\ Noreply(m)
    <3>1. c_omsg_q'[d] = c_omsg_q[d]
      BY <1>2, <2>2 DEF EnqueueOutq
    <3> QED BY <1>2, <1>5, <1>6, <1>7, <3>1, SameDue
  <2>3. CASE d = c /\ ~Noreply(m)
    <3>1. gone = {} /\ awake = {c}
      BY <1>1, <1>4, <2>3
    <3>2. c_omsg_q'[c] # <<>>
      <4>1. CASE req[m].part > 0
        <5>1. Requests(c) # {} /\ c_omsg_q' = c_omsg_q
          BY SMTT(60), <1>2, <1>3, <1>4, <4>1 DEF EnqueueOutq
        <5> QED BY <5>1, RangeEmpty DEF Requests
      <4>2. CASE ~(req[m].part > 0)
        <5>1. c_omsg_q'[c] = Append(c_omsg_q[c], m) /\ c_omsg_q[c] \in Seq(Msg)
          BY <1>2, <1>4, <2>3, <4>2 DEF EnqueueOutq, TypeOK, QueueTypes
        <5> QED BY <5>1, HeadAppend
      <4> QED BY <4>1, <4>2
    <3> QED BY <1>2, <1>7, <2>3, <3>1, <3>2, AnsweredDue
  <2> QED BY <2>1, <2>2, <2>3
<1>8. ServersWoken'
  BY <1>2 DEF WakeInv, ServersWoken
<1> QED BY <1>7, <1>8 DEF WakeInv, ClientsWoken, Registered

\* Requests that leave the servers complete, or make complete, requests of their
\* own clients only.
LEMMA FinishedPending ==
    ASSUME TypeOK, OwnInv, LinkInv, NEW gone \in SUBSET Msg, NEW lost \in SUBSET Msg,
           \A x \in gone : (x \in swallow \/ Noreply(x)) /\ \E s \in Server : x \in Carried(s),
           \A x \in lost : x \notin swallow /\ ~Noreply(x) /\ \E s \in Server : x \in Carried(s),
           req' = Reset(req, gone, Blank), done' = done \cup lost,
           \A x \in fdone' : x \in fdone \/ Complete(x)',
           \A x \in Msg : \/ nfrag_done'[x] = nfrag_done[x]
                          \/ \E f \in lost : req[f].frag_owner = x,
           UNCHANGED frags,
           NEW d \in Client, \A f \in lost : req[f].owner # d, NEW x \in Requests(d)
    PROVE  StillPending(x)
<1>1. x \in Msg /\ x \notin Free /\ x \notin swallow /\ ~Noreply(x) /\ req[x].owner = d
  BY QueuesTyped DEF OwnInv, ClientsOK
<1>2. x \notin gone /\ x \notin lost
  BY <1>1
<1>3. req'[x] = req[x]
  BY <1>1, <1>2 DEF Reset
<1>4. \A f \in lost : req[f].frag_owner = x => FALSE
  <2> SUFFICES ASSUME NEW f \in lost, req[f].frag_owner = x
               PROVE  FALSE
    OBVIOUS
  <2>1. PICK s \in Server : f \in Carried(s)
    OBVIOUS
  <2>2. f \in Msg /\ f \notin done
    BY <2>1, QueuesTyped DEF OwnInv, ServersOK
  <2>3. req[f].part # 0
    BY <1>1, <2>2, NilIsNone DEF OwnInv, VectorsOK
  <2>4. PICK c \in Client : c = req[f].owner /\ x \in Requests(c)
    BY <2>1, <2>3 DEF LinkInv, OwnersOK
  <2>5. req[x].owner = c
    BY <2>4 DEF OwnInv, ClientsOK
  <2> QED BY <1>1, <2>4, <2>5
<1>5. \A f \in frags[x] : f \notin lost
  BY <1>1, <1>4 DEF OwnInv, FragsOK
<1>6. nfrag_done'[x] = nfrag_done[x]
  BY <1>1, <1>4
<1>7. Complete(x)' => Complete(x)
  BY <1>2, <1>3, <1>5, <1>6 DEF Complete
<1> QED BY <1>7 DEF StillPending

LEMMA FinishedWakes ==
    ASSUME TypeOK, OwnInv, LinkInv, WakeInv, NEW gone \in SUBSET Msg, NEW lost \in SUBSET Msg,
           \A x \in gone : (x \in swallow \/ Noreply(x)) /\ \E s \in Server : x \in Carried(s),
           \A x \in lost : x \notin swallow /\ ~Noreply(x) /\ \E s \in Server : x \in Carried(s),
           req' = Reset(req, gone, Blank), done' = done \cup lost,
           \A x \in fdone' : x \in fdone \/ Complete(x)',
           \A x \in Msg : \/ nfrag_done'[x] = nfrag_done[x]
                          \/ \E f \in lost : req[f].frag_owner = x,
           UNCHANGED <<frags, c_omsg_q, eof, recving, sending, frag_msgq>>,
           \A c \in Client : c \in open' => c \in open,
           \A c \in Client : c \in send_active => c \in send_active',
           \A f \in lost : \A c \in Client : c = req[f].owner /\ c_omsg_q'[c] # <<>> /\ Due(c)'
                                             => c \in send_active'
    PROVE  ClientsWoken'
<1> SUFFICES ASSUME NEW d \in Client, d \in open', Due(d)'
             PROVE  Registered(d)'
  BY DEF ClientsWoken
<1>1. CASE \A f \in lost : req[f].owner # d
  <2>1. \A x \in Requests(d) : StillPending(x)
    BY <1>1, FinishedPending
  <2>2. Due(d)
    BY <2>1, SameDue
  <2>3. Registered(d)
    BY <2>2 DEF WakeInv, ClientsWoken
  <2> QED BY <2>3 DEF Registered
<1>2. CASE \E f \in lost : req[f].owner = d
  <2>1. PICK f \in lost : req[f].owner = d
    BY <1>2
  <2>2. Requests(d) # {}
    BY <2>1 DEF LinkInv, OwnersOK
  <2>3. c_omsg_q[d] # <<>>
    BY <2>2, RangeEmpty DEF Requests
  <2>4. d \in send_active'
    BY <2>1, <2>3
  <2> QED BY <2>4 DEF Registered
<1> QED BY <1>1, <1>2

LEMMA ServerConnectedWakes ==
    ASSUME TypeOK, OwnInv, WakeInv, NEW s \in Server, ServerConnected(s)
    PROVE  WakeInv'
<1>1. PICK a \in SUBSET Msg : Connected(s, a)
  BY ServerConnectedFacts
<1>2. /\ s \in connecting /\ connecting' = connecting \ {s}
      /\ UNCHANGED <<eof, open, send_active, frag_msgq, recving, sending>>
  BY DEF ServerConnected, clientVars, connVars, loopVars
<1>3. /\ \A x \in a : x \in Free
      /\ \A x \in Msg : x \notin a => req'[x] = req[x]
      /\ \A t \in Server : t # s => imsg_q'[t] = imsg_q[t]
      /\ UNCHANGED <<done, fdone, nfrag_done, frags, c_omsg_q>>
  BY <1>1 DEF Connected
<1>4. \A d \in Client : \A x \in Requests(d) : StillPending(x)
  BY <1>3, NewPending
<1>5. \A d \in Client : Due(d)' => Due(d)
  BY <1>2, <1>3, <1>4, SameDue
<1>6. ClientsWoken'
  BY <1>2, <1>5 DEF WakeInv, ClientsWoken, Registered
<1>7. ServersWoken'
  BY <1>2, <1>3 DEF WakeInv, ServersWoken
<1> QED BY <1>6, <1>7 DEF WakeInv

\* A request that expects no answer leaves the proxy.
LEMMA ReqSendDoneWakes ==
    ASSUME TypeOK, OwnInv, LinkInv, WakeInv, NEW s \in Server, ReqSendDone(s)
    PROVE  WakeInv'
<1>1. PICK m, gone : m = Head(imsg_q[s]) /\ gone = {x \in {m} : Noreply(x)}
  OBVIOUS
<1>2. /\ imsg_q[s] # <<>> /\ s \in send_active /\ req' = Reset(req, gone, Blank)
      /\ imsg_q' = [imsg_q EXCEPT ![s] = Tail(@)]
      /\ UNCHANGED <<done, fdone, nfrag_done, frags, c_omsg_q, eof, recving, sending, frag_msgq,
                     open, send_active, connecting>>
  BY <1>1 DEF ReqSendDone, CanSend, flagVars, clientVars, connVars, loopVars
<1>3. m \in Msg /\ m \in Carried(s)
  BY <1>1, <1>2, RangeTail DEF Carried, TypeOK, QueueTypes
<1>4. gone \in SUBSET Msg /\ \A x \in gone : Noreply(x) /\ \E t \in Server : x \in Carried(t)
  BY <1>1, <1>3
<1>5. ClientsWoken'
  <2>1. PICK lost \in SUBSET Msg : lost = {}
    OBVIOUS
  <2>2. done' = done \cup lost
    BY <1>2, <2>1
  <2> QED BY <1>2, <1>4, <2>1, <2>2, FinishedWakes
<1>6. ServersWoken'
  <2>1. \A t \in Server : t # s => imsg_q'[t] = imsg_q[t]
    BY <1>2 DEF TypeOK, QueueTypes
  <2> QED BY <1>2, <2>1 DEF WakeInv, ServersWoken
<1> QED BY <1>5, <1>6 DEF WakeInv

LEMMA RspSwallowWakes ==
    ASSUME TypeOK, OwnInv, LinkInv, WakeInv, NEW s \in Server, RspSwallow(s)
    PROVE  WakeInv'
<1>1. PICK m, gone : m = Head(s_omsg_q[s]) /\ gone = {m}
  OBVIOUS
<1>2. /\ s_omsg_q[s] # <<>> /\ m \in swallow /\ req' = Reset(req, gone, Blank)
      /\ UNCHANGED <<done, fdone, nfrag_done, frags, c_omsg_q, eof, recving, sending, frag_msgq,
                     open, send_active, connecting, imsg_q>>
  BY <1>1 DEF RspSwallow, clientVars, connVars, loopVars
<1>3. m \in Msg /\ m \in Carried(s)
  BY <1>1, <1>2, RangeTail DEF Carried, TypeOK, QueueTypes
<1>4. gone \in SUBSET Msg /\ \A x \in gone : x \in swallow /\ \E t \in Server : x \in Carried(t)
  BY <1>1, <1>2, <1>3
<1>5. ClientsWoken'
  <2>1. PICK lost \in SUBSET Msg : lost = {}
    OBVIOUS
  <2>2. done' = done \cup lost
    BY <1>2, <2>1
  <2> QED BY <1>2, <1>4, <2>1, <2>2, FinishedWakes
<1>6. ServersWoken'
  BY <1>2 DEF WakeInv, ServersWoken
<1> QED BY <1>5, <1>6 DEF WakeInv

LEMMA RspForwardWakes ==
    ASSUME TypeOK, OwnInv, LinkInv, WakeInv, NEW s \in Server, NEW bad, RspForward(s, bad)
    PROVE  WakeInv'
<1>1. PICK m, c, gone, lost :
         /\ m = Head(s_omsg_q[s]) /\ c = req[m].owner /\ gone = {} /\ lost = {m}
  OBVIOUS
<1>2. /\ s_omsg_q[s] # <<>> /\ m \notin swallow
      /\ done' = done \cup lost /\ CheckHeads({c}, {}) /\ send_active' = send_active \cup Answered({c})
      /\ nfrag_done' = IF req[m].part = 0 THEN nfrag_done
                       ELSE [nfrag_done EXCEPT ![req[m].frag_owner] = @ + 1]
      /\ req' = req
      /\ UNCHANGED <<frags, c_omsg_q, eof, recving, sending, frag_msgq, open, connecting, imsg_q>>
  BY <1>1 DEF RspForward, loopVars
<1>3. m \in Msg /\ m \in Carried(s) /\ ~Noreply(m)
  <2>1. m \in Range(s_omsg_q[s]) /\ m \in Msg
    BY <1>1, <1>2, RangeTail DEF TypeOK, QueueTypes
  <2> QED BY <2>1 DEF Carried, OwnInv, CarriedOnce
<1>4. /\ gone \in SUBSET Msg /\ lost \in SUBSET Msg
      /\ \A x \in gone : FALSE
      /\ \A x \in lost : x \notin swallow /\ ~Noreply(x) /\ \E t \in Server : x \in Carried(t)
  BY <1>1, <1>2, <1>3
<1>5. req' = Reset(req, gone, Blank)
  BY <1>1, <1>2 DEF Reset, TypeOK, MsgTypes
<1>6. \A x \in fdone' : x \in fdone \/ Complete(x)'
  BY <1>2, HeadsMarked DEF Complete
<1>7. \A x \in Msg : nfrag_done'[x] = nfrag_done[x] \/ \E f \in lost : req[f].frag_owner = x
  BY <1>1, <1>2 DEF TypeOK, MsgTypes
<1>8. \A f \in lost : \A d \in Client : d = req[f].owner /\ c_omsg_q'[d] # <<>> /\ Due(d)'
                                        => d \in send_active'
  BY <1>1, <1>2, AnsweredDue
<1>9. ClientsWoken'
  BY <1>2, <1>4, <1>5, <1>6, <1>7, <1>8, FinishedWakes
<1>10. ServersWoken'
  BY <1>2 DEF WakeInv, ServersWoken
<1> QED BY <1>9, <1>10 DEF WakeInv

LEMMA ServerCloseWakes ==
    ASSUME TypeOK, OwnInv, LinkInv, WakeInv, NEW s \in Server, NEW expired, ServerClose(s, expired),
           \A m \in Msg : nfrag_done'[m] # nfrag_done[m] =>
              \E f \in Carried(s) : f \notin swallow /\ ~Noreply(f) /\ req[f].frag_owner = m
    PROVE  WakeInv'
<1>1. PICK gone, lost, awake : /\ gone = {m \in Carried(s) : m \in swallow \/ Noreply(m)}
                               /\ lost = Carried(s) \ gone
                               /\ awake = {req[m].owner : m \in lost}
  OBVIOUS
<1>2. /\ req' = Reset(req, gone, Blank) /\ done' = done \cup lost
      /\ CheckHeads(awake, gone)
      /\ open' = open \ {s} /\ send_active' = (send_active \cup Answered(awake)) \ {s}
      /\ connecting' = connecting \ {s} /\ imsg_q' = [imsg_q EXCEPT ![s] = <<>>]
      /\ UNCHANGED <<frags, c_omsg_q, eof, recving, sending, frag_msgq>>
  BY <1>1 DEF ServerClose, loopVars
<1>3. /\ gone \in SUBSET Msg /\ lost \in SUBSET Msg
      /\ \A x \in gone : (x \in swallow \/ Noreply(x)) /\ \E t \in Server : x \in Carried(t)
      /\ \A x \in lost : x \notin swallow /\ ~Noreply(x) /\ \E t \in Server : x \in Carried(t)
  BY <1>1, QueuesTyped
<1>4. \A x \in fdone' : x \in fdone \/ Complete(x)'
  BY <1>2, HeadsMarked DEF Complete
<1>5. \A x \in Msg : nfrag_done'[x] = nfrag_done[x] \/ \E f \in lost : req[f].frag_owner = x
  BY <1>1
<1>6. s \notin Client
  BY ConstantsAssumption
<1>7. \A f \in lost : \A d \in Client : d = req[f].owner /\ c_omsg_q'[d] # <<>> /\ Due(d)'
                                        => d \in send_active'
  BY SMTT(60), <1>1, <1>2, <1>6, AnsweredDue
<1>8. /\ \A c \in Client : c \in open' => c \in open
      /\ \A c \in Client : c \in send_active => c \in send_active'
  BY <1>2, <1>6
<1>9. ClientsWoken'
  BY <1>2, <1>3, <1>4, <1>5, <1>7, <1>8, FinishedWakes
<1>10. ServersWoken'
  <2>1. \A t \in Server : IF t = s THEN imsg_q'[t] = <<>> ELSE imsg_q'[t] = imsg_q[t]
    BY <1>2 DEF TypeOK, QueueTypes
  <2> QED BY <1>2, <2>1 DEF WakeInv, ServersWoken
<1> QED BY <1>9, <1>10 DEF WakeInv

\* The messages put are those of one client, which stays registered or is closed.
LEMMA OthersWoken ==
    ASSUME TypeOK, WakeInv, NEW c \in Client,
           \A d \in Client : d # c => c_omsg_q'[d] = c_omsg_q[d],
           \A d \in Client : d # c => \A x \in Requests(d) : StillPending(x),
           \A d \in Client : d # c /\ Registered(d) => d \in send_active,
           \A d \in Client : d # c /\ d \in send_active => d \in send_active',
           \A d \in Client : d # c /\ d \in open' => d \in open,
           c \in open' => c \in send_active', \A d \in Client : d # c /\ d \in eof' => d \in eof,
           UNCHANGED <<imsg_q, connecting>>,
           \A s \in Server : s \in send_active => s \in send_active'
    PROVE  WakeInv'
<1>1. \A d \in Client : d # c /\ Due(d)' => Due(d)
  BY SameDue
<1>2. ClientsWoken'
  BY <1>1 DEF WakeInv, ClientsWoken, Registered
<1>3. ServersWoken'
  BY DEF WakeInv, ServersWoken
<1> QED BY <1>2, <1>3 DEF WakeInv

LEMMA RspSendNextWakes ==
    ASSUME TypeOK, OwnInv, WakeInv, NEW c \in Client, NEW i, RspSendNext(c, i)
    PROVE  WakeInv'
<1>1. PICK m, gone : m = c_omsg_q[c][i] /\ gone = frags[m]
  OBVIOUS
<1>2. /\ CanReply(c) /\ i \in DOMAIN c_omsg_q[c]
      /\ req' = Reset(req, gone, Blank) /\ done' = done \ gone /\ fdone' = fdone \cup {m}
      /\ frags' = [frags EXCEPT ![m] = {}]
      /\ UNCHANGED <<nfrag_done, eof, c_omsg_q, imsg_q, connecting, open, send_active>>
  BY <1>1 DEF RspSendNext, serverVars, connVars
<1>3. m \in Requests(c) /\ m \in Msg
  <2>1. m \in Range(c_omsg_q[c])
    BY <1>1, <1>2 DEF Range
  <2> QED BY <2>1, QueuesTyped DEF Requests
<1>4. ASSUME NEW d \in Client, d # c, NEW x \in Requests(d)
      PROVE  StillPending(x)
  <2>1. x \in Msg /\ x # m /\ x \notin gone
    BY SMTT(60), <1>1, <1>3, <1>4, HeldApart DEF OwnInv, ClientsOK
  <2>2. req'[x] = req[x] /\ frags'[x] = frags[x]
    BY <1>2, <1>3, <2>1, FlagsTyped DEF Reset
  <2> QED BY <1>2, <2>1, <2>2 DEF StillPending, Complete
<1>5. \A d \in Client : d # c /\ Registered(d) => d \in send_active
  BY <1>2, WriterAlone, NilIsNone DEF CanReply, Idle, Registered
<1>6. c \in send_active
  BY <1>2 DEF CanReply
<1> QED BY <1>2, <1>4, <1>5, <1>6, OthersWoken

LEMMA RspSendDoneWakes ==
    ASSUME TypeOK, OwnInv, WakeInv, NEW c \in Client, RspSendDone(c)
    PROVE  WakeInv'
<1>1. PICK m : m = HeadOf(c)
  OBVIOUS
<1>2. /\ CanReply(c) /\ c_omsg_q[c] # <<>>
      /\ req' = Reset(req, {m}, Blank) /\ done' = done \ {m} /\ fdone' = fdone \ {m}
      /\ nfrag_done' = [nfrag_done EXCEPT ![m] = 0]
      /\ c_omsg_q' = [c_omsg_q EXCEPT ![c] = Tail(@)]
      /\ UNCHANGED <<frags, eof, imsg_q, connecting, open, send_active>>
  BY <1>1 DEF RspSendDone, serverVars, connVars
<1>3. m \in Requests(c) /\ m \in Msg
  BY <1>1, <1>2, HeadIsRequest
<1>4. ASSUME NEW d \in Client, d # c, NEW x \in Requests(d)
      PROVE  StillPending(x)
  <2>1. x \in Msg /\ x # m
    BY <1>3, <1>4, QueuesTyped DEF OwnInv, ClientsOK
  <2>2. req'[x] = req[x] /\ nfrag_done'[x] = nfrag_done[x]
    BY <1>2, <1>3, <2>1 DEF Reset, TypeOK, MsgTypes
  <2> QED BY <1>2, <2>1, <2>2 DEF StillPending, Complete
<1>5. \A d \in Client : d # c /\ Registered(d) => d \in send_active
  BY <1>2, WriterAlone, NilIsNone DEF CanReply, Idle, Registered
<1>6. c \in send_active
  BY <1>2 DEF CanReply
<1>7. \A d \in Client : d # c => c_omsg_q'[d] = c_omsg_q[d]
  BY <1>2 DEF TypeOK, QueueTypes
<1> QED BY <1>2, <1>4, <1>5, <1>6, <1>7, OthersWoken

LEMMA ClientCloseWakes ==
    ASSUME TypeOK, OwnInv, WakeInv, NEW c \in Client, Idle \/ sending = c \/ recving = c,
           ClientClose(c)
    PROVE  WakeInv'
<1>1. PICK gone : gone = Held(c) \cap done
  OBVIOUS
<1>2. /\ req' = Reset(req, gone, Blank) /\ done' = done \ gone /\ fdone' = fdone \ gone
      /\ nfrag_done' = Reset(nfrag_done, gone, 0) /\ frags' = Reset(frags, gone, {})
      /\ open' = open \ {c} /\ send_active' = send_active \ {c} /\ eof' = eof \ {c}
      /\ c_omsg_q' = [c_omsg_q EXCEPT ![c] = <<>>]
      /\ UNCHANGED <<imsg_q, connecting>>
  BY <1>1 DEF ClientClose, serverVars
<1>3. ASSUME NEW d \in Client, d # c, NEW x \in Requests(d)
      PROVE  StillPending(x)
  <2>1. x \in Msg /\ x \notin Requests(c) /\ \A y \in Msg : x \notin frags[y]
    BY SMTT(60), <1>3, HeldApart DEF OwnInv, ClientsOK
  <2>2. x \notin gone
    <3>1. \A y \in Held(c) : y \in Requests(c) \/ \E z \in Msg : y \in frags[z]
      BY QueuesTyped DEF Held, Behind, Requests
    <3> QED BY <1>1, <2>1, <3>1
  <2>3. req'[x] = req[x] /\ nfrag_done'[x] = nfrag_done[x] /\ frags'[x] = frags[x]
    BY <1>2, <2>1, <2>2 DEF Reset
  <2> QED BY <1>2, <2>3 DEF StillPending, Complete
<1>4. \A d \in Client : d # c /\ Registered(d) => d \in send_active
  BY SMTT(60), NilIsNone DEF Idle, Registered, OwnInv, ForwardOK
<1>5. \A d \in Client : d # c => c_omsg_q'[d] = c_omsg_q[d]
  BY <1>2 DEF TypeOK, QueueTypes
<1>6. c \notin Server
  BY ConstantsAssumption
<1> QED BY <1>2, <1>3, <1>4, <1>5, <1>6, OthersWoken
=============================================================================
