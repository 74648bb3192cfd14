--------------------------- MODULE PipelineProofs ---------------------------
(***************************************************************************)
(* Theorems about the request pipeline, for any number of clients, servers *)
(* and messages.                                                           *)
(***************************************************************************)
EXTENDS PipelineLinks, PipelineClients

USE ZenonT(60)

\* server_close counts the fragments it fails; only their vectors are changed.
LEMMA ServerCloseCounts ==
    ASSUME TypeOK, NEW s \in Server, NEW expired, ServerClose(s, expired)
    PROVE  /\ nfrag_done' \in [Msg -> Nat]
           /\ \A m \in Msg : nfrag_done'[m] # nfrag_done[m] =>
                 \E f \in Carried(s) : /\ f \notin swallow /\ ~Noreply(f)
                                       /\ req[f].frag_owner = m
<1>1. Carried(s) \subseteq Msg /\ nfrag_done \in [Msg -> Nat]
  BY QueuedIsMsg DEF TypeOK, MsgTypes
<1> DEFINE lost(m) == {f \in Carried(s) : f \notin swallow /\ ~Noreply(f) /\ req[f].frag_owner = m}
<1>2. nfrag_done' = [m \in Msg |-> nfrag_done[m] + Cardinality(lost(m))]
  <2>1. \A m \in Msg :
          {f \in Carried(s) \ {x \in Carried(s) : x \in swallow \/ Noreply(x)} : req[f].frag_owner = m}
            = lost(m)
    OBVIOUS
  <2>2. nfrag_done' = [m \in Msg |-> nfrag_done[m] + Cardinality(
          {f \in Carried(s) \ {x \in Carried(s) : x \in swallow \/ Noreply(x)} : req[f].frag_owner = m})]
    BY DEF ServerClose
  <2> QED BY <2>1, <2>2
<1>3. \A m \in Msg : /\ Cardinality(lost(m)) \in Nat
                     /\ Cardinality(lost(m)) # 0 => lost(m) # {}
  <2> TAKE m \in Msg
  <2>1. lost(m) \subseteq Msg
    BY <1>1
  <2>2. IsFiniteSet(lost(m))
    BY <2>1, FS_Subset, ConstantsAssumption
  <2> QED BY <2>2, FS_CardinalityType, FS_EmptySet
<1>4. \A m \in Msg : lost(m) # {} =>
         \E f \in Carried(s) : f \notin swallow /\ ~Noreply(f) /\ req[f].frag_owner = m
  OBVIOUS
<1> HIDE DEF lost
<1>5. nfrag_done' \in [Msg -> Nat]
  BY SMTT(60), <1>1, <1>2, <1>3
<1>6. \A m \in Msg : nfrag_done'[m] # nfrag_done[m] => lost(m) # {}
  BY SMTT(60), <1>1, <1>2, <1>3
<1> QED BY <1>4, <1>5, <1>6

LEMMA TypeStep ==
    ASSUME TypeOK, [Next]_vars
    PROVE  TypeOK'
<1>1. ASSUME NEW c \in Client, ClientRead(c)
      PROVE  TypeOK'
  <2>1. ASSUME NEW m \in Msg, NEW kind \in Kinds, NEW n \in 1..MaxFrag, NEW q \in [1..n -> Msg],
               ReadVector(c, m, q, kind)
        PROVE  TypeOK'
    <3>1. q \in Seq(Msg)
      BY SMTT(60), ConstantsAssumption
    <3> QED BY <2>1, <3>1, ReadVectorTypes
  <2> QED BY <1>1, <2>1, QuietTypes, ReadTypes, ReadLocalTypes DEF ClientRead
<1>2. ASSUME NEW c \in Client, ClientWrite(c)
      PROVE  TypeOK'
  BY <1>2, RspSendNextTypes, RspSendDoneTypes, QuietTypes DEF ClientWrite
<1>3. ASSUME NEW c \in Client, CoreClose(c) \/ ClientReset(c)
      PROVE  TypeOK'
  BY <1>3, ClientCloseTypes DEF CoreClose, ClientReset
<1>4. Forward => TypeOK'
  BY ReqForwardTypes, ReqForwardErrorTypes DEF Forward
<1>5. ASSUME NEW s \in Server, ServerWrite(s)
      PROVE  TypeOK'
  BY <1>5, ServerConnectedTypes, ReqSendDoneTypes, EarlyAnswerTypes, QuietTypes DEF ServerWrite
<1>6. ASSUME NEW s \in Server, ServerRead(s) \/ ServerDown(s)
      PROVE  TypeOK'
  BY <1>6, ServerCloseTypes, ServerCloseCounts, RspSwallowTypes, RspForwardTypes DEF ServerRead, ServerDown, RspReject
<1>7. ASSUME NEW m \in Msg, Timeout(m) \/ TimeoutSkip(m)
      PROVE  TypeOK'
  <2>1. Timeout(m) => tmo[m] \in Server /\ ServerClose(tmo[m], {m})
    BY DEF Timeout, TypeOK, MsgTypes
  <2> QED BY <1>7, <2>1, ServerCloseTypes, ServerCloseCounts, TimeoutSkipTypes
<1>8. UNCHANGED vars => TypeOK'
  BY SameTypes DEF vars, msgVars, flagVars, clientVars, serverVars, connVars, loopVars, envVars, TypeOK
<1> QED BY <1>1, <1>2, <1>3, <1>4, <1>5, <1>6, <1>7, <1>8, QuietTypes DEF Next

\* Every reachable state of a worker, whatever the numbers of clients, servers,
\* messages and fragments: the pipeline is type correct.
THEOREM TypeCorrect == Spec => []TypeOK
<1>1. Init => TypeOK
  <2> SUFFICES ASSUME Init
               PROVE  TypeOK
    OBVIOUS
  <2>1. NoAnswer \in Identity /\ NoReply \in Outcome /\ Blank \in Request
    BY BlankTyped DEF NoAnswer, NoReply, Identity, Outcome
  <2>2. MsgTypes /\ FlagTypes /\ ConnTypes
    BY <2>1 DEF Init, MsgTypes, FlagTypes, ConnTypes
  <2>3. QueueTypes /\ LoopTypes
    <3>1. <<>> \in Seq(Msg) /\ 0 \in Nat
      BY SMTT(60)
    <3> QED BY <3>1 DEF Init, QueueTypes, LoopTypes
  <2>4. PeerTypes
    BY SMTT(60), <2>1 DEF Init, PeerTypes
  <2> QED BY <2>2, <2>3, <2>4 DEF TypeOK
<1>2. TypeOK /\ [Next]_vars => TypeOK'
  BY TypeStep
<1> QED BY <1>1, <1>2, PTL DEF Spec

-----------------------------------------------------------------------------
(* The kinds of step *)

\* No message changes its place.
QuietStep ==
    \/ \E c \in Client : Accept(c) \/ ReadEof(c) \/ RspSendIdle(c)
    \/ \E s \in Server : ReqSendIdle(s) \/ EarlyAnswer(s)
    \/ \E m \in Msg : TimeoutSkip(m)
    \/ Terminate \/ UNCHANGED vars

\* c is read from, and m is what is parsed.
ReadStep(c, m) ==
    \/ \E kind : ReadSingle(c, m, kind)
    \/ \E kind : \E q \in Seq(Msg) : q # <<>> /\ ReadVector(c, m, q, kind)
    \/ ReadLocal(c, m)

\* The server connection s finishes one of its requests.
ServerStep(s) == ReqSendDone(s) \/ RspSwallow(s) \/ \E bad \in BOOLEAN : RspForward(s, bad)

\* The server connection s is closed: the requests of expired, whose timers
\* fired, are among its own.
CloseStep(s, expired) ==
    /\ recving = Nil
    /\ \A x \in expired : x \in Carried(s)
    /\ ServerClose(s, expired)

ReplyStep(c) == RspSendDone(c) \/ \E i : RspSendNext(c, i)

HangupStep(c) ==
    /\ (Idle /\ c \in open) \/ sending = c \/ recving = c
    /\ frag_msgq = <<>>
    /\ ClientClose(c)

\* core_timeout needs the links: the connection it closes is the one that has
\* the request.
LEMMA NextCases ==
    ASSUME TypeOK, OwnInv, LinkInv, [Next]_vars
    PROVE  \/ QuietStep
           \/ \E c \in Client, m \in Msg : ReadStep(c, m)
           \/ ReqForwardError
           \/ \E s \in Server : ReqForward(s)
           \/ \E s \in Server : ServerConnected(s)
           \/ \E s \in Server : ServerStep(s)
           \/ \E s \in Server : \E expired : CloseStep(s, expired)
           \/ \E c \in Client : ReplyStep(c)
           \/ \E c \in Client : HangupStep(c)
<1>1. ASSUME NEW c \in Client, ClientRead(c)
      PROVE  QuietStep \/ \E m \in Msg : ReadStep(c, m)
  <2>1. ASSUME NEW m \in Msg, NEW kind \in Kinds, NEW n \in 1..MaxFrag, NEW q \in [1..n -> Msg],
               ReadVector(c, m, q, kind)
        PROVE  ReadStep(c, m)
    <3>1. q \in Seq(Msg) /\ q # <<>>
      BY SMTT(60), ConstantsAssumption
    <3> QED BY <2>1, <3>1 DEF ReadStep
  <2> QED BY <1>1, <2>1 DEF ClientRead, QuietStep, ReadStep
<1>2. ASSUME NEW c \in Client, ClientWrite(c)
      PROVE  QuietStep \/ ReplyStep(c)
  BY <1>2 DEF ClientWrite, QuietStep, ReplyStep
<1>3. ASSUME NEW c \in Client, CoreClose(c) \/ ClientReset(c)
      PROVE  HangupStep(c)
  BY <1>3, NilIsNone DEF CoreClose, ClientReset, Idle, OwnInv, ForwardOK, HangupStep
<1>4. ASSUME NEW s \in Server, ServerWrite(s)
      PROVE  QuietStep \/ ServerConnected(s) \/ ServerStep(s)
  BY <1>4 DEF ServerWrite, QuietStep, ServerStep
<1>5. ASSUME NEW s \in Server, ServerRead(s) \/ ServerDown(s)
      PROVE  ServerStep(s) \/ CloseStep(s, {})
  BY <1>5 DEF ServerRead, ServerDown, RspReject, CanAnswer, Idle, ServerStep, CloseStep
<1>6. ASSUME NEW m \in Msg, Timeout(m)
      PROVE  \E s \in Server : CloseStep(s, {m})
  <2>1. tmo[m] \in Server /\ m \in Carried(tmo[m])
    BY <1>6, TimeoutCarried
  <2> QED BY <1>6, <2>1 DEF Timeout, Idle, CloseStep
<1>7. ASSUME NEW m \in Msg, TimeoutSkip(m)
      PROVE  QuietStep
  BY <1>7 DEF QuietStep
<1>8. Terminate \/ UNCHANGED vars => QuietStep
  BY DEF QuietStep
<1> QED BY <1>1, <1>2, <1>3, <1>4, <1>5, <1>6, <1>7, <1>8 DEF Next, Forward

\* Steps that finish requests, and steps that put messages back.
LEMMA StepFinishes ==
    ASSUME TypeOK, TypeOK', OwnInv, NEW s \in Server,
           ServerStep(s) \/ \E expired : CloseStep(s, expired)
    PROVE  Finishes
<1>1. ServerStep(s) => Finishes
  BY ReqSendDoneFinishes, RspSwallowFinishes, RspForwardFinishes DEF ServerStep
<1>2. ASSUME NEW expired, CloseStep(s, expired)
      PROVE  Finishes
  BY <1>2, ServerCloseCounts, ServerCloseFinishes DEF CloseStep
<1> QED BY <1>1, <1>2

LEMMA StepPuts ==
    ASSUME TypeOK, OwnInv, NEW c \in Client, ReplyStep(c) \/ HangupStep(c)
    PROVE  Puts
BY RspSendNextPuts, RspSendDonePuts, ClientClosePuts DEF ReplyStep, HangupStep

-----------------------------------------------------------------------------
(* Ownership and links *)

LEMMA OwnStep ==
    ASSUME TypeOK, TypeOK', OwnInv, LinkInv, [Next]_vars
    PROVE  OwnInv' /\ LinkInv'
<1>1. QuietStep => OwnInv' /\ LinkInv'
  BY QuietSteps, QuietStepsLinks DEF QuietStep
<1>2. ASSUME NEW c \in Client, NEW m \in Msg, ReadStep(c, m)
      PROVE  OwnInv' /\ LinkInv'
  BY <1>2, ReadSingleOwn, ReadSingleLinks, ReadVectorOwn, ReadVectorLinks, ReadLocalOwn, ReadLocalLinks
     DEF ReadStep
<1>3. ReqForwardError => OwnInv' /\ LinkInv'
  BY ReqForwardErrorOwn, ReqForwardErrorLinks
<1>4. ASSUME NEW s \in Server, ReqForward(s) \/ ServerConnected(s)
      PROVE  OwnInv' /\ LinkInv'
  BY <1>4, ReqForwardOwn, ReqForwardLinks, ServerConnectedOwn, ServerConnectedLinks
<1>5. Finishes \/ Puts => OwnInv' /\ LinkInv'
  BY FinishesOwn, FinishesLinks, PutsOwn, PutsLinks
<1> QED BY <1>1, <1>2, <1>3, <1>4, <1>5, NextCases, StepFinishes, StepPuts

LEMMA Owned == Spec => [](OwnInv /\ LinkInv)
<1>1. Init => OwnInv /\ LinkInv
  BY InitOwn, InitLinks
<1>2. TypeOK /\ TypeOK' /\ OwnInv /\ LinkInv /\ [Next]_vars => OwnInv' /\ LinkInv'
  BY OwnStep
<1> QED BY TypeCorrect, <1>1, <1>2, PTL DEF Spec

\* No message is put back into the pool (req_put) while the queue of a client or
\* of a server, a vector or the timer tree still points to it, however reads,
\* answers, timeouts and closed connections interleave.
THEOREM NothingUsedAfterFree == Spec => []NoUseAfterFree
<1>1. TypeOK /\ OwnInv => NoUseAfterFree
  BY OwnershipIsSafe
<1> QED BY TypeCorrect, Owned, <1>1, PTL

\* A request that a client waits for (in its omsg_q, or behind a vector of it) and
\* that is not done is about to be forwarded or in exactly one queue of exactly
\* one server connection: req_forward, req_send_done, server_close and
\* client_close never drop one and never duplicate one.
THEOREM NoRequestLost == Spec => []NeverLost
<1>1. TypeOK /\ OwnInv /\ LinkInv => NeverLost
  BY KeptIsNeverLost
<1> QED BY TypeCorrect, Owned, <1>1, PTL

-----------------------------------------------------------------------------
(* Connections *)

LEMMA ConnStep ==
    ASSUME TypeOK, TypeOK', OwnInv, LinkInv, ConnInv, [Next]_vars
    PROVE  ConnInv'
<1>1. QuietStep => ConnInv'
  BY QuietConns DEF QuietStep
<1>2. ASSUME NEW c \in Client, NEW m \in Msg, ReadStep(c, m)
      PROVE  ConnInv'
  BY <1>2, ReadConns DEF ReadStep
<1>3. ReqForwardError => ConnInv'
  BY ReqForwardErrorConns
<1>4. ASSUME NEW s \in Server, ReqForward(s) \/ ServerConnected(s) \/ ServerStep(s)
      PROVE  ConnInv'
  BY <1>4, ReqForwardConns, ServerConns, RspForwardConns DEF ServerStep
<1>5. ASSUME NEW s \in Server, NEW expired, CloseStep(s, expired)
      PROVE  ConnInv'
  BY <1>5, ServerCloseConns DEF CloseStep
<1>6. ASSUME NEW c \in Client, ReplyStep(c) \/ HangupStep(c)
      PROVE  ConnInv'
  BY <1>6, ReplyConns, ClientCloseConns DEF ReplyStep, HangupStep
<1> QED BY <1>1, <1>2, <1>3, <1>4, <1>5, <1>6, NextCases

LEMMA Connections == Spec => []ConnInv
<1>1. TypeOK /\ TypeOK' /\ OwnInv /\ LinkInv /\ ConnInv /\ [Next]_vars => ConnInv'
  BY ConnStep
<1> QED BY TypeCorrect, Owned, InitConns, <1>1, PTL DEF Spec

\* A connection that was closed holds no message, is registered for no event and
\* has no flag set (conn_put), although server_close, rsp_forward and req_done
\* wake clients and set their err through the owner of a message alone.
THEOREM NothingLeftBehind == Spec => []ClosedIsClean
<1>1. ConnInv => ClosedIsClean
  BY DEF ConnInv
<1> QED BY Connections, <1>1, PTL

\* msg->owner, the head of its omsg_q and msg->frag_owner can be followed for
\* every request a server connection still has to answer: the client is open and
\* still holds the request, or its vector.
THEOREM OwnersFollowed == Spec => []OwnerAlive
<1>1. ASSUME TypeOK, OwnInv, LinkInv, ConnInv
      PROVE  OwnerAlive
  <2> SUFFICES ASSUME NEW s \in Server, NEW m \in Carried(s), m \notin swallow, ~Noreply(m)
               PROVE  LET c == req[m].owner IN
                      /\ m \notin done
                      /\ c \in open
                      /\ IF req[m].part = 0 THEN m \in Range(c_omsg_q[c])
                         ELSE /\ req[m].frag_owner \in Range(c_omsg_q[c])
                              /\ m \in frags[req[m].frag_owner]
    BY DEF OwnerAlive
  <2> DEFINE c == req[m].owner
  <2>1. /\ c \in Client
        /\ req[m].part = 0 => m \in Range(c_omsg_q[c])
        /\ req[m].part # 0 => req[m].frag_owner \in Range(c_omsg_q[c])
    BY <1>1 DEF LinkInv, OwnersOK, Requests
  <2>2. m \notin done /\ (req[m].part # 0 => m \in frags[req[m].frag_owner])
    BY <1>1 DEF OwnInv, ServersOK
  <2>3. c_omsg_q[c] # <<>>
    BY <2>1, RangeEmpty
  <2>4. c \in open
    BY <1>1, <2>1, <2>3 DEF ConnInv, ClosedIsClean
  <2> QED BY <2>1, <2>2, <2>4
<1> QED BY TypeCorrect, Owned, Connections, <1>1, PTL

\* core_timeout finds behind the earliest timer a connection that is open and
\* still has the unfinished request; with a timeout configured nothing that
\* expects an answer waits without a timer.
THEOREM TimersReachTheirRequests == Spec => []TimerSound
<1>1. ASSUME TypeOK, OwnInv, LinkInv, ConnInv
      PROVE  TimerSound
  <2>1. ASSUME NEW m \in Msg, tmo[m] # Nil, m \notin done \cup error
        PROVE  tmo[m] \in open /\ m \in Carried(tmo[m])
    <3>1. tmo[m] \in Server /\ m \in Carried(tmo[m])
      BY <1>1, <2>1 DEF TypeOK, MsgTypes, LinkInv, TimersOK
    <3>2. imsg_q[tmo[m]] # <<>> \/ s_omsg_q[tmo[m]] # <<>>
      BY <3>1, RangeEmpty DEF Carried
    <3> QED BY <1>1, <3>1, <3>2 DEF ConnInv, ClosedIsClean
  <2>2. HasTimeout => \A s \in Server : \A m \in Carried(s) : ~Noreply(m) => tmo[m] = s
    BY <1>1 DEF LinkInv, TimersOK
  <2> QED BY <2>1, <2>2 DEF TimerSound
<1> QED BY TypeCorrect, Owned, Connections, <1>1, PTL

-----------------------------------------------------------------------------
(* Write events *)

LEMMA WakeStep ==
    ASSUME TypeOK, TypeOK', OwnInv, LinkInv, ConnInv, WakeInv, [Next]_vars
    PROVE  WakeInv'
<1>1. QuietStep => WakeInv'
  BY QuietWakes DEF QuietStep
<1>2. ASSUME NEW c \in Client, NEW m \in Msg, ReadStep(c, m)
      PROVE  WakeInv'
  BY <1>2, ReadSingleWakes, ReadVectorWakes, ReadLocalWakes DEF ReadStep
<1>3. ReqForwardError => WakeInv'
  BY ReqForwardErrorWakes
<1>4. ASSUME NEW s \in Server, ReqForward(s) \/ ServerConnected(s)
      PROVE  WakeInv'
  BY <1>4, ReqForwardWakes, ServerConnectedWakes
<1>5. ASSUME NEW s \in Server, ServerStep(s)
      PROVE  WakeInv'
  BY <1>5, ReqSendDoneWakes, RspSwallowWakes, RspForwardWakes DEF ServerStep
<1>6. ASSUME NEW s \in Server, NEW expired, CloseStep(s, expired)
      PROVE  WakeInv'
  BY <1>6, ServerCloseCounts, ServerCloseWakes DEF CloseStep
<1>7. ASSUME NEW c \in Client, ReplyStep(c) \/ HangupStep(c)
      PROVE  WakeInv'
  BY <1>7, RspSendDoneWakes, RspSendNextWakes, ClientCloseWakes DEF ReplyStep, HangupStep
<1> QED BY <1>1, <1>2, <1>3, <1>4, <1>5, <1>6, <1>7, NextCases

\* No wakeup is lost: with edge-triggered events, whenever the event loop waits,
\* a client whose oldest request is done, or that only waits to be closed, and a
\* server connection with something to write, are registered for write events.
THEOREM WakeupsKept == Spec => []NoLostWakeup
<1>1. TypeOK /\ TypeOK' /\ OwnInv /\ LinkInv /\ ConnInv /\ WakeInv /\ [Next]_vars => WakeInv'
  BY WakeStep
<1>2. TypeOK /\ WakeInv => NoLostWakeup
  BY WakeIsNoLostWakeup
<1> QED BY TypeCorrect, Owned, Connections, InitWakes, <1>1, <1>2, PTL DEF Spec

-----------------------------------------------------------------------------
(* Answers and requests *)

LEMMA PairStep ==
    ASSUME TypeOK, TypeOK', OwnInv, LinkInv, ConnInv, PairInv, [Next]_vars
    PROVE  PairInv'
<1>1. ASSUME QuietStep
      PROVE  PairInv'
  <2>1. \/ /\ UNCHANGED <<req, done, peer, wire, imsg_q, s_omsg_q>>
           /\ connecting' \subseteq connecting
        \/ \E s \in Server : EarlyAnswer(s)
    BY <1>1 DEF QuietStep, Accept, ReadEof, RspSendIdle, ReqSendIdle, TimeoutSkip, Terminate, vars,
                msgVars, flagVars, clientVars, serverVars, connVars, loopVars, envVars
  <2> QED BY <2>1, QuietPairs, EarlyAnswerPairs
<1>2. ASSUME NEW c \in Client, NEW m \in Msg, ReadStep(c, m)
      PROVE  PairInv'
  BY <1>2, ReadPairs DEF ReadStep
<1>3. ReqForwardError => PairInv'
  BY ReqForwardErrorPairs
<1>4. ASSUME NEW s \in Server, ReqForward(s) \/ ServerConnected(s)
      PROVE  PairInv'
  BY <1>4, ReqForwardPairs, ServerConnectedPairs
<1>5. ASSUME NEW s \in Server, ServerStep(s)
      PROVE  PairInv'
  BY <1>5, ReqSendDonePairs, RspSwallowPairs, RspForwardPairs DEF ServerStep
<1>6. ASSUME NEW s \in Server, NEW expired, CloseStep(s, expired)
      PROVE  PairInv'
  BY <1>6, ServerClosePairs DEF CloseStep
<1>7. ASSUME NEW c \in Client, ReplyStep(c) \/ HangupStep(c)
      PROVE  PairInv'
  BY <1>7, PutPairs DEF ReplyStep, HangupStep
<1> QED BY <1>1, <1>2, <1>3, <1>4, <1>5, <1>6, <1>7, NextCases

LEMMA InPairs == Spec => []PairInv
<1>1. TypeOK /\ TypeOK' /\ OwnInv /\ LinkInv /\ ConnInv /\ PairInv /\ [Next]_vars => PairInv'
  BY PairStep
<1> QED BY TypeCorrect, Owned, Connections, InitPairs, <1>1, PTL DEF Spec

\* rsp_filter matches an answer with the head of the server's omsg_q: that is
\* always the request it answers, whatever was swallowed, timed out, failed or
\* answered before the request was completely written.
THEOREM AnswersMatchRequests == Spec => []Paired
<1>1. TypeOK /\ PairInv => Paired
  BY PairsArePaired
<1> QED BY TypeCorrect, InPairs, <1>1, PTL

-----------------------------------------------------------------------------
(* Fragments and their vectors *)

LEMMA CountStep ==
    ASSUME TypeOK, TypeOK', OwnInv, LinkInv, CountInv, [Next]_vars
    PROVE  CountInv'
<1>1. ASSUME QuietStep
      PROVE  CountInv'
  <2>1. UNCHANGED <<req, nfrag_done, frags, done, frag_msgq, c_omsg_q>>
    BY <1>1 DEF QuietStep, Accept, ReadEof, RspSendIdle, ReqSendIdle, EarlyAnswer, TimeoutSkip,
                Terminate, vars, msgVars, flagVars, clientVars, serverVars, connVars, loopVars, envVars
  <2> QED BY <2>1, QuietCounts
<1>2. ASSUME NEW c \in Client, NEW m \in Msg, ReadStep(c, m)
      PROVE  CountInv'
  BY <1>2, ReadSingleCounts, ReadVectorCounts, ReadLocalCounts DEF ReadStep
<1>3. ReqForwardError => CountInv'
  BY ReqForwardErrorCounts
<1>4. ASSUME NEW s \in Server, ReqForward(s) \/ ServerConnected(s)
      PROVE  CountInv'
  BY <1>4, ReqForwardCounts, ServerConnectedCounts
<1>5. ASSUME NEW s \in Server, ServerStep(s)
      PROVE  CountInv'
  BY <1>5, WrittenCounts, RspForwardCounts DEF ServerStep
<1>6. ASSUME NEW s \in Server, NEW expired, CloseStep(s, expired)
      PROVE  CountInv'
  BY <1>6, ServerCloseCounted DEF CloseStep
<1>7. ASSUME NEW c \in Client, ReplyStep(c) \/ HangupStep(c)
      PROVE  CountInv'
  BY <1>7, RspSendNextCounts, RspSendDoneCounts, ClientCloseCounts DEF ReplyStep, HangupStep
<1> QED BY <1>1, <1>2, <1>3, <1>4, <1>5, <1>6, <1>7, NextCases

\* req_done coalesces a vector only when all of its fragments are queued behind it
\* and done, and no fragment is counted twice, whether it is answered
\* (rsp_forward), fails with its server (server_close) or cannot be forwarded
\* (req_forward_error).
THEOREM FragmentsComplete == Spec => []FragmentsCounted
<1>1. TypeOK /\ TypeOK' /\ OwnInv /\ LinkInv /\ CountInv /\ [Next]_vars => CountInv'
  BY CountStep
<1>2. TypeOK /\ OwnInv /\ CountInv => FragmentsCounted
  BY CountsAreSound
<1> QED BY TypeCorrect, Owned, InitCounts, <1>1, <1>2, PTL DEF Spec

-----------------------------------------------------------------------------
(* Sessions with servers *)

LEMMA SessionStep ==
    ASSUME TypeOK, TypeOK', OwnInv, LinkInv, ConnInv, SessionInv, [Next]_vars
    PROVE  SessionInv'
<1>1. ASSUME RequestsKept, UNCHANGED <<imsg_q, session, authenticated, connecting>>,
             \A s \in Server : s \in open' => s \in open
      PROVE  SessionInv'
  BY <1>1, SameSessions
<1>2. ASSUME QuietStep
      PROVE  SessionInv'
  <2>1. /\ UNCHANGED <<req, imsg_q, session, authenticated, connecting>>
        /\ open' = open \/ \E c \in Client : open' = open \cup {c}
    BY <1>2 DEF QuietStep, Accept, ReadEof, RspSendIdle, ReqSendIdle, EarlyAnswer, TimeoutSkip,
                Terminate, vars, msgVars, flagVars, clientVars, serverVars, connVars, loopVars, envVars
  <2>2. RequestsKept /\ \A s \in Server : s \in open' => s \in open
    BY <2>1, ConstantsAssumption DEF RequestsKept
  <2> QED BY <1>1, <2>1, <2>2
<1>3. ASSUME NEW c \in Client, NEW m \in Msg, ReadStep(c, m)
      PROVE  SessionInv'
  <2>1. UNCHANGED <<imsg_q, session, authenticated, connecting, open>>
    BY <1>3 DEF ReadStep, ReadSingle, ReadVector, ReadLocal, serverVars, connVars
  <2>2. RequestsKept
    BY <1>3, KeptByRead DEF ReadStep
  <2> QED BY <1>1, <2>1, <2>2
<1>4. ASSUME ReqForwardError
      PROVE  SessionInv'
  <2>1. UNCHANGED <<imsg_q, session, authenticated, connecting, open>>
    BY <1>4 DEF ReqForwardError, serverVars, envVars
  <2>2. RequestsKept
    BY <1>4, KeptByForward
  <2> QED BY <1>1, <2>1, <2>2
<1>5. ASSUME NEW s \in Server, ReqForward(s) \/ ServerConnected(s) \/ ReqSendDone(s)
      PROVE  SessionInv'
  BY <1>5, ReqForwardSessions, ServerConnectedSessions, ReqSendDoneSessions
<1>6. ASSUME NEW s \in Server, RspSwallow(s) \/ \E bad \in BOOLEAN : RspForward(s, bad)
      PROVE  SessionInv'
  <2>1. UNCHANGED <<imsg_q, authenticated, connecting, open>>
    BY <1>6 DEF RspSwallow, RspForward, serverVars, connVars
  <2>2. UNCHANGED session
    BY <1>6 DEF RspSwallow, RspForward, envVars
  <2>3. RequestsKept
    BY <1>6, KeptByFinish, StepFinishes DEF ServerStep
  <2> QED BY <1>1, <2>1, <2>2, <2>3
<1>7. ASSUME NEW s \in Server, NEW expired, CloseStep(s, expired)
      PROVE  SessionInv'
  BY <1>7, ServerCloseSessions DEF CloseStep
<1>8. ASSUME NEW c \in Client, ReplyStep(c) \/ HangupStep(c)
      PROVE  SessionInv'
  <2>1. UNCHANGED <<imsg_q, session, authenticated, connecting>> /\ open' \subseteq open
    BY <1>8 DEF ReplyStep, HangupStep, RspSendDone, RspSendNext, ClientClose, serverVars, connVars, envVars
  <2>2. RequestsKept
    BY <1>8, KeptByPut, StepPuts
  <2> QED BY <1>1, <2>1, <2>2
<1> QED BY <1>2, <1>3, <1>4, <1>5, <1>6, <1>7, <1>8, NextCases DEF ServerStep

LEMMA Sessions == Spec => []SessionInv
<1>1. TypeOK /\ TypeOK' /\ OwnInv /\ LinkInv /\ ConnInv /\ SessionInv /\ [Next]_vars => SessionInv'
  BY SessionStep
<1> QED BY TypeCorrect, Owned, Connections, InitSessions, <1>1, PTL DEF Spec

\* With redis_auth configured, no request of a client is written to a server
\* before the server has granted AUTH on this very connection, although requests
\* are queued before the connection is made (conn_authenticated, redis_add_auth).
THEOREM AuthenticatedFirst == Spec => AuthFirst
<1>1. TypeOK /\ SessionInv => [RequireAuth => Prepared("auth")]_vars
  BY SessionsPrepare
<1> QED BY TypeCorrect, Sessions, <1>1, PTL DEF AuthFirst

\* With redis_db configured and no password, over TCP, no request of a client is
\* written to a server before the SELECT of this connection (redis_post_connect).
THEOREM SelectedFirst ==
    ASSUME ~RequireAuth, ~UnixSocket
    PROVE  Spec => InSelectedDb
<1>1. TypeOK /\ SessionInv => [SelectDb => Prepared("db")]_vars
  BY SessionsPrepare
<1> QED BY TypeCorrect, Sessions, <1>1, PTL DEF InSelectedDb

-----------------------------------------------------------------------------
(* The service clients get *)

\* Some client sees a step of Service, or parts of requests fail.
ServiceStep ==
    \/ \E c \in Client : Service!Connect(c) \/ Service!Submit(c) \/ Service!Reply(c) \/ Service!Hangup(c)
    \/ Service!Fail

LEMMA ServeStep ==
    ASSUME TypeOK, TypeOK', OwnInv, LinkInv, ConnInv, Paired, ServeInv, [Next]_vars
    PROVE  ServeInv' /\ ServiceStep
<1>1. QuietStep => ServeInv' /\ ServiceStep
  BY QuietServes DEF QuietStep, ServiceStep
<1>2. ASSUME NEW c \in Client, NEW m \in Msg, ReadStep(c, m)
      PROVE  ServeInv' /\ ServiceStep
  BY <1>2, ReadSingleServes, ReadVectorServes, ReadLocalServes DEF ReadStep, ServiceStep
<1>3. ReqForwardError => ServeInv' /\ ServiceStep
  BY ReqForwardErrorServes DEF ServiceStep
<1>4. ASSUME NEW s \in Server, ReqForward(s) \/ ServerConnected(s)
      PROVE  ServeInv' /\ ServiceStep
  BY <1>4, ReqForwardServes, ServerConnectedServes DEF ServiceStep
<1>5. ASSUME NEW s \in Server, ServerStep(s)
      PROVE  ServeInv' /\ ServiceStep
  BY <1>5, StepFinishes, ServerServes, RspForwardServes DEF ServerStep, ServiceStep
<1>6. ASSUME NEW s \in Server, NEW expired, CloseStep(s, expired)
      PROVE  ServeInv' /\ ServiceStep
  BY <1>6, StepFinishes, ServerCloseServes DEF CloseStep, ServiceStep
<1>7. ASSUME NEW c \in Client, ReplyStep(c)
      PROVE  ServeInv' /\ ServiceStep
  BY <1>7, StepPuts, RspSendNextServes, RspSendDoneServes DEF ReplyStep, ServiceStep
<1>8. ASSUME NEW c \in Client, HangupStep(c)
      PROVE  ServeInv' /\ ServiceStep
  <2>1. c \in open
    BY <1>8, NilIsNone DEF HangupStep, ConnInv
  <2> QED BY <1>8, <2>1, StepPuts, ClientCloseServes DEF HangupStep, ServiceStep
<1> QED BY <1>1, <1>2, <1>3, <1>4, <1>5, <1>6, <1>7, <1>8, NextCases

\* The pipeline implements Service: the requests of a client are answered one by
\* one in the order in which they were read, each with the answer to that very
\* request, or with an error if a part of it failed (req_done, req_error,
\* rsp_send_next, rsp_send_done), whatever servers, timers and other clients do.
THEOREM ServesInOrder == Spec => ServedInOrder
<1>1. Init => Service!ServiceInit
  <2> SUFFICES ASSUME Init
               PROVE  Service!ServiceInit
    OBVIOUS
  <2>1. open \cap Client = {} /\ out = [c \in Client |-> NoReply]
    BY DEF Init
  <2>2. ASSUME NEW c \in Client
        PROVE  Waits[c] = <<>>
    <3>1. c_omsg_q[c] = <<>>
      BY DEF Init
    <3>2. <<>> \in Seq(Msg) /\ Len(<<>>) = 0
      BY SMTT(60)
    <3>3. Waits[c] \in Seq(EntrySet) /\ Len(Waits[c]) = 0
      BY <3>1, <3>2, WaitsOf
    <3> QED BY <3>3, IsEmpty
  <2>3. Waits = [c \in Client |-> <<>>]
    BY <2>2, WaitsIsFunction
  <2> QED BY <2>1, <2>3 DEF Waits, Service!ServiceInit, NoReply, NoAnswer, Service!NoReply
<1>2. Spec => [](TypeOK /\ OwnInv /\ LinkInv /\ ConnInv /\ Paired)
  BY TypeCorrect, Owned, Connections, AnswersMatchRequests, PTL
<1>3. ASSUME TypeOK, TypeOK', OwnInv, LinkInv, ConnInv, Paired, ServeInv, [Next]_vars
      PROVE  ServeInv' /\ [Service!ServiceNext]_(Service!serviceVars)
  <2>1. ServeInv' /\ ServiceStep
    BY <1>3, ServeStep
  <2>2. ServiceStep => [Service!ServiceNext]_(Service!serviceVars)
    BY DEF ServiceStep, Service!ServiceNext
  <2> QED BY <2>1, <2>2
<1> QED BY <1>1, <1>2, <1>3, InitServes, PTL DEF Spec, ServedInOrder, Service!ServiceSpec
==============================================================================
