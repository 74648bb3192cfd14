-------------------------- MODULE PipelineClients ---------------------------
(***************************************************************************)
(* What clients see: the fragments of a vector are counted once, and every *)
(* step is a step of Service, or one that no client sees.                  *)
(***************************************************************************)
EXTENDS PipelineOwnership, PipelineService, FiniteSetTheorems

\* Most leaves are first-order and set reasoning, for which Zenon is enough;
\* the others cite SMT.
USE ZenonT(60)

-----------------------------------------------------------------------------
(* Fragments and their vectors *)

\* The fragments of m that are still to be forwarded.
Pend(m) == {f \in Forwarding : req[f].frag_owner = m}

\* All fragments of m are behind it or still to be forwarded, and those behind it
\* that are not done have not been counted.
Counted(m) ==
    /\ nfrag_done[m] <= req[m].nfrag
    /\ frags[m] \cup Pend(m) # {} =>
          /\ Cardinality(frags[m] \cup Pend(m)) = req[m].nfrag
          /\ nfrag_done[m] + Cardinality(frags[m] \ done) <= Cardinality(frags[m])

CountInv == \A c \in Client : \A m \in Requests(c) : Counted(m)

\* What a step leaves alone of m.
SameCount(m) ==
    /\ req'[m] = req[m] /\ nfrag_done'[m] = nfrag_done[m] /\ frags'[m] = frags[m]
    /\ Pend(m)' = Pend(m) /\ frags[m] \ done' = frags[m] \ done

LEMMA InitCounts == Init => CountInv
<1> SUFFICES ASSUME Init, NEW c \in Client
             PROVE  \A m \in Requests(c) : Counted(m)
  BY DEF CountInv
<1>1. c_omsg_q[c] = <<>>
  BY DEF Init
<1> QED BY <1>1, RangeEmpty DEF Requests

LEMMA CountsKept ==
    ASSUME CountInv, NEW special,
           \A c \in Client : \A m \in Requests(c)' :
              m = special \/ (m \in Requests(c) /\ SameCount(m)),
           (\E c \in Client : special \in Requests(c)') => Counted(special)'
    PROVE  CountInv'
<1> SUFFICES ASSUME NEW c \in Client, NEW m \in Requests(c)'
             PROVE  Counted(m)'
  BY DEF CountInv
<1>1. CASE m = special
  BY <1>1
<1>2. CASE m \in Requests(c) /\ SameCount(m)
  <2>1. Counted(m)
    BY <1>2 DEF CountInv
  <2> QED BY <1>2, <2>1 DEF Counted, SameCount
<1> QED BY <1>1, <1>2

LEMMA NonePending ==
    ASSUME frag_msgq = <<>>, NEW m
    PROVE  Pend(m) = {}
BY RangeEmpty DEF Pend, Forwarding

LEMMA NonePendingNext ==
    ASSUME frag_msgq' = <<>>, NEW m
    PROVE  Pend(m)' = {}
BY RangeEmpty DEF Pend, Forwarding

\* A message about to be forwarded that is a fragment of m has a part of it.
LEMMA PendIsPart ==
    ASSUME TypeOK, OwnInv, NEW m \in Msg, NEW f \in Pend(m)
    PROVE  /\ f \in Forwarding /\ f \in Msg /\ req[f].part # 0 /\ req[f].frag_owner = m
           /\ m \in Requests(recving) /\ Uncounted(m)
<1>1. f \in Forwarding /\ f \in Msg /\ req[f].frag_owner = m /\ m # Nil
  BY QueuesTyped, NilIsNone DEF Pend
<1>2. ToForward(f)
  BY <1>1 DEF OwnInv, ForwardOK
<1>3. req[f].part # 0
  BY <1>1, <1>2 DEF OwnInv, VectorsOK, ToForward
<1> QED BY <1>1, <1>2, <1>3 DEF ToForward

LEMMA CountsAreSound ==
    ASSUME TypeOK, OwnInv, CountInv
    PROVE  FragmentsCounted
<1> SUFFICES ASSUME NEW c \in Client, NEW m \in Range(c_omsg_q[c])
             PROVE  /\ nfrag_done[m] <= req[m].nfrag
                    /\ m \in fdone => frags[m] \subseteq done
                    /\ (m \in fdone /\ frags[m] # {}) => Cardinality(frags[m]) = req[m].nfrag
  BY DEF FragmentsCounted
<1>1. Counted(m) /\ m \in Msg
  BY QueuesTyped DEF CountInv, Requests
<1>2. m \in fdone => frags[m] \subseteq done
  BY DEF OwnInv, VectorsOK
<1>3. m \in fdone => Pend(m) = {}
  BY <1>1, PendIsPart DEF Uncounted
<1>4. Pend(m) = {} => frags[m] \cup Pend(m) = frags[m]
  OBVIOUS
<1> QED BY <1>1, <1>2, <1>3, <1>4 DEF Counted

-----------------------------------------------------------------------------

\* Nothing that matters here changes.
LEMMA QuietCounts ==
    ASSUME CountInv, UNCHANGED <<req, nfrag_done, frags, done, frag_msgq, c_omsg_q>>
    PROVE  CountInv'
<1>1. \A m : Pend(m)' = Pend(m)
  BY DEF Pend, Forwarding
<1>2. \A c \in Client : Requests(c)' = Requests(c)
  BY DEF Requests
<1> QED BY <1>1, <1>2 DEF CountInv, Counted

\* Requests no client waits for change.
LEMMA OtherCounts ==
    ASSUME TypeOK, OwnInv, CountInv, recving = Nil,
           \A c \in Client : \A x \in Requests(c) : req'[x] = req[x],
           UNCHANGED <<nfrag_done, frags, done, frag_msgq, c_omsg_q>>
    PROVE  CountInv'
<1>1. frag_msgq = <<>> /\ frag_msgq' = <<>>
  BY DEF OwnInv, ForwardOK
<1>2. \A m : Pend(m) = {} /\ Pend(m)' = {}
  BY <1>1, NonePending, NonePendingNext
<1>3. \A c \in Client : Requests(c)' = Requests(c)
  BY DEF Requests
<1> QED BY <1>2, <1>3 DEF CountInv, Counted

LEMMA ReadSingleCounts ==
    ASSUME TypeOK, OwnInv, CountInv, NEW c \in Client, NEW m \in Msg, NEW kind,
           ReadSingle(c, m, kind)
    PROVE  CountInv'
<1>1. /\ m \in Free /\ recving = Nil /\ frag_msgq' = <<m>>
      /\ UNCHANGED <<done, nfrag_done, frags, c_omsg_q>>
  BY DEF ReadSingle, CanRead, Idle, flagVars, clientVars
<1>2. req'[m].frag_owner = Nil /\ \A x \in Msg : x # m => req'[x] = req[x]
  BY DEF ReadSingle, Message, TypeOK, MsgTypes
<1>3. frag_msgq = <<>> /\ Forwarding' = {m}
  BY <1>1, RangeOne DEF OwnInv, ForwardOK, Forwarding
<1>4. \A x \in Msg : Pend(x) = {} /\ Pend(x)' = {}
  BY <1>2, <1>3, NonePending, NilIsNone DEF Pend
<1>5. \A d \in Client : /\ Requests(d)' = Requests(d) /\ m \notin Requests(d)
                        /\ Requests(d) \subseteq Msg
  BY <1>1, FreeNowhere, QueuesTyped DEF Requests
<1>6. \A d \in Client : \A x \in Requests(d) : SameCount(x)
  BY <1>1, <1>2, <1>4, <1>5 DEF SameCount
<1> QED BY <1>5, <1>6, CountsKept

LEMMA ReadLocalCounts ==
    ASSUME TypeOK, OwnInv, CountInv, NEW c \in Client, NEW m \in Msg, ReadLocal(c, m)
    PROVE  CountInv'
<1>1. /\ m \in Free /\ recving = Nil /\ done' = done \cup {m}
      /\ c_omsg_q' = [c_omsg_q EXCEPT ![c] = Append(@, m)]
      /\ UNCHANGED <<nfrag_done, frags, frag_msgq>>
  BY DEF ReadLocal, CanRead, Idle
<1>2. req'[m].nfrag = 0 /\ \A x \in Msg : x # m => req'[x] = req[x]
  BY DEF ReadLocal, Message, TypeOK, MsgTypes
<1>3. frag_msgq = <<>> /\ frag_msgq' = <<>>
  BY <1>1 DEF OwnInv, ForwardOK
<1>4. \A x : Pend(x) = {} /\ Pend(x)' = {}
  BY <1>3, NonePending, NonePendingNext
<1>5. /\ \A d \in Client : m \notin Requests(d)
      /\ \A x \in Msg : m \notin frags[x]
      /\ frags[m] = {} /\ nfrag_done[m] = 0
  BY <1>1, FreeNowhere
<1>6. /\ Requests(c)' = Requests(c) \cup {m}
      /\ \A d \in Client : d # c => Requests(d)' = Requests(d)
  BY <1>1, <1>5, QueuedOnClient
<1>7. \A x \in Msg : x # m => SameCount(x)
  <2> TAKE x \in Msg
  <2>1. frags[x] \ done' = frags[x] \ done
    BY <1>1, <1>5
  <2> QED BY <1>1, <1>2, <1>4, <2>1 DEF SameCount
<1>8. Counted(m)'
  <2>1. nfrag_done'[m] <= req'[m].nfrag
    BY SMTT(60), <1>1, <1>2, <1>5
  <2>2. frags'[m] \cup Pend(m)' = {}
    BY <1>1, <1>4, <1>5
  <2> QED BY <2>1, <2>2 DEF Counted
<1>9. \A d \in Client : \A x \in Requests(d)' : x = m \/ (x \in Requests(d) /\ SameCount(x))
  <2>1. \A d \in Client : \A x \in Requests(d)' : x = m \/ x \in Requests(d)
    BY <1>6
  <2> QED BY <1>7, <2>1, QueuesTyped
<1> QED BY <1>8, <1>9, CountsKept

\* As many messages as the vector has fragments.
LEMMA RangeCounted ==
    ASSUME NEW q \in Seq(Msg), IsInjective(q)
    PROVE  Cardinality(Range(q)) = Len(q)
<1>1. Len(q) \in Nat /\ DOMAIN q = 1..Len(q)
  BY SMTT(60)
<1>2. q \in [1..Len(q) -> Range(q)]
  BY SMTT(60) DEF Range
<1>3. q \in Surjection(1..Len(q), Range(q)) /\ q \in Injection(1..Len(q), Range(q))
  BY <1>1, <1>2 DEF Surjection, Injection, IsInjective, Range
<1>4. IsFiniteSet(1..Len(q)) /\ Cardinality(1..Len(q)) = Len(q)
  <2>1. 1 \in Int /\ Len(q) \in Int
    BY SMTT(60), <1>1
  <2>2. /\ IsFiniteSet(1..Len(q))
        /\ Cardinality(1..Len(q)) = IF 1 > Len(q) THEN 0 ELSE Len(q) - 1 + 1
    BY <2>1, FS_Interval
  <2> QED BY SMTT(60), <1>1, <2>2
<1> QED BY <1>3, <1>4, FS_Surjection

LEMMA ReadVectorCounts ==
    ASSUME TypeOK, OwnInv, CountInv, NEW c \in Client, NEW m \in Msg, NEW q \in Seq(Msg), NEW kind,
           ReadVector(c, m, q, kind)
    PROVE  CountInv'
<1>1. /\ m \in Free /\ \A x \in Range(q) : x \in Free /\ x # m
      /\ IsInjective(q) /\ recving = Nil /\ frag_msgq' = q
      /\ done' = done \cup {m} /\ c_omsg_q' = [c_omsg_q EXCEPT ![c] = Append(@, m)]
      /\ UNCHANGED <<nfrag_done, frags>>
  BY DEF ReadVector, CanRead, Idle
<1>2. /\ req'[m].nfrag = Len(q)
      /\ \A x \in Range(q) : req'[x].frag_owner = m
      /\ \A x \in Msg : x # m /\ x \notin Range(q) => req'[x] = req[x]
  <2> DEFINE at(x) == CHOOSE i \in DOMAIN q : q[i] = x
  <2>1. req' = [x \in Msg |-> IF x = m THEN Message(kind, ntag + 1, 0, c, m, Len(q))
                              ELSE IF x \in Range(q)
                              THEN Message(kind, ntag + 1, at(x), c, m, 0)
                              ELSE req[x]]
    BY DEF ReadVector
  <2> HIDE DEF at
  <2>2. /\ req'[m] = Message(kind, ntag + 1, 0, c, m, Len(q))
        /\ \A x \in Range(q) : req'[x] = Message(kind, ntag + 1, at(x), c, m, 0)
        /\ \A x \in Msg : x # m /\ x \notin Range(q) => req'[x] = req[x]
    BY <1>1, <2>1, RangeOfSeq
  <2>3. /\ Message(kind, ntag + 1, 0, c, m, Len(q)).nfrag = Len(q)
        /\ \A x \in Range(q) : Message(kind, ntag + 1, at(x), c, m, 0).frag_owner = m
    BY SMTT(60) DEF Message
  <2> QED BY <2>2, <2>3
<1>3. frag_msgq = <<>> /\ Forwarding' = Range(q)
  BY <1>1 DEF OwnInv, ForwardOK, Forwarding
<1>4. /\ \A x \in Msg : x # m => Pend(x) = {} /\ Pend(x)' = {}
      /\ Pend(m)' = Range(q)
  BY <1>2, <1>3, NonePending DEF Pend
<1>5. /\ \A d \in Client : /\ m \notin Requests(d)
                           /\ \A x \in Range(q) : x \notin Requests(d)
      /\ \A x \in Msg : m \notin frags[x]
      /\ frags[m] = {} /\ nfrag_done[m] = 0
  BY <1>1, FreeNowhere
<1>6. /\ Requests(c)' = Requests(c) \cup {m}
      /\ \A d \in Client : d # c => Requests(d)' = Requests(d)
  BY <1>1, <1>5, QueuedOnClient
<1>7. \A x \in Msg : x # m /\ x \notin Range(q) => SameCount(x)
  <2> TAKE x \in Msg
  <2>1. frags[x] \ done' = frags[x] \ done
    BY <1>1, <1>5
  <2> QED BY <1>1, <1>2, <1>4, <2>1 DEF SameCount
<1>8. Counted(m)'
  <2>1. frags'[m] = {} /\ nfrag_done'[m] = 0 /\ frags'[m] \cup Pend(m)' = Range(q)
    BY <1>1, <1>4, <1>5
  <2>2. Cardinality(Range(q)) = req'[m].nfrag /\ req'[m].nfrag \in Nat
    <3>1. Len(q) \in Nat
      BY SMTT(60)
    <3> QED BY <1>1, <1>2, <3>1, RangeCounted
  <2>3. frags'[m] \ done' = {} /\ Cardinality({}) = 0
    BY <2>1, FS_EmptySet
  <2>4. /\ nfrag_done'[m] <= req'[m].nfrag
        /\ nfrag_done'[m] + Cardinality(frags'[m] \ done') <= Cardinality(frags'[m])
    BY SMTT(60), <2>1, <2>2, <2>3
  <2> QED BY <2>1, <2>2, <2>4 DEF Counted
<1>9. \A d \in Client : \A x \in Requests(d)' : x = m \/ (x \in Requests(d) /\ SameCount(x))
  <2>1. \A d \in Client : \A x \in Requests(d)' : x = m \/ x \in Requests(d)
    BY <1>6
  <2> QED BY <1>5, <1>7, <2>1, QueuesTyped
<1> QED BY <1>8, <1>9, CountsKept

\* req_forward and req_forward_error take m off frag_msgq; nothing else changes
\* for the requests of clients.
Taken(m) ==
    /\ m \in Msg /\ m \in Forwarding /\ m \notin done
    /\ \A x \in Msg : x # m /\ x \notin Free => req'[x] = req[x]
    /\ ~Noreply(m) => req'[m] = req[m]
    /\ \A x \in Msg : x # m => (x \in done' <=> x \in done)
    /\ nfrag_done' = nfrag_done
    /\ \A d \in Client : \A x \in Requests(d)' : x \in Requests(d)
                                              \/ (x = m /\ ~Noreply(m) /\ req[m].part = 0)
    /\ \A x \in Msg : /\ frags[x] \subseteq frags'[x]
                      /\ \A f \in frags'[x] : \/ f \in frags[x]
                                              \/ f = m /\ req[m].part # 0
                                                 /\ x = req[m].frag_owner
    /\ req[m].part # 0 => ~Noreply(m) /\ m \in frags'[req[m].frag_owner]
    /\ \A x \in Forwarding' : x \in Forwarding /\ x # m
    /\ \A x \in Forwarding : x = m \/ x \in Forwarding'

LEMMA FragsFinite ==
    ASSUME TypeOK, NEW x \in Msg
    PROVE  /\ IsFiniteSet(frags[x]) /\ IsFiniteSet(frags[x] \ done)
           /\ Cardinality(frags[x]) \in Nat /\ Cardinality(frags[x] \ done) \in Nat
           /\ nfrag_done[x] \in Nat /\ req[x].nfrag \in Nat
<1>1. frags[x] \in SUBSET Msg /\ frags[x] \ done \in SUBSET Msg
  BY FlagsTyped
<1>2. IsFiniteSet(frags[x]) /\ IsFiniteSet(frags[x] \ done)
  BY <1>1, FS_Subset, ConstantsAssumption
<1>3. nfrag_done[x] \in Nat /\ req[x].nfrag \in Nat
  BY DEF TypeOK, MsgTypes, Request
<1> QED BY <1>2, <1>3, FS_CardinalityType

\* The vector of a fragment that is taken.
LEMMA TakenVector ==
    ASSUME TypeOK, OwnInv, CountInv, NEW m, Taken(m), NEW x \in Msg,
           x \notin Free, req[m].part # 0, x = req[m].frag_owner, Counted(x)
    PROVE  Counted(x)'
<1>1. /\ m \in Msg /\ m \in Forwarding /\ m \notin done /\ m # x
      /\ req'[x] = req[x] /\ nfrag_done'[x] = nfrag_done[x]
  <2>1. /\ m \in Msg /\ m \in Forwarding /\ m \notin done /\ nfrag_done' = nfrag_done
        /\ \A y \in Msg : y # m /\ y \notin Free => req'[y] = req[y]
    BY DEF Taken
  <2>2. x \in Requests(recving) /\ recving \in Client
    <3>1. ToForward(m) /\ recving # Nil
      BY <2>1, RangeEmpty DEF OwnInv, ForwardOK, Forwarding
    <3> QED BY <3>1 DEF ToForward, TypeOK, LoopTypes
  <2>3. x # m
    BY <2>1, <2>2 DEF OwnInv, ClientsOK
  <2> QED BY <2>1, <2>3
<1>2. frags'[x] = frags[x] \cup {m} /\ m \notin frags[x]
  <2>1. m \in frags'[x] /\ frags[x] \subseteq frags'[x] /\ \A f \in frags'[x] : f \in frags[x] \/ f = m
    BY DEF Taken
  <2>2. m \notin frags[x]
    BY <1>1 DEF OwnInv, FragsOK
  <2> QED BY <2>1, <2>2
<1>3. Pend(x)' = Pend(x) \ {m} /\ m \in Pend(x)
  <2>1. \A f \in Forwarding' : f \in Forwarding /\ f # m
    BY DEF Taken
  <2>2. \A f \in Forwarding : f = m \/ f \in Forwarding'
    BY DEF Taken
  <2>3. \A f \in Forwarding : f # m => req'[f] = req[f]
    <3>1. \A f \in Forwarding : f \in Msg /\ f \notin Free
      BY QueuesTyped DEF OwnInv, ForwardOK, ToForward
    <3> QED BY <3>1 DEF Taken
  <2>4. \A f : f \in Pend(x)' <=> f \in Pend(x) /\ f # m
    BY <2>1, <2>2, <2>3 DEF Pend
  <2>5. m \in Pend(x)
    BY <1>1 DEF Pend
  <2> QED BY <2>4, <2>5
<1>4. frags'[x] \cup Pend(x)' = frags[x] \cup Pend(x)
  BY <1>2, <1>3
<1>5. Cardinality(frags'[x]) = Cardinality(frags[x]) + 1
  BY <1>2, FragsFinite, FS_AddElement
<1>6. \/ Cardinality(frags'[x] \ done') = Cardinality(frags[x] \ done) + 1
      \/ Cardinality(frags'[x] \ done') = Cardinality(frags[x] \ done)
  <2>1. \A y \in Msg : y # m => (y \in done' <=> y \in done)
    BY DEF Taken
  <2>2. frags[x] \subseteq Msg
    BY FlagsTyped
  <2>3. CASE m \in done'
    <3>1. frags'[x] \ done' = frags[x] \ done
      BY <1>2, <2>1, <2>2, <2>3
    <3> QED BY <3>1
  <2>4. CASE m \notin done'
    <3>1. frags'[x] \ done' = (frags[x] \ done) \cup {m} /\ m \notin frags[x] \ done
      BY <1>2, <2>1, <2>2, <2>4
    <3>2. PICK S : S = frags[x] \ done
      OBVIOUS
    <3>3. IsFiniteSet(S) /\ m \notin S
      BY <3>1, <3>2, FragsFinite
    <3>4. Cardinality(S \cup {m}) = Cardinality(S) + 1
      BY <3>3, FS_AddElement
    <3> QED BY <3>1, <3>2, <3>4
  <2> QED BY <2>3, <2>4
<1>7. /\ nfrag_done[x] <= req[x].nfrag
      /\ Cardinality(frags[x] \cup Pend(x)) = req[x].nfrag
      /\ nfrag_done[x] + Cardinality(frags[x] \ done) <= Cardinality(frags[x])
  BY <1>3 DEF Counted
<1>8. nfrag_done[x] + Cardinality(frags'[x] \ done') <= Cardinality(frags'[x])
  <2>1. /\ Cardinality(frags[x]) \in Nat /\ Cardinality(frags[x] \ done) \in Nat
        /\ nfrag_done[x] \in Nat
    BY FragsFinite
  <2> QED BY SMTT(60), <1>5, <1>6, <1>7, <2>1
<1> QED BY <1>1, <1>4, <1>7, <1>8 DEF Counted

LEMMA TakenCounts ==
    ASSUME TypeOK, OwnInv, CountInv, NEW m, Taken(m)
    PROVE  CountInv'
<1>1. /\ m \in Msg /\ m \in Forwarding /\ m \notin done /\ nfrag_done' = nfrag_done
      /\ \A x \in Msg : x # m /\ x \notin Free => req'[x] = req[x]
      /\ \A x \in Msg : x # m => (x \in done' <=> x \in done)
      /\ ~Noreply(m) => req'[m] = req[m]
  BY DEF Taken
<1>2. \A f \in Forwarding : f \in Msg /\ f \notin Free /\ f \notin done
  BY QueuesTyped DEF OwnInv, ForwardOK, ToForward
<1>3. \A f \in Forwarding : f # m => req'[f] = req[f]
  BY <1>1, <1>2
<1>4. \A f \in Forwarding : req[f].part = 0 => req[f].frag_owner = Nil
  BY <1>2 DEF OwnInv, VectorsOK
<1>5. ASSUME NEW x \in Msg, x # m, x \notin Free, ~(req[m].part # 0 /\ x = req[m].frag_owner)
      PROVE  SameCount(x)
  <2>1. frags'[x] = frags[x]
    <3>1. frags[x] \subseteq frags'[x] /\ \A f \in frags'[x] : f \in frags[x]
      BY <1>5 DEF Taken
    <3> QED BY <3>1
  <2>2. \A f \in frags[x] : f \in Msg /\ f # m
    BY <1>1, FlagsTyped DEF OwnInv, FragsOK
  <2>3. frags[x] \ done' = frags[x] \ done
    BY <1>1, <2>2
  <2>4. req[m].frag_owner # x
    BY <1>1, <1>4, <1>5, NilIsNone
  <2>5. \A f : f \in Pend(x)' <=> f \in Pend(x)
    <3>1. \A f \in Forwarding' : f \in Forwarding /\ f # m
      BY DEF Taken
    <3>2. \A f \in Forwarding : f = m \/ f \in Forwarding'
      BY DEF Taken
    <3> QED BY <1>3, <2>4, <3>1, <3>2 DEF Pend
  <2> QED BY <1>1, <1>5, <2>1, <2>3, <2>5 DEF SameCount
<1>6. ~Noreply(m) /\ req[m].part = 0 => Counted(m)'
  <2> SUFFICES ASSUME ~Noreply(m), req[m].part = 0
               PROVE  Counted(m)'
    OBVIOUS
  <2>1. frags[m] = {} /\ nfrag_done[m] = 0
    BY <1>1 DEF OwnInv, FragsOK, VectorsOK
  <2>2. frags'[m] = {}
    BY <1>1, <2>1 DEF Taken
  <2>3. Pend(m)' = {}
    <3> SUFFICES ASSUME NEW f \in Pend(m)'
                 PROVE  FALSE
      OBVIOUS
    <3>1. f \in Forwarding /\ f # m /\ req'[f].frag_owner = m
      BY DEF Pend, Taken
    <3>2. f \in Pend(m)
      BY <1>3, <3>1 DEF Pend
    <3>3. m \in Requests(recving) /\ Uncounted(m)
      BY <1>1, <3>2, PendIsPart
    <3> QED BY <1>1, <3>3 DEF Uncounted
  <2>4. nfrag_done'[m] <= req'[m].nfrag
    <3>1. nfrag_done'[m] = 0 /\ req'[m] = req[m] /\ req[m].nfrag \in Nat
      BY <1>1, <2>1, FragsFinite
    <3> QED BY SMTT(60), <3>1
  <2> QED BY <2>2, <2>3, <2>4 DEF Counted
<1> SUFFICES ASSUME NEW d \in Client, NEW x \in Requests(d)'
             PROVE  Counted(x)'
  BY DEF CountInv
<1>7. x \in Requests(d) \/ (x = m /\ ~Noreply(m) /\ req[m].part = 0)
  BY DEF Taken
<1>8. CASE x \in Requests(d)
  <2>1. x \in Msg /\ x \notin Free /\ x # m /\ Counted(x)
    BY <1>1, <1>8, QueuesTyped DEF OwnInv, ClientsOK, CountInv
  <2>2. CASE req[m].part # 0 /\ x = req[m].frag_owner
    BY <2>1, <2>2, TakenVector
  <2>3. CASE ~(req[m].part # 0 /\ x = req[m].frag_owner)
    BY <1>5, <2>1, <2>3 DEF SameCount, Counted
  <2> QED BY <2>2, <2>3
<1> QED BY <1>6, <1>7, <1>8

LEMMA ReqForwardCounts ==
    ASSUME TypeOK, OwnInv, CountInv, NEW s \in Server, ReqForward(s)
    PROVE  CountInv'
<1>1. PICK m \in Msg, a \in SUBSET Msg : Forwarded(s, m, a)
  BY ReqForwardFacts
<1>2. /\ m \in Forwarding /\ m \notin done /\ done' = done /\ nfrag_done' = nfrag_done
      /\ \A x \in a : x \in Free /\ x # m
      /\ \A x \in Msg : x \notin a => req'[x] = req[x]
      /\ req[m].part # 0 => ~Noreply(m) /\ m \in frags'[req[m].frag_owner]
  BY <1>1 DEF Forwarded
<1>3. /\ \A d \in Client : \A x \in Requests(d)' : \/ x \in Requests(d)
                                                   \/ x = m /\ ~Noreply(m) /\ req[m].part = 0
      /\ \A x \in Forwarding' : x \in Forwarding /\ x # m
      /\ \A x \in Forwarding : x = m \/ x \in Forwarding'
  BY <1>1 DEF Forwarded
<1>4. \A x \in Msg : /\ frags[x] \subseteq frags'[x]
                     /\ \A f \in frags'[x] : \/ f \in frags[x]
                                             \/ f = m /\ req[m].part # 0
                                                /\ x = req[m].frag_owner
  BY <1>1 DEF Forwarded
<1>5. /\ \A x \in Msg : x # m /\ x \notin Free => req'[x] = req[x]
      /\ req'[m] = req[m] /\ \A x \in Msg : x # m => (x \in done' <=> x \in done)
  BY <1>2
<1>6. Taken(m)
  BY <1>2, <1>3, <1>4, <1>5 DEF Taken
<1> QED BY <1>6, TakenCounts

LEMMA ReqForwardErrorCounts ==
    ASSUME TypeOK, TypeOK', OwnInv, CountInv, ReqForwardError
    PROVE  CountInv'
<1>1. PICK m \in Msg, gone \in SUBSET Msg : ForwardFailed(m, gone)
  BY ForwardErrorFacts
<1>2. /\ m \in Forwarding /\ m \notin done /\ nfrag_done' = nfrag_done
      /\ done' = done \cup ({m} \ gone)
      /\ \A x : x \in gone => x = m /\ Noreply(m)
      /\ \A x \in Msg : x \notin gone => req'[x] = req[x]
      /\ req[m].part # 0 => ~Noreply(m) /\ m \in frags'[req[m].frag_owner]
  BY <1>1 DEF ForwardFailed
<1>3. /\ \A d \in Client : \A x \in Requests(d)' : \/ x \in Requests(d)
                                                   \/ x = m /\ ~Noreply(m) /\ req[m].part = 0
      /\ \A x \in Forwarding' : x \in Forwarding /\ x # m
      /\ \A x \in Forwarding : x = m \/ x \in Forwarding'
  BY <1>1 DEF ForwardFailed
<1>4. \A x \in Msg : /\ frags[x] \subseteq frags'[x]
                     /\ \A f \in frags'[x] : \/ f \in frags[x]
                                             \/ f = m /\ req[m].part # 0
                                                /\ x = req[m].frag_owner
  BY <1>1 DEF ForwardFailed
<1>5. /\ \A x \in Msg : x # m => req'[x] = req[x]
      /\ ~Noreply(m) => req'[m] = req[m]
      /\ \A x \in Msg : x # m => (x \in done' <=> x \in done)
  BY <1>2
<1>6. Taken(m)
  BY <1>2, <1>3, <1>4, <1>5 DEF Taken
<1> QED BY <1>6, TakenCounts

-----------------------------------------------------------------------------

LEMMA ServerConnectedCounts ==
    ASSUME TypeOK, OwnInv, CountInv, NEW s \in Server, ServerConnected(s)
    PROVE  CountInv'
<1>1. PICK a \in SUBSET Msg : Connected(s, a)
  BY ServerConnectedFacts
<1>2. /\ recving = Nil /\ \A x \in a : x \in Free
      /\ \A x \in Msg : x \notin a => req'[x] = req[x]
      /\ UNCHANGED <<nfrag_done, frags, done, frag_msgq, c_omsg_q>>
  BY <1>1 DEF Connected
<1>3. \A c \in Client : \A x \in Requests(c) : req'[x] = req[x]
  BY <1>2, QueuesTyped DEF OwnInv, ClientsOK
<1> QED BY <1>2, <1>3, OtherCounts

\* A request nobody waits for is put.
LEMMA WrittenCounts ==
    ASSUME TypeOK, OwnInv, CountInv, NEW s \in Server, ReqSendDone(s) \/ RspSwallow(s)
    PROVE  CountInv'
<1>1. recving = Nil /\ UNCHANGED <<nfrag_done, frags, done, frag_msgq, c_omsg_q>>
  BY DEF ReqSendDone, RspSwallow, CanSend, CanAnswer, Idle, flagVars, clientVars, loopVars
<1>2. \E gone : req' = Reset(req, gone, Blank) /\ \A x \in gone : x \in swallow \/ Noreply(x)
  <2>1. CASE ReqSendDone(s)
    <3>1. PICK gone : gone = {x \in {Head(imsg_q[s])} : Noreply(x)}
      OBVIOUS
    <3>2. req' = Reset(req, gone, Blank)
      BY <2>1, <3>1 DEF ReqSendDone
    <3>3. \A x \in gone : Noreply(x)
      BY <3>1
    <3> QED BY <3>2, <3>3
  <2>2. CASE RspSwallow(s)
    <3>1. PICK gone : gone = {Head(s_omsg_q[s])}
      OBVIOUS
    <3>2. req' = Reset(req, gone, Blank) /\ Head(s_omsg_q[s]) \in swallow
      BY <2>2, <3>1 DEF RspSwallow
    <3>3. \A x \in gone : x \in swallow
      BY <3>1, <3>2
    <3> QED BY <3>2, <3>3
  <2> QED BY <2>1, <2>2
<1>3. \A c \in Client : \A x \in Requests(c) : req'[x] = req[x]
  <2>1. PICK gone : req' = Reset(req, gone, Blank) /\ \A x \in gone : x \in swallow \/ Noreply(x)
    BY <1>2
  <2>2. \A c \in Client : \A x \in Requests(c) : x \in Msg /\ x \notin gone
    BY <2>1, QueuesTyped DEF OwnInv, ClientsOK
  <2> QED BY <2>1, <2>2 DEF Reset
<1> QED BY <1>1, <1>3, OtherCounts

\* Fragments of x, those of lost, are done and counted.
LEMMA CountedMore ==
    ASSUME TypeOK, NEW x \in Msg, Counted(x), NEW lost,
           lost \subseteq frags[x] \ done, frag_msgq = <<>>, frag_msgq' = <<>>,
           req'[x] = req[x], frags'[x] = frags[x],
           nfrag_done'[x] = nfrag_done[x] + Cardinality(lost),
           frags[x] \ done' = (frags[x] \ done) \ lost
    PROVE  Counted(x)'
<1>1. Pend(x) = {} /\ Pend(x)' = {}
  BY NonePending, NonePendingNext
<1>2. /\ IsFiniteSet(frags[x]) /\ IsFiniteSet(frags[x] \ done)
      /\ Cardinality(frags[x]) \in Nat /\ Cardinality(frags[x] \ done) \in Nat
      /\ nfrag_done[x] \in Nat /\ req[x].nfrag \in Nat
  BY FragsFinite
<1>3. PICK S : S = frags[x] \ done
  OBVIOUS
<1>4. IsFiniteSet(S) /\ lost \in SUBSET S /\ S \cap lost = lost
  BY <1>2, <1>3
<1>5. /\ Cardinality(S \ lost) = Cardinality(S) - Cardinality(lost)
      /\ IsFiniteSet(lost) /\ IsFiniteSet(S \ lost)
  <2>1. Cardinality(S \ lost) = Cardinality(S) - Cardinality(S \cap lost) /\ IsFiniteSet(S \ lost)
    BY <1>4, FS_Difference
  <2>2. IsFiniteSet(lost)
    BY <1>4, FS_Subset
  <2> QED BY <1>4, <2>1, <2>2
<1>6. Cardinality(lost) \in Nat /\ Cardinality(S \ lost) \in Nat /\ Cardinality(S) \in Nat
  BY <1>2, <1>3, <1>5, FS_CardinalityType
<1>7. /\ nfrag_done[x] <= req[x].nfrag
      /\ frags[x] # {} => /\ Cardinality(frags[x]) = req[x].nfrag
                          /\ nfrag_done[x] + Cardinality(S) <= Cardinality(frags[x])
  <2>1. frags[x] \cup Pend(x) = frags[x]
    BY <1>1
  <2> QED BY <1>3, <2>1 DEF Counted
<1>8. CASE frags[x] = {}
  <2>1. lost = {}
    BY <1>8
  <2>2. Cardinality(lost) = 0
    BY <2>1, FS_EmptySet
  <2>3. nfrag_done'[x] <= req'[x].nfrag
    BY SMTT(60), <1>2, <1>7, <2>2
  <2>4. frags'[x] \cup Pend(x)' = {}
    BY <1>1, <1>8
  <2> QED BY <2>3, <2>4 DEF Counted
<1>9. CASE frags[x] # {}
  <2>1. frags'[x] \cup Pend(x)' = frags[x] /\ frags'[x] \ done' = S \ lost
    BY <1>1, <1>3
  <2>2. nfrag_done'[x] + Cardinality(S \ lost) <= Cardinality(frags[x])
    BY SMTT(60), <1>2, <1>5, <1>6, <1>7, <1>9
  <2>3. nfrag_done'[x] <= req'[x].nfrag
    BY SMTT(60), <1>2, <1>6, <1>7, <1>9, <2>2
  <2>4. Cardinality(frags[x]) = req'[x].nfrag
    BY <1>7, <1>9
  <2> QED BY <2>1, <2>2, <2>3, <2>4 DEF Counted
<1> QED BY <1>8, <1>9

LEMMA RspForwardCounts ==
    ASSUME TypeOK, OwnInv, CountInv, NEW s \in Server, NEW bad, RspForward(s, bad)
    PROVE  CountInv'
<1>1. PICK f : f = Head(s_omsg_q[s])
  OBVIOUS
<1>2. /\ recving = Nil /\ s_omsg_q[s] # <<>> /\ f \notin swallow /\ done' = done \cup {f}
      /\ nfrag_done' = IF req[f].part = 0 THEN nfrag_done
                       ELSE [nfrag_done EXCEPT ![req[f].frag_owner] = @ + 1]
      /\ UNCHANGED <<req, frags, c_omsg_q, frag_msgq>>
  BY <1>1 DEF RspForward, CanAnswer, Idle, loopVars
<1>3. frag_msgq = <<>> /\ frag_msgq' = <<>>
  BY <1>2 DEF OwnInv, ForwardOK
<1>4. f \in Carried(s) /\ f \in Msg /\ f \notin done
  <2>1. s_omsg_q[s] \in Seq(Msg)
    BY DEF TypeOK, QueueTypes
  <2>2. f \in Range(s_omsg_q[s])
    BY <1>1, <1>2, <2>1, RangeTail
  <2> QED BY <2>2, CarriedAlone DEF Carried
<1>5. req[f].part # 0 => req[f].frag_owner \in Msg /\ f \in frags[req[f].frag_owner]
  BY <1>2, <1>4 DEF OwnInv, ServersOK
<1>6. \A x \in Msg : f \in frags[x] => req[f].part # 0 /\ x = req[f].frag_owner
  BY DEF OwnInv, FragsOK
<1>7. \A x \in Msg : IF req[f].part # 0 /\ x = req[f].frag_owner
                     THEN nfrag_done'[x] = nfrag_done[x] + 1 ELSE nfrag_done'[x] = nfrag_done[x]
  <2>1. nfrag_done \in [Msg -> Nat]
    BY DEF TypeOK, MsgTypes
  <2> QED BY <1>2, <1>5, <2>1
<1> SUFFICES ASSUME NEW d \in Client, NEW x \in Requests(d)'
             PROVE  Counted(x)'
  BY DEF CountInv
<1>8. x \in Requests(d) /\ x \in Msg /\ Counted(x)
  BY <1>2, QueuesTyped DEF Requests, CountInv
<1>9. PICK lost : lost = frags[x] \cap {f}
  OBVIOUS
<1>10. nfrag_done'[x] = nfrag_done[x] + Cardinality(lost)
  <2>1. CASE f \in frags[x]
    <3>1. Cardinality(lost) = 1
      <4>1. lost = {f}
        BY <1>9, <2>1
      <4> QED BY <4>1, FS_Singleton
    <3>2. nfrag_done'[x] = nfrag_done[x] + 1
      BY <1>6, <1>7, <1>8, <2>1
    <3> QED BY <3>1, <3>2
  <2>2. CASE f \notin frags[x]
    <3>1. Cardinality(lost) = 0
      <4>1. lost = {}
        BY <1>9, <2>2
      <4> QED BY <4>1, FS_EmptySet
    <3>2. nfrag_done'[x] = nfrag_done[x] /\ nfrag_done[x] \in Nat
      BY <1>5, <1>7, <1>8, <2>2, FragsFinite
    <3> QED BY SMTT(60), <3>1, <3>2
  <2> QED BY <2>1, <2>2
<1>11. /\ lost \subseteq frags[x] \ done
       /\ frags[x] \ done' = (frags[x] \ done) \ lost
  BY <1>2, <1>4, <1>9
<1>12. req'[x] = req[x] /\ frags'[x] = frags[x]
  BY <1>2
<1> QED BY <1>3, <1>8, <1>10, <1>11, <1>12, CountedMore

LEMMA ServerCloseCounted ==
    ASSUME TypeOK, OwnInv, CountInv, NEW s \in Server, NEW expired,
           recving = Nil, ServerClose(s, expired)
    PROVE  CountInv'
<1>1. PICK gone, lost : /\ gone = {m \in Carried(s) : m \in swallow \/ Noreply(m)}
                        /\ lost = Carried(s) \ gone
  OBVIOUS
<1>2. /\ req' = Reset(req, gone, Blank) /\ done' = done \cup lost
      /\ nfrag_done' = [m \in Msg |->
            nfrag_done[m] + Cardinality({f \in lost : req[f].frag_owner = m})]
      /\ UNCHANGED <<frags, c_omsg_q, frag_msgq>>
  BY <1>1 DEF ServerClose, loopVars
<1>3. frag_msgq = <<>> /\ frag_msgq' = <<>>
  BY <1>2 DEF OwnInv, ForwardOK
<1>4. \A f \in lost : /\ f \in Msg /\ f \notin done /\ f \in Carried(s)
                      /\ f \notin swallow /\ ~Noreply(f)
  BY <1>1, CarriedAlone
<1> SUFFICES ASSUME NEW d \in Client, NEW x \in Requests(d)'
             PROVE  Counted(x)'
  BY DEF CountInv
<1>5. x \in Requests(d) /\ x \in Msg /\ Counted(x)
  BY <1>2, QueuesTyped DEF Requests, CountInv
<1>6. PICK mine : mine = {f \in lost : req[f].frag_owner = x}
  OBVIOUS
<1>7. \A f \in lost : f \in mine <=> f \in frags[x]
  <2> TAKE f \in lost
  <2>1. f \in frags[x] => req[f].frag_owner = x
    BY <1>5 DEF OwnInv, FragsOK
  <2>2. req[f].frag_owner = x => req[f].part # 0
    BY <1>4, <1>5, NilIsNone DEF OwnInv, VectorsOK
  <2>3. req[f].part # 0 => f \in frags[req[f].frag_owner]
    BY <1>4 DEF OwnInv, ServersOK
  <2> QED BY <1>6, <2>1, <2>2, <2>3
<1>8. mine \subseteq lost
  BY <1>6
<1>9. /\ mine \subseteq frags[x] \ done
      /\ frags[x] \ done' = (frags[x] \ done) \ mine
  <2>1. \A f \in mine : f \in frags[x] \ done
    BY <1>4, <1>7, <1>8
  <2>2. \A f : f \in frags[x] \ done' <=> f \in (frags[x] \ done) /\ f \notin mine
    BY <1>2, <1>7, <1>8
  <2> QED BY <2>1, <2>2
<1>10. nfrag_done'[x] = nfrag_done[x] + Cardinality(mine)
  BY <1>2, <1>5, <1>6
<1>11. req'[x] = req[x] /\ frags'[x] = frags[x]
  <2>1. x \notin gone
    BY <1>1, <1>5 DEF OwnInv, ClientsOK
  <2> QED BY <1>2, <1>5, <2>1 DEF Reset
<1> QED BY <1>3, <1>5, <1>9, <1>10, <1>11, CountedMore

-----------------------------------------------------------------------------

LEMMA RspSendNextCounts ==
    ASSUME TypeOK, OwnInv, CountInv, NEW c \in Client, NEW i, RspSendNext(c, i)
    PROVE  CountInv'
<1>1. PICK m : m = c_omsg_q[c][i]
  OBVIOUS
<1>2. /\ CanReply(c) /\ i \in DOMAIN c_omsg_q[c]
      /\ req' = Reset(req, frags[m], Blank) /\ done' = done \ frags[m]
      /\ frags' = [frags EXCEPT ![m] = {}]
      /\ UNCHANGED <<nfrag_done, c_omsg_q, frag_msgq>>
  BY <1>1 DEF RspSendNext
<1>3. frag_msgq = <<>> /\ frag_msgq' = <<>>
  BY <1>2, WriterAlone
<1>4. \A x : Pend(x) = {} /\ Pend(x)' = {}
  BY <1>3, NonePending, NonePendingNext
<1>5. m \in Requests(c) /\ m \in Msg
  BY <1>1, <1>2, QueuesTyped DEF Requests, Range
<1>6. \A x \in Msg : IF x = m THEN frags'[x] = {} ELSE frags'[x] = frags[x]
  BY <1>2, FlagsTyped
<1>7. \A d \in Client : \A x \in Requests(d) : req'[x] = req[x]
  <2>1. \A d \in Client : \A x \in Requests(d) : x \in Msg /\ x \notin frags[m]
    BY <1>5, HeldApart
  <2> QED BY <1>2, <2>1 DEF Reset
<1>8. \A d \in Client : \A x \in Requests(d)' : x = m \/ (x \in Requests(d) /\ SameCount(x))
  <2> SUFFICES ASSUME NEW d \in Client, NEW x \in Requests(d)', x # m
               PROVE  x \in Requests(d) /\ SameCount(x)
    OBVIOUS
  <2>1. x \in Requests(d) /\ x \in Msg
    BY <1>2, QueuesTyped DEF Requests
  <2>2. \A f \in frags[x] : f \notin frags[m]
    BY <1>5, <2>1, HeldApart
  <2>3. frags[x] \ done' = frags[x] \ done
    BY <1>2, <2>2
  <2> QED BY <1>2, <1>4, <1>6, <1>7, <2>1, <2>3 DEF SameCount
<1>9. Counted(m)'
  <2>1. nfrag_done'[m] <= req'[m].nfrag
    BY <1>2, <1>5, <1>7 DEF CountInv, Counted
  <2>2. frags'[m] \cup Pend(m)' = {}
    BY <1>4, <1>5, <1>6
  <2> QED BY <2>1, <2>2 DEF Counted
<1> QED BY <1>8, <1>9, CountsKept

LEMMA RspSendDoneCounts ==
    ASSUME TypeOK, OwnInv, CountInv, NEW c \in Client, RspSendDone(c)
    PROVE  CountInv'
<1>1. PICK m : m = HeadOf(c)
  OBVIOUS
<1>2. /\ CanReply(c) /\ c_omsg_q[c] # <<>>
      /\ req' = Reset(req, {m}, Blank) /\ done' = done \ {m}
      /\ nfrag_done' = [nfrag_done EXCEPT ![m] = 0]
      /\ c_omsg_q' = [c_omsg_q EXCEPT ![c] = Tail(@)]
      /\ UNCHANGED <<frags, frag_msgq>>
  BY <1>1 DEF RspSendDone
<1>3. frag_msgq = <<>> /\ frag_msgq' = <<>>
  BY <1>2, WriterAlone
<1>4. \A x : Pend(x) = {} /\ Pend(x)' = {}
  BY <1>3, NonePending, NonePendingNext
<1>5. m \in Requests(c) /\ m \in Msg
  BY <1>1, <1>2, HeadIsRequest
<1>6. \A d \in Client : \A x \in Requests(d)' : x \in Requests(d) /\ x # m
  <2> TAKE d \in Client
  <2>1. CASE d = c
    <3>1. c_omsg_q[c] \in Seq(Msg) /\ IsInjective(c_omsg_q[c])
      BY DEF TypeOK, QueueTypes, OwnInv, ClientsOK
    <3>2. Requests(c)' = Range(Tail(c_omsg_q[c]))
      BY <1>2 DEF Requests, TypeOK, QueueTypes
    <3>3. /\ Range(c_omsg_q[c]) = Range(Tail(c_omsg_q[c])) \cup {m}
          /\ m \notin Range(Tail(c_omsg_q[c]))
      BY <1>1, <1>2, <3>1, RangeTail DEF HeadOf
    <3> QED BY <2>1, <3>2, <3>3 DEF Requests
  <2>2. CASE d # c
    <3>1. Requests(d)' = Requests(d)
      BY <1>2, <2>2 DEF Requests, TypeOK, QueueTypes
    <3>2. m \notin Requests(d)
      BY <1>5, <2>2 DEF OwnInv, ClientsOK
    <3> QED BY <3>1, <3>2
  <2> QED BY <2>1, <2>2
<1>7. \A x \in Msg : x # m => SameCount(x)
  <2> SUFFICES ASSUME NEW x \in Msg, x # m
               PROVE  SameCount(x)
    OBVIOUS
  <2>1. m \notin frags[x]
    BY <1>5, HeldApart
  <2>2. frags[x] \ done' = frags[x] \ done
    BY <1>2, <2>1
  <2>3. req'[x] = req[x]
    BY <1>2 DEF Reset
  <2>4. nfrag_done'[x] = nfrag_done[x]
    BY <1>2 DEF TypeOK, MsgTypes
  <2> QED BY <1>2, <1>4, <2>2, <2>3, <2>4 DEF SameCount
<1>8. \A d \in Client : \A x \in Requests(d)' : x # m /\ x \in Requests(d) /\ SameCount(x)
  BY <1>6, <1>7, QueuesTyped
<1> QED BY <1>8, CountsKept

LEMMA ClientCloseCounts ==
    ASSUME TypeOK, OwnInv, CountInv, NEW c \in Client, frag_msgq = <<>>, ClientClose(c)
    PROVE  CountInv'
<1>1. PICK gone : gone = Held(c) \cap done
  OBVIOUS
<1>2. /\ req' = Reset(req, gone, Blank) /\ done' = done \ gone
      /\ nfrag_done' = Reset(nfrag_done, gone, 0) /\ frags' = Reset(frags, gone, {})
      /\ c_omsg_q' = [c_omsg_q EXCEPT ![c] = <<>>] /\ frag_msgq' = frag_msgq
  BY <1>1 DEF ClientClose
<1>3. \A x : Pend(x) = {} /\ Pend(x)' = {}
  BY <1>2, NonePending, NonePendingNext
<1>4. \A x : x \in Held(c) <=> \/ x \in Requests(c)
                               \/ \E y \in Requests(c) : x \in frags[y]
  BY DEF Held, Behind, Requests
<1>5. \A d \in Client : \A x \in Requests(d)' : d # c /\ x \in Requests(d)
  <2> TAKE d \in Client
  <2>1. c_omsg_q \in [Client -> Seq(Msg)]
    BY DEF TypeOK, QueueTypes
  <2>2. d = c => Requests(d)' = {}
    BY <1>2, <2>1, RangeEmpty DEF Requests
  <2>3. d # c => Requests(d)' = Requests(d)
    BY <1>2, <2>1 DEF Requests
  <2> QED BY <2>2, <2>3
<1>6. ASSUME NEW d \in Client, d # c, NEW x \in Requests(d)
      PROVE  SameCount(x)
  <2>1. x \in Msg /\ x \notin Requests(c)
    BY <1>6, QueuesTyped DEF OwnInv, ClientsOK
  <2>2. x \notin Held(c)
    BY <1>4, <2>1, HeldApart, QueuesTyped
  <2>3. \A f \in frags[x] : f \notin Held(c)
    <3> TAKE f \in frags[x]
    <3>1. f \notin Requests(c) /\ \A y \in Requests(c) : y \in Msg /\ (f \in frags[y] => x = y)
      BY <2>1, HeldApart
    <3> QED BY <1>4, <2>1, <3>1
  <2>4. frags[x] \ done' = frags[x] \ done
    BY <1>1, <1>2, <2>3
  <2>5. req'[x] = req[x] /\ nfrag_done'[x] = nfrag_done[x] /\ frags'[x] = frags[x]
    BY <1>1, <1>2, <2>1, <2>2 DEF Reset
  <2> QED BY <1>3, <2>4, <2>5 DEF SameCount
<1>7. \A d \in Client : \A x \in Requests(d)' : x \in Requests(d) /\ SameCount(x)
  BY <1>5, <1>6
<1>8. \A d \in Client : Nil \notin Requests(d)'
  BY <1>7, QueuesTyped, NilIsNone
<1> QED BY <1>7, <1>8, CountsKept

-----------------------------------------------------------------------------
(* The steps of Service, seen through the refinement mapping *)

\* What the mapping makes of a request, and of the queues of all clients.
Entry(m) == [id |-> Id(m), failed |-> ReqError(m)]

EntrySet == {Entry(x) : x \in Msg}

Waits == [c \in Client |-> [i \in DOMAIN c_omsg_q[c] |->
            [id |-> Id(c_omsg_q[c][i]), failed |-> ReqError(c_omsg_q[c][i])]]]

LEMMA FailIs ==
    Service!Fail <=>
        /\ \A c \in Client :
              /\ DOMAIN Waits'[c] = DOMAIN Waits[c]
              /\ \A i \in DOMAIN Waits[c] : /\ Waits'[c][i].id = Waits[c][i].id
                                            /\ Waits[c][i].failed => Waits'[c][i].failed
        /\ open' \cap Client = open \cap Client /\ out' = out
BY DEF Service!Fail, Waits

LEMMA SubmitIs ==
    ASSUME NEW c
    PROVE  Service!Submit(c) <=>
             /\ c \in open \cap Client
             /\ Len(Waits'[c]) = Len(Waits[c]) + 1
             /\ LET new == Waits'[c][Len(Waits'[c])]
                IN  /\ \A d \in Client : \A i \in DOMAIN Waits[d] : Waits[d][i].id # new.id
                    /\ Waits' = [Waits EXCEPT ![c] = Append(@, new)]
             /\ open' \cap Client = open \cap Client /\ out' = out
BY DEF Service!Submit, Waits

LEMMA ReplyIs ==
    ASSUME NEW c
    PROVE  Service!Reply(c) <=>
             /\ Waits[c] # <<>>
             /\ out' = [out EXCEPT ![c] = [id |-> Head(Waits[c]).id, ok |-> ~Head(Waits[c]).failed]]
             /\ Waits' = [Waits EXCEPT ![c] = Tail(@)]
             /\ open' \cap Client = open \cap Client
BY DEF Service!Reply, Waits

LEMMA HangupIs ==
    ASSUME NEW c
    PROVE  Service!Hangup(c) <=>
             /\ c \in open \cap Client
             /\ open' \cap Client = (open \cap Client) \ {c}
             /\ Waits' = [Waits EXCEPT ![c] = <<>>]
             /\ out' = [out EXCEPT ![c] = NoReply]
BY DEF Service!Hangup, Waits, NoReply, NoAnswer, Service!NoReply

LEMMA ConnectIs ==
    ASSUME NEW c
    PROVE  Service!Connect(c) <=>
             /\ c \notin open \cap Client
             /\ open' \cap Client = (open \cap Client) \cup {c}
             /\ Waits' = Waits /\ out' = out
BY DEF Service!Connect, Waits

\* Queues of entries.
LEMMA WaitsOf ==
    ASSUME NEW c \in Client, c_omsg_q[c] \in Seq(Msg)
    PROVE  /\ Waits[c] \in Seq(EntrySet)
           /\ DOMAIN Waits[c] = DOMAIN c_omsg_q[c] /\ Len(Waits[c]) = Len(c_omsg_q[c])
           /\ \A i \in DOMAIN c_omsg_q[c] : Waits[c][i] = Entry(c_omsg_q[c][i])
<1> DEFINE n == Len(c_omsg_q[c])
           w == [i \in 1..n |-> Entry(c_omsg_q[c][i])]
<1>1. n \in Nat /\ DOMAIN c_omsg_q[c] = 1..n /\ \A i \in 1..n : c_omsg_q[c][i] \in Msg
  BY SMTT(60)
<1>2. Waits[c] = w
  BY <1>1 DEF Waits, Entry
<1>3. w \in [1..n -> EntrySet]
  BY <1>1 DEF EntrySet
<1> HIDE DEF w
<1>4. w \in Seq(EntrySet) /\ Len(w) = n /\ DOMAIN w = 1..n
  BY SMTT(60), <1>1, <1>3
<1>5. \A i \in 1..n : w[i] = Entry(c_omsg_q[c][i])
  BY DEF w
<1> QED BY <1>1, <1>2, <1>4, <1>5

LEMMA WaitsOfPrime ==
    ASSUME NEW c \in Client, NEW q \in Seq(Msg), c_omsg_q'[c] = q
    PROVE  /\ DOMAIN Waits'[c] = DOMAIN q
           /\ \A x : \A i \in DOMAIN q : x = q[i] => Waits'[c][i] = Entry(x)'
BY DEF Waits, Entry

LEMMA WaitsIsFunction == /\ Waits = [c \in Client |-> Waits[c]]
                         /\ Waits' = [c \in Client |-> Waits'[c]]
BY DEF Waits

LEMMA EntryFields ==
    ASSUME NEW x
    PROVE  /\ Entry(x).id = Id(x) /\ Entry(x).failed = ReqError(x)
           /\ Entry(x)'.id = Id(x)' /\ Entry(x)'.failed = ReqError(x)'
BY SMTT(60) DEF Entry

LEMMA EntryKept ==
    ASSUME NEW x, Id(x)' = Id(x), ReqError(x)' <=> ReqError(x)
    PROVE  Entry(x)' = Entry(x)
<1>1. ReqError(x)' = ReqError(x)
  BY SMTT(60) DEF ReqError
<1> QED BY <1>1 DEF Entry

LEMMA StepFails ==
    ASSUME TypeOK, UNCHANGED <<c_omsg_q, out>>, open' \cap Client = open \cap Client,
           \A c \in Client : \A x \in Requests(c) : Id(x)' = Id(x) /\ (ReqError(x) => ReqError(x)')
    PROVE  Service!Fail
<1>1. ASSUME NEW c \in Client
      PROVE  /\ DOMAIN Waits'[c] = DOMAIN Waits[c]
             /\ \A i \in DOMAIN Waits[c] : /\ Waits'[c][i].id = Waits[c][i].id
                                           /\ Waits[c][i].failed => Waits'[c][i].failed
  <2>1. c_omsg_q[c] \in Seq(Msg)
    BY QueuesTyped
  <2>2. DOMAIN Waits'[c] = DOMAIN c_omsg_q[c] /\ DOMAIN Waits[c] = DOMAIN c_omsg_q[c]
    BY <2>1, WaitsOf, WaitsOfPrime
  <2>3. ASSUME NEW i \in DOMAIN c_omsg_q[c]
        PROVE  /\ Waits'[c][i].id = Waits[c][i].id
               /\ Waits[c][i].failed => Waits'[c][i].failed
    <3>1. PICK x : x = c_omsg_q[c][i]
      OBVIOUS
    <3>2. Waits[c][i] = Entry(x)
      BY <2>1, <3>1, WaitsOf
    <3>3. Waits'[c][i] = Entry(x)'
      BY <2>1, <3>1 DEF Waits, Entry, Id, ReqError
    <3>4. x \in Requests(c)
      BY <3>1 DEF Requests, Range
    <3> QED BY <3>2, <3>3, <3>4, EntryFields
  <2> QED BY <2>2, <2>3
<1> QED BY <1>1, FailIs

\* Sequences by their elements.
LEMMA IsAppend ==
    ASSUME NEW S, NEW v \in Seq(S), NEW w \in Seq(S), NEW e \in S, Len(v) = Len(w) + 1,
           v[Len(w) + 1] = e, \A i \in 1..Len(w) : v[i] = w[i]
    PROVE  v = Append(w, e)
BY SMTT(60)

LEMMA IsTail ==
    ASSUME NEW S, NEW v \in Seq(S), NEW w \in Seq(S), w # <<>>, Len(v) = Len(w) - 1,
           \A i \in 1..(Len(w) - 1) : v[i] = w[i + 1]
    PROVE  v = Tail(w)
BY SMTT(60)

LEMMA IsEmpty ==
    ASSUME NEW S, NEW v \in Seq(S), Len(v) = 0
    PROVE  v = <<>>
BY SMTT(60)

LEMMA SameWaits ==
    ASSUME NEW c \in Client, c_omsg_q'[c] = c_omsg_q[c],
           \A x \in Requests(c) : Entry(x)' = Entry(x)
    PROVE  Waits'[c] = Waits[c]
<1>1. PICK q : q = c_omsg_q[c]
  OBVIOUS
<1>2. \A i \in DOMAIN q : Entry(q[i])' = Entry(q[i])
  BY <1>1 DEF Requests, Range
<1>3. Waits[c] = [i \in DOMAIN q |-> Entry(q[i])] /\ Waits'[c] = [i \in DOMAIN q |-> Entry(q[i])']
  BY <1>1 DEF Waits, Entry
<1> QED BY <1>2, <1>3

LEMMA EntriesOf ==
    ASSUME TypeOK', NEW c \in Client
    PROVE  /\ Waits'[c] \in Seq(EntrySet') /\ Len(Waits'[c]) = Len(c_omsg_q'[c])
           /\ \A i \in 1..Len(c_omsg_q'[c]), x \in Msg :
                 x = c_omsg_q'[c][i] => Waits'[c][i] = Entry(x)'
<1>1. PICK q : q = c_omsg_q'[c]
  OBVIOUS
<1>2. PICK n : n = Len(q)
  OBVIOUS
<1>3. q \in Seq(Msg)
  BY <1>1 DEF TypeOK, QueueTypes
<1>4. n \in Nat /\ DOMAIN q = 1..n /\ \A i \in 1..n : q[i] \in Msg
  BY SMTT(60), <1>2, <1>3
<1>5. PICK E : E = EntrySet'
  OBVIOUS
<1>6. Waits'[c] = [i \in 1..n |-> Entry(q[i])']
  BY <1>1, <1>4 DEF Waits, Entry
<1>7. Waits'[c] \in [1..n -> E] /\ \A i \in 1..n, x \in Msg : x = q[i] => Waits'[c][i] = Entry(x)'
  BY <1>4, <1>5, <1>6 DEF EntrySet
<1>8. \A f \in [1..n -> E] : f \in Seq(E) /\ Len(f) = n
  BY SMTT(60), <1>4
<1> QED BY <1>1, <1>2, <1>5, <1>7, <1>8

\* The requests of all clients are told apart from m, a new one, and stay as
\* they are.
Apart(m) == \A d \in Client : \A x \in Requests(d) : Entry(x)' = Entry(x) /\ Id(x) # Id(m)'

\* A request joins the queue of c.
LEMMA StepSubmits ==
    ASSUME TypeOK, TypeOK', NEW c \in Client, c \in open, NEW m \in Msg,
           c_omsg_q'[c] = Append(c_omsg_q[c], m),
           \A d \in Client : d # c => c_omsg_q'[d] = c_omsg_q[d],
           out' = out, open' \cap Client = open \cap Client, Apart(m)
    PROVE  Service!Submit(c)
<1>1. PICK q, w, v, E : /\ q = c_omsg_q[c] /\ w = Waits[c] /\ v = Waits'[c]
                        /\ E = EntrySet \cup EntrySet'
  OBVIOUS
<1>2. PICK n : n = Len(q)
  OBVIOUS
<1>3. q \in Seq(Msg) /\ c_omsg_q'[c] = Append(q, m)
  BY <1>1 DEF TypeOK, QueueTypes
<1>4. /\ n \in Nat /\ Len(Append(q, m)) = n + 1 /\ Append(q, m)[n + 1] = m
      /\ n + 1 \in 1..(n + 1)
      /\ \A i \in 1..n : Append(q, m)[i] = q[i] /\ i \in 1..(n + 1) /\ i \in DOMAIN q
  BY SMTT(60), <1>2, <1>3
<1>5. /\ w \in Seq(EntrySet) /\ Len(w) = n
      /\ \A i \in 1..n : w[i] = Entry(q[i])
  BY <1>1, <1>2, <1>3, <1>4, WaitsOf
<1>6. /\ v \in Seq(EntrySet') /\ Len(v) = Len(Append(q, m))
      /\ \A i \in 1..Len(Append(q, m)), x \in Msg : x = Append(q, m)[i] => v[i] = Entry(x)'
  BY SMTT(60), <1>1, <1>3, EntriesOf
<1>7. /\ Len(v) = n + 1
      /\ \A i \in 1..(n + 1), x \in Msg : x = Append(q, m)[i] => v[i] = Entry(x)'
  BY <1>4, <1>6
<1>8. v[n + 1] = Entry(m)' /\ \A i \in 1..n : v[i] = w[i]
  <2>1. v[n + 1] = Entry(m)'
    BY <1>4, <1>7
  <2>2. ASSUME NEW i \in 1..n
        PROVE  v[i] = w[i]
    <3>1. PICK x \in Msg : x = q[i]
      BY SMTT(60), <1>2, <1>3
    <3>2. v[i] = Entry(x)'
      BY <1>4, <1>7, <3>1
    <3>3. x \in Requests(c)
      BY <1>1, <1>4, <3>1 DEF Requests, Range
    <3> QED BY <1>5, <3>1, <3>2, <3>3 DEF Apart
  <2> QED BY <2>1, <2>2
<1>9. v = Append(w, Entry(m)')
  <2>1. w \in Seq(E) /\ v \in Seq(E)
    BY SMTT(60), <1>1, <1>5, <1>6
  <2>2. PICK e \in E : e = Entry(m)'
    BY <1>1 DEF EntrySet
  <2>3. Len(v) = Len(w) + 1 /\ v[Len(w) + 1] = e /\ \A i \in 1..Len(w) : v[i] = w[i]
    BY <1>5, <1>7, <1>8, <2>2
  <2> QED BY SMTT(60), <2>1, <2>2, <2>3, IsAppend
<1>10. \A d \in Client : d # c => Waits'[d] = Waits[d]
  BY SameWaits DEF Apart
<1>11. Waits' = [Waits EXCEPT ![c] = Append(@, Entry(m)')]
  BY <1>1, <1>9, <1>10, WaitsIsFunction
<1>12. ASSUME NEW d \in Client, NEW i \in DOMAIN Waits[d]
       PROVE  Waits[d][i].id # Entry(m)'.id
  <2>1. PICK x : x = c_omsg_q[d][i]
    OBVIOUS
  <2>2. x \in Requests(d) /\ Waits[d][i] = Entry(x)
    BY <1>12, <2>1, QueuesTyped, WaitsOf DEF Requests, Range
  <2> QED BY <2>2, EntryFields DEF Apart
<1>13. Len(Waits'[c]) = Len(Waits[c]) + 1 /\ Waits'[c][Len(Waits'[c])] = Entry(m)'
  BY <1>1, <1>5, <1>7, <1>8
<1> QED BY <1>11, <1>12, <1>13, SubmitIs

\* The oldest request of c leaves its queue.
LEMMA StepReplies ==
    ASSUME TypeOK, TypeOK', NEW c \in Client, c_omsg_q[c] # <<>>,
           c_omsg_q'[c] = Tail(c_omsg_q[c]),
           \A d \in Client : d # c => c_omsg_q'[d] = c_omsg_q[d],
           out' = [out EXCEPT ![c] = [id |-> Id(HeadOf(c)), ok |-> ~ReqError(HeadOf(c))]],
           open' \cap Client = open \cap Client,
           \A d \in Client : \A x \in Requests(d)' : Entry(x)' = Entry(x)
    PROVE  Service!Reply(c)
<1>1. PICK q, w, v, E : /\ q = c_omsg_q[c] /\ w = Waits[c] /\ v = Waits'[c]
                        /\ E = EntrySet \cup EntrySet'
  OBVIOUS
<1>2. PICK n : n = Len(q)
  OBVIOUS
<1>3. q \in Seq(Msg) /\ q # <<>> /\ c_omsg_q'[c] = Tail(q)
  BY <1>1, QueuesTyped
<1>4. /\ n \in Nat \ {0} /\ Len(Tail(q)) = n - 1 /\ Head(q) = q[1] /\ 1 \in DOMAIN q
      /\ \A i \in 1..(n - 1) : /\ Tail(q)[i] = q[i + 1] /\ Tail(q)[i] \in Msg
                               /\ i \in DOMAIN Tail(q) /\ i + 1 \in DOMAIN q
  BY SMTT(60), <1>2, <1>3
<1>5. /\ w \in Seq(EntrySet) /\ Len(w) = n
      /\ \A i \in DOMAIN q : w[i] = Entry(q[i])
  BY <1>1, <1>2, <1>3, WaitsOf
<1>6. /\ v \in Seq(EntrySet') /\ Len(v) = Len(Tail(q))
      /\ \A i \in 1..Len(Tail(q)), x \in Msg : x = Tail(q)[i] => v[i] = Entry(x)'
  <2>1. PICK u : u = c_omsg_q'[c]
    OBVIOUS
  <2>2. /\ v \in Seq(EntrySet') /\ Len(v) = Len(u)
        /\ \A i \in 1..Len(u), x \in Msg : x = u[i] => v[i] = Entry(x)'
    BY <1>1, <2>1, EntriesOf
  <2>3. u = Tail(q)
    BY <1>3, <2>1
  <2> QED BY <2>2, <2>3
<1>7. ASSUME NEW i \in 1..(n - 1)
      PROVE  v[i] = w[i + 1]
  <2>1. PICK x \in Msg : x = Tail(q)[i]
    BY <1>4
  <2>2. v[i] = Entry(x)' /\ w[i + 1] = Entry(x)
    BY <1>4, <1>5, <1>6, <2>1
  <2>3. x \in Requests(c)'
    BY <1>3, <1>4, <2>1 DEF Requests, Range
  <2> QED BY <2>2, <2>3
<1>8. v = Tail(w)
  <2>1. w \in Seq(E) /\ v \in Seq(E)
    BY SMTT(60), <1>1, <1>5, <1>6
  <2>2. w # <<>>
    BY SMTT(60), <1>4, <1>5
  <2>3. Len(v) = Len(w) - 1 /\ \A i \in 1..(Len(w) - 1) : v[i] = w[i + 1]
    BY <1>4, <1>5, <1>6, <1>7
  <2> QED BY SMTT(60), <2>1, <2>2, <2>3, IsTail
<1>9. \A d \in Client : d # c => Waits'[d] = Waits[d]
  BY SameWaits DEF Requests
<1>10. Waits' = [Waits EXCEPT ![c] = Tail(@)]
  BY <1>1, <1>8, <1>9, WaitsIsFunction
<1>11. Waits[c] # <<>> /\ Head(Waits[c]) = Entry(HeadOf(c))
  <2>1. Waits[c] # <<>> /\ Head(Waits[c]) = Waits[c][1]
    BY SMTT(60), <1>1, <1>4, <1>5
  <2> QED BY <1>1, <1>4, <1>5, <2>1 DEF HeadOf
<1>12. out' = [out EXCEPT ![c] = [id |-> Head(Waits[c]).id, ok |-> ~Head(Waits[c]).failed]]
  BY <1>11, EntryFields
<1> QED BY <1>10, <1>11, <1>12, ReplyIs

\* c is closed, and its queue forgotten.
LEMMA StepHangs ==
    ASSUME TypeOK, TypeOK', NEW c \in Client, c \in open, open' = open \ {c},
           c_omsg_q'[c] = <<>>, out' = [out EXCEPT ![c] = NoReply],
           \A d \in Client : d # c => c_omsg_q'[d] = c_omsg_q[d],
           \A d \in Client : \A x \in Requests(d) : d # c => Entry(x)' = Entry(x)
    PROVE  Service!Hangup(c)
<1>1. Waits'[c] = <<>>
  <2>1. Waits'[c] \in Seq(EntrySet') /\ Len(Waits'[c]) = Len(<<>>)
    BY EntriesOf
  <2>2. Len(<<>>) = 0
    BY SMTT(60)
  <2> QED BY <2>1, <2>2, IsEmpty
<1>2. \A d \in Client : d # c => Waits'[d] = Waits[d]
  BY SameWaits
<1>3. Waits' = [Waits EXCEPT ![c] = <<>>]
  BY <1>1, <1>2, WaitsIsFunction
<1> QED BY <1>3, HangupIs

LEMMA StepConnects ==
    ASSUME NEW c \in Client, c \notin open, open' = open \cup {c}, c_omsg_q' = c_omsg_q, out' = out,
           UNCHANGED <<req, error, ferror, frags>>
    PROVE  Service!Connect(c)
<1>1. \A x : Entry(x)' = Entry(x)
  BY DEF Entry, Id, ReqError
<1>2. \A d \in Client : Waits'[d] = Waits[d]
  BY <1>1, SameWaits
<1>3. Waits' = Waits
  BY <1>2, WaitsIsFunction
<1> QED BY <1>3, ConnectIs

-----------------------------------------------------------------------------
(* Requests are told apart by their numbers, and answered with their own answers *)

\* Whole requests that are in use have numbers of their own.
Numbered ==
    /\ \A m \in Msg : req[m].tag <= ntag
    /\ \A x, y \in Msg : x # y /\ req[x].tag = req[y].tag /\ req[x].part = 0 /\ req[y].part = 0
                            => req[x].tag = 0
    /\ \A c \in Client : \A m \in Requests(c) : req[m].tag # 0
    /\ \A m \in Forwarding : req[m].tag # 0

\* What is done has failed, or has its answer.
WellAnswered == \A m \in done : m \in error \/ peer[m] = Id(m)

ServeInv == Numbered /\ WellAnswered

LEMMA InitServes == Init => ServeInv
<1> SUFFICES ASSUME Init
             PROVE  ServeInv
  OBVIOUS
<1>1. \A m \in Msg : req[m].tag = 0
  BY SMTT(60) DEF Init, Blank, Message
<1>2. \A c \in Client : Requests(c) = {}
  BY RangeEmpty DEF Init, Requests
<1>3. Forwarding = {} /\ done = {} /\ ntag = 0
  BY RangeEmpty DEF Init, Forwarding
<1>4. 0 <= 0
  BY SMTT(60)
<1> QED BY <1>1, <1>2, <1>3, <1>4 DEF ServeInv, Numbered, WellAnswered

LEMMA NumbersKept ==
    ASSUME TypeOK, Numbered, ntag' = ntag,
           \A x \in Msg : req'[x] = req[x] \/ req'[x].tag = 0,
           \A c \in Client : \A x \in Requests(c)' :
              /\ x \in Msg /\ req'[x] = req[x]
              /\ x \in Requests(c) \/ x \in Forwarding,
           \A x \in Forwarding' : x \in Msg /\ req'[x] = req[x] /\ x \in Forwarding
    PROVE  Numbered'
<1>1. 0 <= ntag
  BY SMTT(60) DEF TypeOK, LoopTypes
<1>2. \A x \in Msg : req'[x].tag <= ntag'
  BY <1>1 DEF Numbered
<1>3. ASSUME NEW x \in Msg, NEW y \in Msg, x # y, req'[x].tag = req'[y].tag, req'[x].part = 0,
             req'[y].part = 0
      PROVE  req'[x].tag = 0
  BY <1>3 DEF Numbered
<1>4. \A c \in Client : \A x \in Requests(c)' : req'[x].tag # 0
  BY DEF Numbered
<1>5. \A x \in Forwarding' : req'[x].tag # 0
  BY DEF Numbered
<1> QED BY <1>2, <1>3, <1>4, <1>5 DEF Numbered

\* A request is read, and its fragments, those of new.
LEMMA NumbersRead ==
    ASSUME TypeOK, Numbered, ntag' = ntag + 1, NEW m \in Msg, NEW new \in SUBSET Msg,
           \A x \in Msg : x \notin new => req'[x] = req[x],
           \A x \in new : req'[x].tag = ntag + 1 /\ (x # m => req'[x].part # 0),
           \A c \in Client : \A x \in Requests(c)' : x \in Msg /\ (x \in Requests(c) \/ x \in new),
           \A x \in Forwarding' : x \in new
    PROVE  Numbered'
<1>1. ntag + 1 # 0 /\ ntag + 1 <= ntag + 1 /\ \A x \in Msg : req[x].tag <= ntag + 1
                                                            /\ req[x].tag # ntag + 1
  <2>1. ntag \in Nat /\ \A x \in Msg : req[x].tag \in Nat /\ req[x].tag <= ntag
    BY SMTT(60) DEF TypeOK, MsgTypes, LoopTypes, Request, Numbered
  <2> QED BY SMTT(60), <2>1
<1>2. \A x \in Msg : req'[x].tag <= ntag'
  BY <1>1
<1>3. ASSUME NEW x \in Msg, NEW y \in Msg, x # y, req'[x].tag = req'[y].tag, req'[x].part = 0,
             req'[y].part = 0
      PROVE  req'[x].tag = 0
  BY <1>1, <1>3 DEF Numbered
<1>4. \A c \in Client : \A x \in Requests(c)' : req'[x].tag # 0
  BY <1>1 DEF Numbered
<1>5. \A x \in Forwarding' : req'[x].tag # 0
  BY <1>1
<1> QED BY <1>2, <1>3, <1>4, <1>5 DEF Numbered

LEMMA AnswersKept ==
    ASSUME WellAnswered,
           \A x \in done' : \/ x \in error' \/ peer'[x] = Id(x)'
                            \/ /\ x \in done /\ peer'[x] = peer[x] /\ req'[x] = req[x]
                               /\ x \in error => x \in error'
    PROVE  WellAnswered'
BY DEF WellAnswered, Id

LEMMA FinishesNumbers ==
    ASSUME TypeOK, OwnInv, Numbered, Finishes, ntag' = ntag
    PROVE  Numbered'
<1>1. PICK gone, lost \in SUBSET Msg : Finished(gone, lost)
  BY DEF Finishes
<1>2. /\ req' = Reset(req, gone, Blank) /\ UNCHANGED <<c_omsg_q, frag_msgq>> /\ recving = Nil
      /\ \A x \in gone : (x \in swallow \/ Noreply(x)) /\ \E s \in Server : x \in Carried(s)
  BY <1>1 DEF Finished
<1>3. Blank.tag = 0
  BY SMTT(60) DEF Blank, Message
<1>4. \A x \in Msg : req'[x] = req[x] \/ req'[x].tag = 0
  BY <1>2, <1>3, Freed
<1>5. ASSUME NEW c \in Client, NEW x \in Requests(c)'
      PROVE  x \in Msg /\ x \in Requests(c) /\ req'[x] = req[x]
  <2>1. x \in Requests(c) /\ x \in Msg
    BY <1>2, QueuesTyped DEF Requests
  <2>2. x \notin gone
    BY <1>2, <2>1, CarriedAlone
  <2> QED BY <1>2, <2>1, <2>2, Freed
<1>6. Forwarding' = {}
  BY <1>2, RangeEmpty DEF OwnInv, ForwardOK, Forwarding
<1> QED BY <1>4, <1>5, <1>6, NumbersKept

LEMMA PutsNumbers ==
    ASSUME TypeOK, OwnInv, Numbered, Puts, ntag' = ntag
    PROVE  Numbered'
<1>1. PICK gone, left \in SUBSET Msg : Put(gone, left)
  BY DEF Puts
<1>2. /\ req' = Reset(req, gone, Blank) /\ frag_msgq' = <<>>
      /\ \A c \in Client : \A x \in Requests(c)' : x \in Requests(c) /\ x \notin gone
  BY <1>1 DEF Put
<1>3. Blank.tag = 0
  BY SMTT(60) DEF Blank, Message
<1>4. \A x \in Msg : req'[x] = req[x] \/ req'[x].tag = 0
  BY <1>2, <1>3, Freed
<1>5. \A c \in Client : \A x \in Requests(c)' : x \in Msg /\ x \in Requests(c) /\ req'[x] = req[x]
  BY <1>2, QueuesTyped, Freed
<1>6. Forwarding' = {}
  BY <1>2, RangeEmpty DEF Forwarding
<1> QED BY <1>4, <1>5, <1>6, NumbersKept

-----------------------------------------------------------------------------
(* Every handler, as a step of Service *)

\* The requests of clients stay, and what has failed stays failed.
LEMMA StepGrows ==
    ASSUME TypeOK, UNCHANGED <<c_omsg_q, out>>, open' \cap Client = open \cap Client,
           \A c \in Client : \A x \in Requests(c) : req'[x] = req[x] /\ frags[x] \subseteq frags'[x],
           error \subseteq error', ferror \subseteq ferror'
    PROVE  Service!Fail
<1>1. ASSUME NEW c \in Client, NEW x \in Requests(c)
      PROVE  Id(x)' = Id(x) /\ (ReqError(x) => ReqError(x)')
  <2>1. req'[x] = req[x] /\ frags[x] \subseteq frags'[x]
    OBVIOUS
  <2> QED BY <2>1 DEF Id, ReqError
<1> QED BY <1>1, StepFails

LEMMA ServersApart ==
    ASSUME NEW s \in Server
    PROVE  (open \cup {s}) \cap Client = open \cap Client /\ (open \ {s}) \cap Client = open \cap Client
BY ConstantsAssumption

\* Handlers that touch no message: a client is accepted, or nothing is seen.
LEMMA QuietServes ==
    ASSUME TypeOK, ServeInv,
           \/ \E c \in Client : Accept(c) \/ ReadEof(c) \/ RspSendIdle(c)
           \/ \E s \in Server : ReqSendIdle(s) \/ EarlyAnswer(s)
           \/ \E m \in Msg : TimeoutSkip(m)
           \/ Terminate \/ UNCHANGED vars
    PROVE  ServeInv' /\ ((\E c \in Client : Service!Connect(c)) \/ Service!Fail)
<1>1. UNCHANGED <<req, done, error, ferror, peer, frags, c_omsg_q, frag_msgq, ntag, out>>
  BY DEF Accept, ReadEof, RspSendIdle, ReqSendIdle, EarlyAnswer, TimeoutSkip, Terminate, vars,
         msgVars, flagVars, clientVars, serverVars, connVars, loopVars, envVars
<1>2. ServeInv'
  BY <1>1 DEF ServeInv, Numbered, WellAnswered, Id, Requests, Forwarding
<1>3. ASSUME NEW c \in Client, Accept(c)
      PROVE  Service!Connect(c)
  <2>1. c \notin open /\ open' = open \cup {c}
    BY <1>3 DEF Accept
  <2> QED BY <1>1, <2>1, StepConnects
<1>4. ASSUME open' = open
      PROVE  Service!Fail
  <2>1. \A c \in Client : \A x \in Requests(c) : req'[x] = req[x] /\ frags[x] \subseteq frags'[x]
    BY <1>1
  <2> QED BY <1>1, <1>4, <2>1, StepGrows
<1>5. (\E c \in Client : Accept(c)) \/ open' = open
  BY DEF ReadEof, RspSendIdle, ReqSendIdle, EarlyAnswer, TimeoutSkip, Terminate, vars, connVars
<1> QED BY <1>2, <1>3, <1>4, <1>5

\* A request or a fragment that is read comes from the pool.
LEMMA ReadNumbers ==
    ASSUME TypeOK, OwnInv, Numbered, NEW c \in Client, NEW m \in Msg, CanRead(c),
           NEW new \in SUBSET Msg, ntag' = ntag + 1,
           \A x \in Msg : x \notin new => req'[x] = req[x],
           \A x \in new : req'[x].tag = ntag + 1 /\ (x # m => req'[x].part # 0),
           \A d \in Client : \A x \in Requests(d)' : x \in Requests(d) \/ x \in new,
           frag_msgq' = frag_msgq \/ \A x \in Forwarding' : x \in new
    PROVE  Numbered'
<1>1. Forwarding = {}
  BY RangeEmpty DEF CanRead, Idle, OwnInv, ForwardOK, Forwarding
<1>2. \A x \in Forwarding' : x \in new
  BY <1>1 DEF Forwarding
<1>3. \A d \in Client : \A x \in Requests(d)' : x \in Msg /\ (x \in Requests(d) \/ x \in new)
  BY QueuesTyped
<1> QED BY <1>2, <1>3, NumbersRead

LEMMA ReadSingleServes ==
    ASSUME TypeOK, OwnInv, ServeInv, NEW c \in Client, NEW m \in Msg, NEW kind, ReadSingle(c, m, kind)
    PROVE  ServeInv' /\ Service!Fail
<1>1. /\ CanRead(c) /\ m \in Free /\ ntag' = ntag + 1 /\ frag_msgq' = <<m>>
      /\ req' = [req EXCEPT ![m] = Message(kind, ntag + 1, 0, c, Nil, 0)]
      /\ UNCHANGED <<done, error, ferror, peer, frags, c_omsg_q, out, open>>
  BY DEF ReadSingle, flagVars, clientVars, connVars
<1>2. \A x \in Msg : x # m => req'[x] = req[x]
  BY <1>1 DEF TypeOK, MsgTypes
<1>3. req'[m].tag = ntag + 1
  BY SMTT(60), <1>1 DEF TypeOK, MsgTypes, Message
<1>4. \A x \in Forwarding' : x = m
  BY <1>1, RangeOne DEF Forwarding
<1>5. Numbered'
  <2>1. \A x \in {m} : req'[x].tag = ntag + 1 /\ (x # m => req'[x].part # 0)
    BY <1>3
  <2>2. \A d \in Client : \A x \in Requests(d)' : x \in Requests(d) \/ x \in {m}
    BY <1>1 DEF Requests
  <2>3. CanRead(c) /\ ntag' = ntag + 1
    BY <1>1
  <2> QED BY <1>2, <1>4, <2>1, <2>2, <2>3, ReadNumbers DEF ServeInv
<1>6. WellAnswered'
  <2>1. \A x \in done' : x \in done /\ x # m /\ x \in Msg
    BY <1>1, FreeNowhere, FlagsTyped
  <2> QED BY <1>1, <1>2, <2>1, AnswersKept DEF ServeInv
<1>7. \A d \in Client : \A x \in Requests(d) : req'[x] = req[x] /\ frags[x] \subseteq frags'[x]
  BY <1>1, <1>2, FreeNowhere, QueuesTyped
<1> QED BY <1>1, <1>5, <1>6, <1>7, StepGrows DEF ServeInv

\* A request that is queued when it is read: its number is new.
ReadQueued(c, m, new) ==
    /\ CanRead(c) /\ m \in new /\ ntag' = ntag + 1
    /\ \A x \in Msg : x \notin new => req'[x] = req[x]
    /\ \A x \in new : x \in Free /\ req'[x].tag = ntag + 1 /\ (x # m => req'[x].part # 0)
    /\ req'[m].part = 0 /\ peer' = [peer EXCEPT ![m] = <<ntag + 1, 0>>] /\ done' = done \cup {m}
    /\ c_omsg_q' = [c_omsg_q EXCEPT ![c] = Append(@, m)]
    /\ frag_msgq' = frag_msgq \/ \A x \in Forwarding' : x \in new
    /\ UNCHANGED <<error, ferror, frags, open, out>>

LEMMA ReadQueuedServes ==
    ASSUME TypeOK, TypeOK', OwnInv, ServeInv, NEW c \in Client, NEW m \in Msg,
           NEW new \in SUBSET Msg, ReadQueued(c, m, new)
    PROVE  ServeInv' /\ Service!Submit(c)
<1>1. /\ CanRead(c) /\ m \in new /\ m \in Free /\ ntag' = ntag + 1 /\ done' = done \cup {m}
      /\ \A x \in Msg : x \notin new => req'[x] = req[x]
      /\ \A x \in new : x \in Free /\ req'[x].tag = ntag + 1 /\ (x # m => req'[x].part # 0)
      /\ req'[m].part = 0 /\ req'[m].tag = ntag + 1
      /\ frag_msgq' = frag_msgq \/ \A x \in Forwarding' : x \in new
      /\ UNCHANGED <<error, ferror, frags, open, out>>
  BY DEF ReadQueued
<1>2. peer'[m] = <<ntag + 1, 0>> /\ \A x \in Msg : x # m => peer'[x] = peer[x]
  BY DEF TypeOK, MsgTypes, ReadQueued
<1>3. c_omsg_q'[c] = Append(c_omsg_q[c], m) /\ \A d \in Client : d # c => c_omsg_q'[d] = c_omsg_q[d]
  BY DEF TypeOK, QueueTypes, ReadQueued
<1>4. \A d \in Client : \A x \in Requests(d)' : x \in Requests(d) \/ x \in new
  <2>1. m \notin Requests(c)
    BY <1>1, FreeNowhere
  <2>2. Requests(c)' = Requests(c) \cup {m} /\ \A d \in Client : d # c => Requests(d)' = Requests(d)
    BY <2>1, QueuedOnClient DEF ReadQueued
  <2> QED BY <1>1, <2>2
<1>5. Numbered'
  <2>1. /\ CanRead(c) /\ ntag' = ntag + 1
        /\ \A x \in Msg : x \notin new => req'[x] = req[x]
        /\ \A x \in new : req'[x].tag = ntag + 1 /\ (x # m => req'[x].part # 0)
    BY <1>1
  <2>2. frag_msgq' = frag_msgq \/ \A x \in Forwarding' : x \in new
    BY <1>1
  <2> QED BY <1>4, <2>1, <2>2, ReadNumbers DEF ServeInv
<1>6. Id(m)' = <<ntag + 1, 0>>
  BY <1>1 DEF Id
<1>7. WellAnswered'
  <2>1. \A x \in done : x \in Msg /\ x \notin new /\ x # m
    BY <1>1, FreeNowhere, FlagsTyped
  <2>2. \A x \in done' : peer'[x] = Id(x)' \/ (x \in done /\ peer'[x] = peer[x] /\ req'[x] = req[x])
    BY <1>1, <1>2, <1>6, <2>1
  <2> QED BY <1>1, <2>2, AnswersKept DEF ServeInv
<1>8. ASSUME NEW d \in Client, NEW x \in Requests(d)
      PROVE  Entry(x)' = Entry(x) /\ Id(x) # Id(m)'
  <2>1. x \in Msg /\ req'[x] = req[x]
    BY <1>1, FreeNowhere, QueuesTyped
  <2>2. Id(x)' = Id(x) /\ (ReqError(x)' <=> ReqError(x))
    BY <1>1, <2>1 DEF Id, ReqError
  <2>3. \A n \in Nat : n <= ntag => n # ntag + 1
    BY SMTT(60) DEF TypeOK, LoopTypes
  <2>4. req[x].tag \in Nat
    BY SMTT(60), <2>1 DEF TypeOK, MsgTypes, Request
  <2>5. req[x].tag # ntag + 1
    BY <2>1, <2>3, <2>4 DEF ServeInv, Numbered
  <2>6. Id(x)[1] = req[x].tag /\ <<ntag + 1, 0>>[1] = ntag + 1
    BY SMTT(60) DEF Id
  <2> QED BY <1>6, <2>2, <2>5, <2>6, EntryKept
<1>9. Service!Submit(c)
  <2>1. c \in open /\ open' \cap Client = open \cap Client /\ out' = out
    BY <1>1 DEF CanRead
  <2>2. Apart(m)
    BY <1>8 DEF Apart
  <2> QED BY <1>3, <2>1, <2>2, StepSubmits
<1> QED BY <1>5, <1>7, <1>9 DEF ServeInv

LEMMA ReadLocalServes ==
    ASSUME TypeOK, TypeOK', OwnInv, ServeInv, NEW c \in Client, NEW m \in Msg, ReadLocal(c, m)
    PROVE  ServeInv' /\ Service!Submit(c)
<1>1. /\ CanRead(c) /\ m \in Free /\ ntag' = ntag + 1 /\ frag_msgq' = frag_msgq
      /\ req' = [req EXCEPT ![m] = Message("local", ntag + 1, 0, c, Nil, 0)]
      /\ peer' = [peer EXCEPT ![m] = <<ntag + 1, 0>>] /\ done' = done \cup {m}
      /\ c_omsg_q' = [c_omsg_q EXCEPT ![c] = Append(@, m)]
      /\ UNCHANGED <<error, ferror, frags, open, out>>
  BY DEF ReadLocal
<1>2. \A x \in Msg : x \notin {m} => req'[x] = req[x]
  BY <1>1 DEF TypeOK, MsgTypes
<1>3. req'[m].tag = ntag + 1 /\ req'[m].part = 0
  BY SMTT(60), <1>1 DEF TypeOK, MsgTypes, Message
<1>4. \A x \in {m} : x \in Free /\ req'[x].tag = ntag + 1 /\ (x # m => req'[x].part # 0)
  BY <1>1, <1>3
<1>5. ReadQueued(c, m, {m})
  BY <1>1, <1>2, <1>3, <1>4 DEF ReadQueued
<1> QED BY <1>5, ReadQueuedServes

LEMMA ReadVectorServes ==
    ASSUME TypeOK, TypeOK', OwnInv, ServeInv, NEW c \in Client, NEW m \in Msg, NEW q \in Seq(Msg),
           NEW kind, ReadVector(c, m, q, kind)
    PROVE  ServeInv' /\ Service!Submit(c)
<1>1. /\ CanRead(c) /\ m \in Free /\ Range(q) \subseteq Free \ {m}
      /\ ntag' = ntag + 1 /\ frag_msgq' = q
      /\ peer' = [peer EXCEPT ![m] = <<ntag + 1, 0>>] /\ done' = done \cup {m}
      /\ c_omsg_q' = [c_omsg_q EXCEPT ![c] = Append(@, m)]
      /\ UNCHANGED <<error, ferror, frags, open, out>>
  BY DEF ReadVector, connVars
<1>2. PICK new \in SUBSET Msg : new = Range(q) \cup {m}
  BY RangeOfSeq
<1>3. /\ \A x \in Msg : x \notin new => req'[x] = req[x]
      /\ req'[m] = Message(kind, ntag + 1, 0, c, m, Len(q))
      /\ \A x \in new : x # m => \E i \in DOMAIN q :
            req'[x] = Message(kind, ntag + 1, i, c, m, 0)
  <2> DEFINE at(x) == CHOOSE i \in DOMAIN q : q[i] = x
  <2>1. \A x \in Range(q) : at(x) \in DOMAIN q
    BY DEF Range
  <2>2. req' = [x \in Msg |-> IF x = m THEN Message(kind, ntag + 1, 0, c, m, Len(q))
                              ELSE IF x \in Range(q)
                              THEN Message(kind, ntag + 1, at(x), c, m, 0)
                              ELSE req[x]]
    BY DEF ReadVector
  <2> HIDE DEF at
  <2> QED BY <1>2, <2>1, <2>2
<1>4. /\ req'[m].tag = ntag + 1 /\ req'[m].part = 0
      /\ \A y : \A i \in DOMAIN q : y = Message(kind, ntag + 1, i, c, m, 0) =>
                                         y.tag = ntag + 1 /\ y.part # 0
  BY SMTT(60), <1>3 DEF Message
<1>6. \A x \in new : x \in Free /\ req'[x].tag = ntag + 1 /\ (x # m => req'[x].part # 0)
  <2> TAKE x \in new
  <2>1. CASE x = m
    BY <1>1, <1>4, <2>1
  <2>2. CASE x # m
    <3>1. PICK i \in DOMAIN q : req'[x] = Message(kind, ntag + 1, i, c, m, 0)
      BY <1>3, <2>2
    <3> QED BY <1>1, <1>2, <1>4, <2>2, <3>1
  <2> QED BY <2>1, <2>2
<1>7. req'[m].part = 0 /\ m \in new /\ \A x \in Forwarding' : x \in new
  BY <1>1, <1>2, <1>4 DEF Forwarding
<1>8. ReadQueued(c, m, new)
  BY <1>1, <1>3, <1>6, <1>7 DEF ReadQueued
<1> QED BY <1>8, ReadQueuedServes

\* A message that is forwarded, or that could not be: one that expects an answer
\* and is no fragment joins the queue of its client, otherwise no client sees it.
LEMMA ForwardServes ==
    ASSUME TypeOK, TypeOK', OwnInv, ConnInv, ServeInv, frag_msgq # <<>>,
           NEW m \in Msg, m \in Forwarding, ToForward(m),
           \A d \in Client : m \notin Requests(d), \A x \in Msg : m \notin frags[x],
           EnqueueOutq(recving, m), \A d \in Client : \A x \in Requests(d) : req'[x] = req[x],
           Noreply(m) \/ req'[m] = req[m],
           \A x \in error' : x \in error \/ x = m, error \subseteq error',
           UNCHANGED <<ferror, out>>, open' \cap Client = open \cap Client
    PROVE  (\E c \in Client : Service!Submit(c)) \/ Service!Fail
<1>1. recving \in Client /\ recving \in open
  BY ForwardingOpen
<1>2. CASE Noreply(m) \/ req[m].part > 0
  <2>1. c_omsg_q' = c_omsg_q
    BY <1>2 DEF EnqueueOutq
  <2>2. \A x \in Msg : frags[x] \subseteq frags'[x]
    BY Enqueued, <1>1
  <2>3. \A d \in Client : \A x \in Requests(d) : req'[x] = req[x] /\ frags[x] \subseteq frags'[x]
    BY <2>2, QueuesTyped
  <2>4. ferror \subseteq ferror' /\ out' = out
    OBVIOUS
  <2> QED BY <2>1, <2>3, <2>4, StepGrows
<1>3. CASE ~(Noreply(m) \/ req[m].part > 0)
  <2>1. c_omsg_q' = [c_omsg_q EXCEPT ![recving] = Append(@, m)] /\ frags' = frags
    BY <1>3 DEF EnqueueOutq
  <2>2. c_omsg_q'[recving] = Append(c_omsg_q[recving], m)
        /\ \A d \in Client : d # recving => c_omsg_q'[d] = c_omsg_q[d]
    BY <1>1, <2>1 DEF TypeOK, QueueTypes
  <2>3. req[m].part = 0
    <3>1. req[m].part \in Nat
      BY SMTT(60) DEF TypeOK, MsgTypes, Request
    <3>2. \A n \in Nat : n > 0 \/ n = 0
      BY SMTT(60)
    <3> QED BY <1>3, <3>1, <3>2
  <2>4. ASSUME NEW d \in Client, NEW x \in Requests(d)
        PROVE  Entry(x)' = Entry(x) /\ Id(x) # Id(m)'
    <3>1. x \in Msg /\ x # m /\ req'[x] = req[x] /\ m \notin frags[x] /\ req[x].part = 0
      BY QueuesTyped DEF OwnInv, ClientsOK
    <3>2. Id(x)' = Id(x)
      BY <3>1 DEF Id
    <3>3. x \in error' <=> x \in error
      BY <3>1
    <3>4. frags[x] \cap error' = frags[x] \cap error
      BY <3>1
    <3>5. ReqError(x)' <=> ReqError(x)
      BY <2>1, <3>3, <3>4 DEF ReqError
    <3>6. req[x].tag # req[m].tag
      BY <2>3, <3>1 DEF ServeInv, Numbered
    <3>7. Id(x)[1] = req[x].tag /\ Id(m)'[1] = req'[m].tag
      BY SMTT(60) DEF Id
    <3>8. req'[m] = req[m]
      BY <1>3
    <3>9. Id(x) # Id(m)'
      BY <3>6, <3>7, <3>8
    <3> QED BY <3>2, <3>5, <3>9, EntryKept
  <2>5. Apart(m)
    BY <2>4 DEF Apart
  <2>6. PICK c \in Client : c = recving
    BY <1>1
  <2>7. Service!Submit(c)
    <3>1. /\ c \in open /\ c_omsg_q'[c] = Append(c_omsg_q[c], m)
          /\ \A d \in Client : d # c => c_omsg_q'[d] = c_omsg_q[d]
      BY <1>1, <2>2, <2>6
    <3>2. out' = out
      OBVIOUS
    <3> QED BY <2>5, <3>1, <3>2, StepSubmits
  <2> QED BY <2>7
<1> QED BY <1>2, <1>3

LEMMA ReqForwardServes ==
    ASSUME TypeOK, TypeOK', OwnInv, ConnInv, ServeInv, NEW s \in Server, ReqForward(s)
    PROVE  ServeInv' /\ ((\E c \in Client : Service!Submit(c)) \/ Service!Fail)
<1>1. PICK m \in Msg, a \in SUBSET Msg : Forwarded(s, m, a)
  BY ReqForwardFacts
<1>2. /\ m \in Forwarding /\ \A x \in a : x \in Free /\ x # m
      /\ \A x \in Msg : x \notin a => req'[x] = req[x]
      /\ \A x \in Forwarding' : x \in Forwarding
      /\ \A d \in Client : \A x \in Requests(d)' : x \in Requests(d) \/ x = m
      /\ UNCHANGED <<done, error>>
  BY <1>1 DEF Forwarded
<1>3. \A d \in Client : \A x \in Requests(d) : x \in Msg /\ x \notin a
  BY <1>2, FreeNowhere, QueuesTyped
<1>4. \A x \in Forwarding : x \in Msg /\ x \notin a
  BY <1>2, FreeNowhere, QueuesTyped
<1>5. frag_msgq # <<>> /\ ForwardNext
  BY DEF ReqForward
<1>6. PICK h : h = Head(frag_msgq)
  OBVIOUS
<1>7. EnqueueOutq(recving, h) /\ UNCHANGED <<ferror, peer, out, ntag>> /\ open' = open \cup {s}
  BY <1>6 DEF ReqForward, envVars
<1>8. \A x \in Msg : req'[x] = req[x] \/ req'[x].tag = 0
  <2>1. PICK auth : req' = Reset(req, Range(auth), Message("auth", 0, 0, recving, Nil, 0))
    BY DEF ReqForward
  <2>2. Message("auth", 0, 0, recving, Nil, 0).tag = 0
    BY SMTT(60) DEF Message
  <2> QED BY <2>1, <2>2 DEF Reset
<1>9. Numbered'
  <2>1. \A d \in Client : \A x \in Requests(d)' : /\ x \in Msg /\ req'[x] = req[x]
                                                  /\ x \in Requests(d) \/ x \in Forwarding
    BY <1>2, <1>3, <1>4
  <2>2. \A x \in Forwarding' : x \in Msg /\ req'[x] = req[x] /\ x \in Forwarding
    BY <1>2, <1>4
  <2>3. ntag' = ntag
    BY <1>7
  <2> QED BY <1>8, <2>1, <2>2, <2>3, NumbersKept DEF ServeInv
<1>10. WellAnswered'
  <2>1. \A x \in done : x \in Msg /\ req'[x] = req[x]
    BY <1>2, FreeNowhere, FlagsTyped
  <2> QED BY <1>2, <1>7, <2>1, AnswersKept DEF ServeInv
<1>11. (\E c \in Client : Service!Submit(c)) \/ Service!Fail
  <2>1. /\ h \in Msg /\ h \in Forwarding /\ ToForward(h)
        /\ \A d \in Client : h \notin Requests(d)
        /\ \A x \in Msg : h \notin frags[x]
    BY <1>5, <1>6, ForwardHead
  <2>2. \A d \in Client : \A x \in Requests(d) : req'[x] = req[x]
    BY <1>2, <1>3
  <2>3. req'[h] = req[h] /\ \A x \in error' : x \in error \/ x = h
    BY <1>2, <1>4, <2>1
  <2>4. open' \cap Client = open \cap Client
    BY <1>7, ServersApart
  <2>5. error \subseteq error' /\ UNCHANGED <<ferror, out>> /\ frag_msgq # <<>>
    BY <1>2, <1>5, <1>7
  <2>6. EnqueueOutq(recving, h)
    BY <1>7
  <2> QED BY <2>1, <2>2, <2>3, <2>4, <2>5, <2>6, ForwardServes
<1> QED BY <1>9, <1>10, <1>11 DEF ServeInv

LEMMA ReqForwardErrorServes ==
    ASSUME TypeOK, TypeOK', OwnInv, ConnInv, ServeInv, ReqForwardError
    PROVE  ServeInv' /\ ((\E c \in Client : Service!Submit(c)) \/ Service!Fail)
<1>1. PICK m \in Msg, gone \in SUBSET Msg : ForwardFailed(m, gone)
  BY ForwardErrorFacts
<1>2. /\ m \in Forwarding /\ \A x \in gone : x = m /\ Noreply(m)
      /\ m \notin gone => ~Noreply(m)
      /\ \A x \in Msg : x \notin gone => req'[x] = req[x]
      /\ \A x \in Msg : x \in gone => req'[x] = Blank
      /\ done' = done \cup ({m} \ gone) /\ error' = error \cup ({m} \ gone)
      /\ m \notin done
      /\ \A x \in Forwarding' : x \in Forwarding /\ x # m
      /\ \A d \in Client : \A x \in Requests(d)' : x \in Requests(d) \/ (x = m /\ ~Noreply(m))
      /\ \A d \in Client : m \notin Requests(d)
  BY <1>1 DEF ForwardFailed
<1>3. frag_msgq # <<>> /\ ForwardNext
  BY DEF ReqForwardError
<1>4. PICK h : h = Head(frag_msgq)
  OBVIOUS
<1>5. /\ EnqueueOutq(recving, h) /\ UNCHANGED <<ferror, peer, out, ntag, open>>
      /\ \A x \in error' : x \in error \/ x = h
      /\ \A x \in Msg : x # h \/ ~Noreply(x) => req'[x] = req[x]
  BY <1>4 DEF ReqForwardError, envVars, Reset
<1>6. Blank.tag = 0
  BY SMTT(60) DEF Blank, Message
<1>7. \A x \in Msg : req'[x] = req[x] \/ req'[x].tag = 0
  BY <1>2, <1>6
<1>8. Numbered'
  <2>1. \A d \in Client : \A x \in Requests(d)' : /\ x \in Msg /\ req'[x] = req[x]
                                                  /\ x \in Requests(d) \/ x \in Forwarding
    BY <1>2, QueuesTyped
  <2>2. \A x \in Forwarding' : x \in Msg /\ req'[x] = req[x] /\ x \in Forwarding
    BY <1>2, QueuesTyped
  <2>3. ntag' = ntag
    BY <1>5
  <2> QED BY <1>7, <2>1, <2>2, <2>3, NumbersKept DEF ServeInv
<1>9. WellAnswered'
  <2>1. \A x \in done' : x \in error' \/ (x \in done /\ req'[x] = req[x])
    BY <1>2, FlagsTyped
  <2>2. \A x \in error : x \in error'
    BY <1>2
  <2> QED BY <1>5, <2>1, <2>2, AnswersKept DEF ServeInv
<1>10. (\E c \in Client : Service!Submit(c)) \/ Service!Fail
  <2>1. /\ h \in Msg /\ h \in Forwarding /\ ToForward(h)
        /\ \A d \in Client : h \notin Requests(d)
        /\ \A x \in Msg : h \notin frags[x]
    BY <1>3, <1>4, ForwardHead
  <2>2. \A d \in Client : \A x \in Requests(d) : req'[x] = req[x]
    BY <1>2, QueuesTyped
  <2>3. Noreply(h) \/ req'[h] = req[h]
    BY <1>5, <2>1
  <2>4. /\ error \subseteq error' /\ UNCHANGED <<ferror, out>> /\ frag_msgq # <<>>
        /\ \A x \in error' : x \in error \/ x = h
        /\ open' \cap Client = open \cap Client
    BY <1>2, <1>3, <1>5
  <2>5. EnqueueOutq(recving, h)
    BY <1>5
  <2> QED BY <2>1, <2>2, <2>3, <2>4, <2>5, ForwardServes
<1> QED BY <1>8, <1>9, <1>10 DEF ServeInv

\* server_connected: the SELECT is nobody's.
LEMMA ServerConnectedServes ==
    ASSUME TypeOK, OwnInv, ServeInv, NEW s \in Server, ServerConnected(s)
    PROVE  ServeInv' /\ Service!Fail
<1>1. PICK a \in SUBSET Msg : Connected(s, a)
  BY ServerConnectedFacts
<1>2. /\ \A x \in a : x \in Free
      /\ \A x \in Msg : x \notin a => req'[x] = req[x]
      /\ UNCHANGED <<done, error, frags, c_omsg_q, frag_msgq>>
  BY <1>1 DEF Connected
<1>3. UNCHANGED <<ferror, peer, open, out, ntag>>
  BY DEF ServerConnected, connVars, envVars
<1>4. \A x \in Msg : req'[x] = req[x] \/ req'[x].tag = 0
  <2>1. PICK select : req' = Reset(req, Range(select), Message("select", 0, 0, Nil, Nil, 0))
    BY DEF ServerConnected
  <2>2. Message("select", 0, 0, Nil, Nil, 0).tag = 0
    BY SMTT(60) DEF Message
  <2> QED BY <2>1, <2>2 DEF Reset
<1>5. \A d \in Client : Requests(d)' = Requests(d) /\ \A x \in Requests(d) : x \in Msg /\ req'[x] = req[x]
  BY <1>2, FreeNowhere, QueuesTyped DEF Requests
<1>6. \A x \in Forwarding' : x \in Msg /\ x \in Forwarding /\ req'[x] = req[x]
  BY <1>2, FreeNowhere, QueuesTyped DEF Forwarding
<1>7. Numbered'
  BY <1>3, <1>4, <1>5, <1>6, NumbersKept DEF ServeInv
<1>8. WellAnswered'
  <2>1. \A x \in done : x \in Msg /\ req'[x] = req[x]
    BY <1>2, FreeNowhere, FlagsTyped
  <2> QED BY <1>2, <1>3, <2>1, AnswersKept DEF ServeInv
<1>9. Service!Fail
  BY <1>2, <1>3, <1>5, StepGrows
<1> QED BY <1>7, <1>8, <1>9 DEF ServeInv

\* Requests leave the servers, answered or failed: those of clients keep what
\* they are, and their errors.
LEMMA FinishesServes ==
    ASSUME TypeOK, OwnInv, ServeInv, Finishes, UNCHANGED <<ferror, out, ntag>>,
           error \subseteq error', open' \cap Client = open \cap Client,
           \A x \in done' : (x \in done /\ peer'[x] = peer[x]) \/ x \in error' \/ peer'[x] = Id(x)'
    PROVE  ServeInv' /\ Service!Fail
<1>1. PICK gone, lost \in SUBSET Msg : Finished(gone, lost)
  BY DEF Finishes
<1>2. /\ \A x \in gone : (x \in swallow \/ Noreply(x)) /\ \E s \in Server : x \in Carried(s)
      /\ req' = Reset(req, gone, Blank) /\ UNCHANGED <<frags, c_omsg_q>>
  BY <1>1 DEF Finished
<1>3. \A x \in Msg : x \notin gone => req'[x] = req[x]
  BY <1>2, Freed
<1>4. Numbered'
  BY FinishesNumbers DEF ServeInv
<1>5. \A x \in done : x \in Msg /\ req'[x] = req[x]
  BY <1>2, <1>3, CarriedAlone, FlagsTyped
<1>6. WellAnswered'
  <2>1. \A x \in done' : \/ x \in error' \/ peer'[x] = Id(x)'
                         \/ /\ x \in done /\ peer'[x] = peer[x] /\ req'[x] = req[x]
                            /\ x \in error => x \in error'
    BY <1>5
  <2> QED BY <2>1, AnswersKept DEF ServeInv
<1>7. \A d \in Client : \A x \in Requests(d) : req'[x] = req[x] /\ frags[x] \subseteq frags'[x]
  BY <1>2, <1>3, CarriedAlone, QueuesTyped
<1>8. Service!Fail
  <2>1. UNCHANGED <<c_omsg_q, out>> /\ ferror \subseteq ferror'
    BY <1>2
  <2> QED BY <1>7, <2>1, StepGrows
<1> QED BY <1>4, <1>6, <1>8 DEF ServeInv

LEMMA ServerServes ==
    ASSUME TypeOK, OwnInv, ServeInv, Finishes, NEW s \in Server, ReqSendDone(s) \/ RspSwallow(s)
    PROVE  ServeInv' /\ Service!Fail
<1>1. UNCHANGED <<done, error, ferror, peer, open, out, ntag>>
  BY DEF ReqSendDone, RspSwallow, flagVars, connVars
<1>2. error \subseteq error' /\ open' \cap Client = open \cap Client
  BY <1>1
<1>3. \A x \in done' : x \in done /\ peer'[x] = peer[x]
  BY <1>1
<1>4. UNCHANGED <<ferror, out, ntag>>
  BY <1>1
<1> QED BY <1>2, <1>3, <1>4, FinishesServes

\* rsp_forward links the request with its own answer.
LEMMA RspForwardServes ==
    ASSUME TypeOK, OwnInv, Paired, ServeInv, Finishes, NEW s \in Server, NEW bad, RspForward(s, bad)
    PROVE  ServeInv' /\ Service!Fail
<1>1. PICK m : m = Head(s_omsg_q[s])
  OBVIOUS
<1>2. /\ CanAnswer(s) /\ s_omsg_q[s] # <<>> /\ done' = done \cup {m} /\ error \subseteq error'
      /\ peer' = [peer EXCEPT ![m] = Head(wire[s])] /\ req' = req
      /\ UNCHANGED <<ferror, open, out, ntag>>
  BY <1>1 DEF RspForward
<1>3. Head(wire[s]) = Id(m)
  <2>1. s_omsg_q[s] \in Seq(Msg) /\ wire[s] \in Seq(Identity) /\ wire[s] # <<>>
    BY <1>2, QueuesTyped DEF CanAnswer, TypeOK, PeerTypes
  <2>2. \A q \in Seq(Msg) : q # <<>> => Head(q) = q[1] /\ 1 \in DOMAIN q
    BY SMTT(60)
  <2>3. \A q \in Seq(Identity) : q # <<>> => Head(q) = q[1]
    BY SMTT(60)
  <2> QED BY <1>1, <1>2, <2>1, <2>2, <2>3 DEF Paired
<1>4. m \in Msg
  BY <1>1, <1>2, RangeTail, QueuesTyped
<1>5. peer'[m] = Id(m)' /\ \A x \in Msg : x # m => peer'[x] = peer[x]
  BY <1>2, <1>3, <1>4 DEF TypeOK, MsgTypes, Id
<1>6. \A x \in done' : (x \in done /\ peer'[x] = peer[x]) \/ peer'[x] = Id(x)'
  BY <1>2, <1>5, FlagsTyped
<1>7. error \subseteq error' /\ open' \cap Client = open \cap Client
  BY <1>2
<1>8. UNCHANGED <<ferror, out, ntag>>
  BY <1>2
<1> QED BY <1>6, <1>7, <1>8, FinishesServes

LEMMA ServerCloseServes ==
    ASSUME TypeOK, OwnInv, ServeInv, Finishes, NEW s \in Server, NEW expired, ServerClose(s, expired)
    PROVE  ServeInv' /\ Service!Fail
<1>1. PICK lost : done' = done \cup lost /\ error' = error \cup lost
  BY DEF ServerClose
<1>2. UNCHANGED <<ferror, peer, out, ntag>> /\ open' = open \ {s}
  BY DEF ServerClose
<1>3. open' \cap Client = open \cap Client /\ error \subseteq error'
  BY <1>1, <1>2, ServersApart
<1>4. \A x \in done' : (x \in done /\ peer'[x] = peer[x]) \/ x \in error'
  BY <1>1, <1>2
<1>5. UNCHANGED <<ferror, out, ntag>>
  BY <1>2
<1> QED BY <1>3, <1>4, <1>5, FinishesServes

\* What is put back was done.
LEMMA PutsServes ==
    ASSUME TypeOK, OwnInv, ServeInv, Puts, ntag' = ntag,
           NEW gone, req' = Reset(req, gone, Blank), done' = done \ gone, error' = error \ gone,
           \A x \in Msg : x \notin gone => peer'[x] = peer[x]
    PROVE  ServeInv'
<1>1. Numbered'
  BY PutsNumbers DEF ServeInv
<1>2. \A x \in done' : /\ x \in done /\ peer'[x] = peer[x] /\ req'[x] = req[x]
                       /\ x \in error => x \in error'
  BY Freed, FlagsTyped
<1> QED BY <1>1, <1>2, AnswersKept DEF ServeInv

\* The fragments of a vector are put back, and its error is remembered.
LEMMA RspSendNextServes ==
    ASSUME TypeOK, OwnInv, ServeInv, Puts, NEW c \in Client, NEW i, RspSendNext(c, i)
    PROVE  ServeInv' /\ Service!Fail
<1>1. PICK m : m = c_omsg_q[c][i]
  OBVIOUS
<1>2. PICK gone : gone = frags[m]
  OBVIOUS
<1>3. /\ i \in DOMAIN c_omsg_q[c] /\ req' = Reset(req, gone, Blank) /\ done' = done \ gone
      /\ error' = error \ gone /\ peer' = Reset(peer, gone, NoAnswer)
      /\ ferror' = (IF ReqError(m) THEN ferror \cup {m} ELSE ferror)
      /\ frags' = [frags EXCEPT ![m] = {}] /\ UNCHANGED <<c_omsg_q, open, out, ntag>>
  BY <1>1, <1>2 DEF RspSendNext, connVars, envVars
<1>4. m \in Requests(c) /\ m \in Msg
  BY <1>1, <1>3, QueuesTyped DEF Requests, Range
<1>5. /\ frags'[m] = {} /\ \A x \in Msg : x # m => frags'[x] = frags[x]
      /\ \A x \in Msg : x \notin gone => peer'[x] = peer[x]
  BY <1>3, <1>4 DEF TypeOK, MsgTypes, Reset
<1>6. ServeInv'
  BY <1>3, <1>5, PutsServes
<1>7. ASSUME NEW d \in Client, NEW x \in Requests(d)
      PROVE  Id(x)' = Id(x) /\ (ReqError(x) => ReqError(x)')
  <2>1. x \in Msg /\ x \notin gone
    BY <1>2, <1>4, HeldApart
  <2>2. req'[x] = req[x]
    BY <1>3, <2>1, Freed
  <2>3. x = m => (ReqError(x) => ReqError(x)')
    BY <1>3 DEF ReqError
  <2>4. x # m => \A f \in frags[x] : f \notin gone
    BY <1>2, <1>4, <2>1, HeldApart
  <2>5. x # m => (ReqError(x) => ReqError(x)')
    BY <1>3, <1>5, <2>1, <2>4 DEF ReqError
  <2> QED BY <2>2, <2>3, <2>5 DEF Id
<1>8. Service!Fail
  <2>1. UNCHANGED <<c_omsg_q, out>> /\ open' \cap Client = open \cap Client
    BY <1>3
  <2> QED BY <1>7, <2>1, StepFails
<1> QED BY <1>6, <1>8

\* The answer to the oldest request is sent: the error, or its own answer.
LEMMA RspSendDoneServes ==
    ASSUME TypeOK, TypeOK', OwnInv, ServeInv, Puts, NEW c \in Client, RspSendDone(c)
    PROVE  ServeInv' /\ Service!Reply(c)
<1>1. PICK m : m = HeadOf(c)
  OBVIOUS
<1>2. /\ c_omsg_q[c] # <<>> /\ ReqDone(m) /\ req' = Reset(req, {m}, Blank) /\ done' = done \ {m}
      /\ error' = error \ {m} /\ ferror' = ferror \ {m} /\ UNCHANGED <<frags, open, ntag>>
  BY <1>1 DEF RspSendDone, connVars
<1>3. /\ peer' = [peer EXCEPT ![m] = NoAnswer] /\ c_omsg_q' = [c_omsg_q EXCEPT ![c] = Tail(@)]
      /\ out' = [out EXCEPT ![c] = IF ReqError(m) THEN [id |-> Id(m), ok |-> FALSE]
                                   ELSE [id |-> peer[m], ok |-> TRUE]]
  BY <1>1 DEF RspSendDone
<1>4. m \in Requests(c) /\ m \in Msg
  BY <1>1, <1>2, HeadIsRequest
<1>5. \A x \in Msg : x \notin {m} => peer'[x] = peer[x]
  BY <1>3 DEF TypeOK, MsgTypes
<1>6. ServeInv'
  BY <1>2, <1>5, PutsServes
<1>7. m \in done
  BY <1>2 DEF ReqDone, Complete, OwnInv, VectorsOK
<1>8. ~ReqError(m) => peer[m] = Id(m)
  BY <1>7 DEF ReqError, ServeInv, WellAnswered
<1>9. out' = [out EXCEPT ![c] = [id |-> Id(m), ok |-> ~ReqError(m)]]
  <2>1. CASE ReqError(m)
    <3>1. (~ReqError(m)) = FALSE
      BY <2>1
    <3> QED BY <1>3, <2>1, <3>1
  <2>2. CASE ~ReqError(m)
    <3>1. (~ReqError(m)) = TRUE
      BY <2>2
    <3> QED BY <1>3, <1>8, <2>2, <3>1
  <2> QED BY <2>1, <2>2
<1>10. /\ c_omsg_q'[c] = Tail(c_omsg_q[c])
       /\ \A d \in Client : d # c => c_omsg_q'[d] = c_omsg_q[d]
  BY <1>3 DEF TypeOK, QueueTypes
<1>11. ASSUME NEW d \in Client, NEW x \in Requests(d)'
       PROVE  Entry(x)' = Entry(x)
  <2>1. x \in Requests(d) /\ x # m
    <3>1. CASE d = c
      <4>1. x \in Range(Tail(c_omsg_q[c]))
        BY <1>10, <3>1 DEF Requests
      <4>2. IsInjective(c_omsg_q[c]) /\ c_omsg_q[c] \in Seq(Msg)
        BY QueuesTyped DEF OwnInv, ClientsOK
      <4>3. m \notin Range(Tail(c_omsg_q[c]))
        BY <1>1, <1>2, <4>2, RangeTail DEF HeadOf
      <4>4. x \in Range(c_omsg_q[c])
        BY <1>2, <4>1, <4>2, RangeTail
      <4> QED BY <3>1, <4>1, <4>3, <4>4 DEF Requests
    <3>2. CASE d # c
      <4>1. x \in Requests(d)
        BY <1>10, <3>2 DEF Requests
      <4>2. req[x].owner = d /\ req[m].owner = c
        BY <1>4, <4>1 DEF OwnInv, ClientsOK
      <4> QED BY <3>2, <4>1, <4>2
    <3> QED BY <3>1, <3>2
  <2>2. x \in Msg /\ m \notin frags[x]
    BY <1>4, <2>1, HeldApart
  <2>3. req'[x] = req[x]
    BY <1>2, <2>1, <2>2 DEF Reset
  <2>4. frags[x] \cap error' = frags[x] \cap error
    BY <1>2, <2>2
  <2>5. ReqError(x)' <=> ReqError(x)
    BY <1>2, <2>1, <2>4 DEF ReqError
  <2> QED BY <2>3, <2>5, EntryKept DEF Id
<1>12. Service!Reply(c)
  <2>1. open' \cap Client = open \cap Client /\ c_omsg_q[c] # <<>>
    BY <1>2
  <2> QED BY <1>1, <1>9, <1>10, <1>11, <2>1, StepReplies
<1> QED BY <1>6, <1>12

\* client_close touches nothing of other clients.
LEMMA ClientCloseServes ==
    ASSUME TypeOK, TypeOK', OwnInv, ServeInv, Puts, NEW c \in Client, c \in open, ClientClose(c)
    PROVE  ServeInv' /\ Service!Hangup(c)
<1>1. PICK gone : gone = Held(c) \cap done
  OBVIOUS
<1>2. /\ req' = Reset(req, gone, Blank) /\ done' = done \ gone /\ error' = error \ gone
      /\ ferror' = ferror \ gone /\ peer' = Reset(peer, gone, NoAnswer)
      /\ frags' = Reset(frags, gone, {}) /\ open' = open \ {c} /\ ntag' = ntag
  BY <1>1 DEF ClientClose
<1>3. c_omsg_q' = [c_omsg_q EXCEPT ![c] = <<>>] /\ out' = [out EXCEPT ![c] = NoReply]
  BY DEF ClientClose
<1>4. \A x \in Msg : x \notin gone => peer'[x] = peer[x] /\ frags'[x] = frags[x]
  BY <1>2 DEF Reset
<1>5. ServeInv'
  BY <1>2, <1>4, PutsServes
<1>6. c_omsg_q'[c] = <<>> /\ \A d \in Client : d # c => c_omsg_q'[d] = c_omsg_q[d]
  BY <1>3 DEF TypeOK, QueueTypes
<1>7. ASSUME NEW d \in Client, d # c, NEW x \in Requests(d)
      PROVE  Entry(x)' = Entry(x)
  <2>1. x \in Msg /\ \A y \in Msg : x \notin frags[y]
    BY HeldApart
  <2>2. x \notin Requests(c)
    BY <1>7 DEF OwnInv, ClientsOK
  <2>3. \A y \in Requests(c) : y \in Msg
    BY QueuesTyped
  <2>4. \A z \in gone : z \in Requests(c) \/ \E y \in Requests(c) : z \in frags[y]
    BY <1>1 DEF Held, Behind, Requests
  <2>5. x \notin gone
    BY <2>1, <2>2, <2>3, <2>4
  <2>6. \A f \in frags[x] : f \notin gone
    <3> TAKE f \in frags[x]
    <3>1. f \notin Requests(c) /\ \A y \in Msg : f \in frags[y] => x = y
      BY <2>1, HeldApart
    <3> QED BY <2>2, <2>3, <2>4, <3>1
  <2>7. req'[x] = req[x]
    BY <1>2, <2>1, <2>5, Freed
  <2>8. frags[x] \cap error' = frags[x] \cap error
    BY <1>2, <2>6
  <2>9. ReqError(x)' <=> ReqError(x)
    BY <1>2, <1>4, <2>1, <2>5, <2>8 DEF ReqError
  <2> QED BY <2>7, <2>9, EntryKept DEF Id
<1>8. open' = open \ {c} /\ out' = [out EXCEPT ![c] = NoReply]
  BY <1>2, <1>3
<1> QED BY <1>5, <1>6, <1>7, <1>8, StepHangs
=============================================================================
