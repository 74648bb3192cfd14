---------------------------- MODULE EpollProofs ----------------------------
(***************************************************************************)
(* The event base over epoll agrees with the kernel and with the flags of  *)
(* the connections, whatever their number, that of the descriptors and     *)
(* that of the events of a batch; and when epoll_ctl does not fail, every  *)
(* event is dispatched to an open connection or to nobody.                 *)
(***************************************************************************)
EXTENDS Epoll, FiniteSetTheorems, SequenceTheorems, WellFoundedInduction, TLAPS

\* Most leaves go to SMT; the others, mostly about sets, cite Zenon.
USE SMTT(60)

\* Listeners are connections, and event_base_create makes evd[] as long as
\* event[].
Sizes == MaxFd \in Nat /\ NEvent \in Nat /\ Listener \subseteq Conn

Events == {"in", "out", "err"}
Event == [fd : Fd, events : SUBSET Events]

TypeOK ==
    /\ sd \in [Conn -> Fd \cup {0}]
    /\ recv_active \in [Conn -> BOOLEAN] /\ send_active \in [Conn -> BOOLEAN]
    /\ evd \in [Fd -> [mask : SUBSET {"read", "write"}, priv : Conn \cup {None}]]
    /\ nevd \in Nat
    /\ interest \in [Fd -> SUBSET {"in", "out"}]
    /\ level \in [Fd -> SUBSET Events]
    /\ ready \subseteq Fd
    /\ batch \in Seq(Event)

\* What evd[] and the kernel hold for an open connection.
EvdOf(c) == [mask |-> IF send_active[c] THEN {"read", "write"} ELSE {"read"}, priv |-> c]
InterestOf(c) == IF send_active[c] THEN {"in", "out"} ELSE {"in"}

Agrees(c) ==
    /\ sd[c] < nevd /\ recv_active[c]
    /\ evd[sd[c]] = EvdOf(c) /\ interest[sd[c]] = InterestOf(c)

\* Two open connections have two descriptors, evd[] and the kernel hold of
\* each what its flags say, and the kernel watches no other descriptor.
BaseInv ==
    /\ TypeOK
    /\ \A c, d \in Open : sd[c] = sd[d] => c = d
    /\ \A c \in Open : Agrees(c)
    /\ \A f \in Fd \ Used : interest[f] = {}

\* While epoll_ctl has not failed, evd[] holds nothing of the others.
CleanInv == faults = 0 /\ \A f \in Fd \ Used : evd[f] = NoEvd

-----------------------------------------------------------------------------
(* The lowest free descriptor, the highest one of a listener and the size  *)
(* of evd[].                                                               *)

\* The minimum of descriptors is one of them.
LEMMA LeastExists ==
    ASSUME NEW S, S \subseteq Nat, S # {}
    PROVE  Min(S) \in S
<1>1. PICK x \in S : \A y \in S : ~(<<y, x>> \in OpToRel(<, Nat))
  BY NatLessThanWellFounded, WFMin, ZenonT(60)
<1>2. \A y \in S : x <= y
  <2>1. \A y \in S : ~(y < x)
    BY ZenonT(60), <1>1 DEF OpToRel
  <2> QED BY <2>1
<1> QED BY <1>2, ZenonT(60) DEF Min

\* So is the maximum, when they are bounded.
LEMMA GreatestExists ==
    ASSUME NEW S, S \subseteq Nat, S # {}, NEW b \in Nat, \A x \in S : x <= b
    PROVE  Max(S) \in S /\ \A y \in S : y <= Max(S)
<1> DEFINE T == {b - x : x \in S}
<1>1. T \subseteq Nat /\ T # {}
  <2>1. \A x \in S : b - x \in Nat
    OBVIOUS
  <2> QED BY <2>1, ZenonT(60)
<1>2. PICK x \in T : \A y \in T : ~(<<y, x>> \in OpToRel(<, Nat))
  BY <1>1, NatLessThanWellFounded, WFMin, ZenonT(60)
<1>3. \A y \in T : ~(y < x)
  BY ZenonT(60), <1>1, <1>2 DEF OpToRel
<1>4. PICK z \in S : x = b - z
  BY ZenonT(60), <1>2
<1>5. \A y \in S : z >= y
  <2> SUFFICES ASSUME NEW y \in S PROVE z >= y
    OBVIOUS
  <2>1. ~(b - y < b - z)
    BY <1>3, <1>4
  <2> QED BY <2>1
<1>6. Max(S) \in S /\ \A y \in S : Max(S) >= y
  BY <1>5, ZenonT(60) DEF Max
<1> QED BY <1>6

\* event_base_need_resize makes room for the descriptor.
LEMMA ResizedFits ==
    ASSUME TypeOK, Sizes, NEW f \in Fd
    PROVE  Resized(f) \in Nat /\ f < Resized(f) /\ nevd <= Resized(f)
BY DEF TypeOK, Sizes, Resized, Fd

\* The descriptor a new connection gets.
LEMMA FreeDescriptor ==
    ASSUME Sizes, Fd \ Used # {}
    PROVE  Min(Fd \ Used) \in Fd \ Used
<1>1. Fd \ Used \subseteq Nat
  BY DEF Sizes, Fd
<1> QED BY <1>1, LeastExists

-----------------------------------------------------------------------------
(* What the handlers do to an entry of evd[].                              *)

\* event_del_conn and close: c is forgotten everywhere.
LEMMA ClosedAgrees ==
    ASSUME BaseInv, NEW c \in Open, Closed(c), batch' \in Seq(Event)
    PROVE  BaseInv' /\ Open' = Open \ {c} /\ Used' = Used \ {sd[c]} /\ evd'[sd[c]] = NoEvd
<1> USE DEF BaseInv
<1>1. c \in Conn /\ sd[c] \in Fd
  BY DEF Open, TypeOK
<1>2. evd[sd[c]].mask \ {"read", "write"} = {}
  BY <1>1 DEF TypeOK
<1>3. /\ evd' = [evd EXCEPT ![sd[c]] = NoEvd]
      /\ interest' = [interest EXCEPT ![sd[c]] = {}] /\ ready' = ready \ {sd[c]}
  BY <1>2 DEF Closed, EventDel, Rest
<1>4. /\ sd' = [sd EXCEPT ![c] = 0]
      /\ recv_active' = [recv_active EXCEPT ![c] = FALSE]
      /\ send_active' = [send_active EXCEPT ![c] = FALSE]
      /\ level' = [level EXCEPT ![sd[c]] = {}] /\ nevd' = nevd
  BY DEF Closed
<1>5. TypeOK'
  BY <1>1, <1>3, <1>4 DEF TypeOK, NoEvd
<1>6. Open' = Open \ {c} /\ \A d \in Open' : sd'[d] = sd[d] /\ sd[d] # sd[c]
  BY <1>1, <1>4 DEF Open, TypeOK
<1>7. Used' = Used \ {sd[c]}
  BY <1>6 DEF Used
<1>8. \A d \in Open' : Agrees(d)'
  <2> SUFFICES ASSUME NEW d \in Open' PROVE Agrees(d)'
    OBVIOUS
  <2>1. d \in Conn /\ d # c /\ sd[d] \in Fd /\ sd[d] # sd[c] /\ Agrees(d) /\ sd'[d] = sd[d]
    BY <1>6 DEF Open, TypeOK
  <2>2. /\ evd'[sd[d]] = evd[sd[d]] /\ interest'[sd[d]] = interest[sd[d]]
        /\ recv_active'[d] = recv_active[d] /\ send_active'[d] = send_active[d]
    BY <1>3, <1>4, <2>1 DEF TypeOK
  <2> QED BY <1>4, <2>1, <2>2 DEF Agrees, EvdOf, InterestOf
<1>9. \A f \in Fd \ Used' : interest'[f] = {}
  BY <1>3, <1>7 DEF TypeOK
<1>10. \A d, e \in Open' : sd'[d] = sd'[e] => d = e
  BY <1>6
<1>11. evd'[sd[c]] = NoEvd
  BY <1>1, <1>3 DEF TypeOK
<1> QED BY <1>5, <1>6, <1>7, <1>8, <1>9, <1>10, <1>11

\* event_add_out and event_del_out: the flag of one connection, its entry
\* and what the kernel watches change together.
LEMMA FlagAgrees ==
    ASSUME BaseInv, NEW c \in Open, NEW flag \in BOOLEAN,
           sd' = sd, recv_active' = recv_active, nevd' = nevd,
           send_active' = [send_active EXCEPT ![c] = flag],
           evd' = [evd EXCEPT ![sd[c]] = [mask |-> IF flag THEN {"read", "write"} ELSE {"read"},
                                          priv |-> c]],
           interest' = [interest EXCEPT ![sd[c]] = IF flag THEN {"in", "out"} ELSE {"in"}],
           level' \in [Fd -> SUBSET Events], ready' \subseteq Fd,
           batch' \in Seq(Event)
    PROVE  BaseInv' /\ Used' = Used /\ \A f \in Fd \ Used : evd'[f] = evd[f]
<1> USE DEF BaseInv
<1>1. c \in Conn /\ sd[c] \in Fd /\ sd[c] \in Used
  BY DEF Open, Used, TypeOK
<1>2. TypeOK'
  BY ZenonT(60), <1>1 DEF TypeOK
<1>3. Open' = Open /\ Used' = Used
  BY DEF Open, Used
<1>4. \A d \in Open : Agrees(d)'
  <2> SUFFICES ASSUME NEW d \in Open PROVE Agrees(d)'
    OBVIOUS
  <2>1. d \in Conn /\ sd[d] \in Fd /\ Agrees(d) /\ (d # c => sd[d] # sd[c])
    BY DEF Open, TypeOK
  <2>2. CASE d = c
    <3>1. /\ send_active'[c] = flag
          /\ evd'[sd[c]] = [mask |-> IF flag THEN {"read", "write"} ELSE {"read"}, priv |-> c]
          /\ interest'[sd[c]] = IF flag THEN {"in", "out"} ELSE {"in"}
      BY <1>1 DEF TypeOK
    <3> QED BY ZenonT(60), <2>1, <2>2, <3>1 DEF Agrees, EvdOf, InterestOf
  <2>3. CASE d # c
    <3>1. /\ send_active'[d] = send_active[d]
          /\ evd'[sd[d]] = evd[sd[d]] /\ interest'[sd[d]] = interest[sd[d]]
      BY <2>1, <2>3 DEF TypeOK
    <3> QED BY <2>1, <3>1 DEF Agrees, EvdOf, InterestOf
  <2> QED BY <2>2, <2>3
<1>5. \A f \in Fd \ Used : interest'[f] = {} /\ evd'[f] = evd[f]
  BY <1>1 DEF TypeOK
<1> QED BY ZenonT(60), <1>2, <1>3, <1>4, <1>5

\* A step that leaves the flags, the entries of the open connections and the
\* kernel alone; evd[] may grow.
LEMMA QuietAgrees ==
    ASSUME BaseInv, UNCHANGED <<sd, recv_active, send_active, interest>>,
           evd' \in [Fd -> [mask : SUBSET {"read", "write"}, priv : Conn \cup {None}]],
           \A f \in Used : evd'[f] = evd[f],
           nevd' \in Nat, nevd <= nevd',
           level' \in [Fd -> SUBSET Events], ready' \subseteq Fd,
           batch' \in Seq(Event)
    PROVE  BaseInv' /\ Used' = Used /\ Open' = Open
<1> USE DEF BaseInv
<1>1. Open' = Open /\ Used' = Used
  BY DEF Open, Used
<1>2. TypeOK'
  BY DEF TypeOK
<1>3. \A c \in Open : Agrees(c)'
  <2> SUFFICES ASSUME NEW c \in Open PROVE Agrees(c)'
    OBVIOUS
  <2>1. Agrees(c) /\ evd'[sd[c]] = evd[sd[c]] /\ sd[c] \in Nat
    BY DEF Used, Open, TypeOK, Fd
  <2> QED BY <2>1 DEF Agrees, EvdOf, InterestOf, TypeOK
<1> QED BY <1>1, <1>2, <1>3

-----------------------------------------------------------------------------
(* The steps.                                                              *)

LEMMA InitBase == ASSUME Sizes, Init PROVE BaseInv
<1> PICK number \in [Listener -> Fd] :
      /\ \A c, d \in Listener : c # d => number[c] # number[d]
      /\ sd = [c \in Conn |-> IF c \in Listener THEN number[c] ELSE 0]
      /\ recv_active = [c \in Conn |-> c \in Listener] /\ send_active = [c \in Conn |-> FALSE]
      /\ evd = [f \in Fd |-> IF \E c \in Listener : number[c] = f
                             THEN [mask |-> {"read"}, priv |-> CHOOSE c \in Listener : number[c] = f]
                             ELSE NoEvd]
      /\ nevd = Max({NEvent} \cup {number[c] + 1 : c \in Listener})
      /\ interest = [f \in Fd |-> Kernel(evd[f].mask)]
      /\ level = [f \in Fd |-> {}] /\ ready = {} /\ batch = <<>>
  BY ZenonT(60) DEF Init
<1> DEFINE S == {NEvent} \cup {number[c] + 1 : c \in Listener}
<1>1. Listener \subseteq Conn /\ Fd \subseteq Nat \ {0} /\ \A f \in Fd : f <= MaxFd
  BY DEF Sizes, Fd
<1>2. Open = Listener /\ \A c \in Listener : sd[c] = number[c] /\ number[c] \in Fd
  BY <1>1 DEF Open
<1>3. \A c \in Listener : (CHOOSE d \in Listener : number[d] = number[c]) = c
  BY ZenonT(60)
<1>4. \A c \in Listener : evd[number[c]] = [mask |-> {"read"}, priv |-> c]
  BY ZenonT(60), <1>2, <1>3
<1>5. \A f \in Fd : f \notin Used => evd[f] = NoEvd
  BY <1>2 DEF Used
<1>6. \A f \in Fd \ Used : interest[f] = {}
  BY ZenonT(60), <1>5 DEF NoEvd, Kernel
<1>7. \A c \in Listener : interest[number[c]] = {"in"}
  BY <1>2, <1>4 DEF Kernel
<1>8. nevd \in Nat /\ \A c \in Listener : number[c] < nevd
  <2>1. S \subseteq Nat /\ S # {}
    BY <1>1, <1>2 DEF Sizes
  <2>2. NEvent + MaxFd + 1 \in Nat /\ \A x \in S : x <= NEvent + MaxFd + 1
    <3>1. NEvent \in Nat /\ MaxFd \in Nat /\ \A c \in Listener : number[c] \in Nat /\ number[c] <= MaxFd
      BY <1>1, <1>2 DEF Sizes
    <3>2. \A c \in Listener : number[c] + 1 <= NEvent + MaxFd + 1
      BY <3>1
    <3>3. \A x \in S : x = NEvent \/ \E c \in Listener : x = number[c] + 1
      BY ZenonT(60)
    <3> QED BY <3>1, <3>2, <3>3
  <2>3. Max(S) \in S /\ \A x \in S : x <= Max(S)
    BY ZenonT(60), <2>1, <2>2, GreatestExists
  <2>4. nevd \in Nat
    BY <2>1, <2>3
  <2>5. ASSUME NEW c \in Listener PROVE number[c] < nevd
    <3>1. number[c] \in Nat /\ number[c] + 1 \in S
      BY ZenonT(60), <1>1, <1>2
    <3>2. number[c] + 1 <= nevd
      BY <2>3, <3>1
    <3> QED BY <2>4, <3>1, <3>2
  <2> QED BY <2>4, <2>5
<1>9. \A c \in Open : Agrees(c)
  <2> SUFFICES ASSUME NEW c \in Listener PROVE Agrees(c)
    BY <1>2
  <2>1. c \in Conn /\ sd[c] = number[c] /\ number[c] < nevd
    BY <1>1, <1>2, <1>8, ZenonT(60)
  <2>2. recv_active[c] /\ send_active[c] = FALSE
    BY ZenonT(60), <2>1
  <2>3. EvdOf(c) = [mask |-> {"read"}, priv |-> c] /\ InterestOf(c) = {"in"}
    BY ZenonT(60), <2>2 DEF EvdOf, InterestOf
  <2> QED BY <1>4, <1>7, <2>1, <2>2, <2>3, ZenonT(60) DEF Agrees
<1>10. \A c, d \in Open : sd[c] = sd[d] => c = d
  BY <1>2
<1>11. evd \in [Fd -> [mask : SUBSET {"read", "write"}, priv : Conn \cup {None}]]
  <2> SUFFICES ASSUME NEW f \in Fd
               PROVE  evd[f] \in [mask : SUBSET {"read", "write"}, priv : Conn \cup {None}]
    OBVIOUS
  <2>1. CASE f \in Used
    <3>1. PICK c \in Listener : f = number[c]
      BY <1>2, <2>1 DEF Used
    <3> QED BY <1>1, <1>4, <3>1
  <2>2. CASE f \notin Used
    BY <1>5, <2>2 DEF NoEvd
  <2> QED BY <2>1, <2>2
<1>12. TypeOK
  BY <1>1, <1>2, <1>8, <1>11 DEF TypeOK, Kernel, Events
<1> QED BY ZenonT(60), <1>6, <1>9, <1>10, <1>12 DEF BaseInv

LEMMA InitClean == ASSUME Sizes, Init PROVE CleanInv
<1> PICK number \in [Listener -> Fd] :
      /\ sd = [c \in Conn |-> IF c \in Listener THEN number[c] ELSE 0]
      /\ evd = [f \in Fd |-> IF \E c \in Listener : number[c] = f
                             THEN [mask |-> {"read"}, priv |-> CHOOSE c \in Listener : number[c] = f]
                             ELSE NoEvd]
      /\ faults = 0
  BY ZenonT(60) DEF Init
<1>1. \A c \in Listener : c \in Open /\ sd[c] = number[c]
  <2>1. Listener \subseteq Conn /\ \A c \in Listener : number[c] # 0
    BY DEF Sizes, Fd
  <2> QED BY <2>1 DEF Open
<1>2. \A f \in Fd \ Used : evd[f] = NoEvd
  BY ZenonT(60), <1>1 DEF Used
<1> QED BY <1>2 DEF CleanInv

\* A connection gets the lowest free descriptor: EPOLL_CTL_ADD was chosen, so
\* that evd[] had no mask left for it.
LEMMA AddConnBase ==
    ASSUME Sizes, BaseInv, NEW c \in Conn, AddConn(c)
    PROVE  BaseInv' /\ \A f \in Fd \ Used' : f \in Fd \ Used /\ evd'[f] = evd[f]
<1> USE DEF BaseInv
<1> DEFINE f == Min(Fd \ Used)
<1>1. f \in Fd \ Used /\ c \notin Open
  BY FreeDescriptor DEF AddConn
<1>2. /\ nevd' = Resized(f) /\ ~Misfit(f)
      /\ evd' = [evd EXCEPT ![f] = [mask |-> evd[f].mask \cup {"read", "write"}, priv |-> c]]
      /\ interest' = [interest EXCEPT ![f] = Kernel({"read", "write"})]
      /\ ready' = IF level[f] \cap (Kernel({"read", "write"}) \cup {"err"}) # {}
                  THEN ready \cup {f} ELSE ready \ {f}
  BY ZenonT(60) DEF AddConn, EventAdd, Ctl
<1>3. /\ sd' = [sd EXCEPT ![c] = f]
      /\ recv_active' = [recv_active EXCEPT ![c] = TRUE]
      /\ send_active' = [send_active EXCEPT ![c] = TRUE]
      /\ level' = level /\ batch' = batch
  BY DEF AddConn
<1>4. Kernel({"read", "write"}) = {"in", "out"}
  BY DEF Kernel
<1>5. evd[f].mask = {}
  BY ZenonT(60), <1>1, <1>2 DEF Misfit
<1>6. Resized(f) \in Nat /\ f < Resized(f) /\ nevd <= Resized(f)
  BY <1>1, ResizedFits
<1>7. TypeOK'
  <2> HIDE DEF f
  <2>1. ready' \subseteq Fd
    BY <1>1, <1>2 DEF TypeOK
  <2> QED BY <1>1, <1>2, <1>3, <1>4, <1>5, <1>6, <2>1 DEF TypeOK
<1>8. /\ f # 0 /\ sd'[c] = f /\ \A d \in Conn : d # c => sd'[d] = sd[d]
  BY <1>1, <1>3 DEF TypeOK, Fd, Sizes
<1>9. \A d \in Open : d \in Conn /\ d # c /\ sd[d] \in Fd /\ sd[d] # f /\ sd'[d] = sd[d]
  BY ZenonT(60), <1>1, <1>8 DEF Open, Used, TypeOK
<1>10. Open' = Open \cup {c} /\ Used' = Used \cup {f}
  <2> HIDE DEF f
  <2>1. Open' = Open \cup {c}
    BY <1>8 DEF Open
  <2>2. {sd'[d] : d \in Open \cup {c}} = {sd[d] : d \in Open} \cup {f}
    BY <1>8, <1>9
  <2> QED BY <2>1, <2>2 DEF Used
<1>11. \A d, e \in Open' : sd'[d] = sd'[e] => d = e
  <2> HIDE DEF f
  <2>1. \A d, e \in Open : sd'[d] = sd'[e] => d = e
    BY <1>9
  <2>2. \A d \in Open : sd'[d] # sd'[c]
    BY <1>8, <1>9
  <2> QED BY <1>10, <2>1, <2>2
<1>12. \A d \in Open' : Agrees(d)'
  <2> HIDE DEF f
  <2>1. Agrees(c)'
    <3>1. /\ recv_active'[c] /\ send_active'[c] = TRUE
          /\ evd'[f] = [mask |-> {"read", "write"}, priv |-> c] /\ interest'[f] = {"in", "out"}
      BY <1>1, <1>2, <1>3, <1>4, <1>5 DEF TypeOK
    <3> QED BY ZenonT(60), <1>2, <1>6, <1>8, <3>1 DEF Agrees, EvdOf, InterestOf
  <2>2. ASSUME NEW d \in Open PROVE Agrees(d)'
    <3>1. /\ evd'[sd[d]] = evd[sd[d]] /\ interest'[sd[d]] = interest[sd[d]]
          /\ recv_active'[d] = recv_active[d] /\ send_active'[d] = send_active[d]
      BY ZenonT(60), <1>2, <1>3, <1>9 DEF TypeOK
    <3>2. sd[d] < nevd'
      BY <1>2, <1>6, <1>9 DEF Agrees, TypeOK, Fd, Sizes
    <3> QED BY <1>9, <3>1, <3>2 DEF Agrees, EvdOf, InterestOf
  <2> QED BY <1>10, <2>1, <2>2
<1>13. \A g \in Fd \ Used' : g \in Fd \ Used /\ evd'[g] = evd[g] /\ interest'[g] = {}
  BY ZenonT(60), <1>2, <1>10 DEF TypeOK
<1> QED BY <1>7, <1>11, <1>12, <1>13

\* A connection that could not be added: its descriptor is in nobody's use.
LEMMA AddConnFailsBase ==
    ASSUME Sizes, BaseInv, NEW c \in Conn, AddConnFails(c)
    PROVE  BaseInv'
<1> USE DEF BaseInv
<1> DEFINE f == Min(Fd \ Used)
<1>1. f \in Fd \ Used
  BY FreeDescriptor DEF AddConnFails
<1>2. /\ nevd' = Resized(f)
      /\ evd' = [evd EXCEPT ![f] = [mask |-> evd[f].mask \cup {"read", "write"}, priv |-> c]]
      /\ UNCHANGED <<interest, ready, sd, recv_active, send_active, level, batch>>
  BY DEF AddConnFails, EventAdd, conns
<1>3. Resized(f) \in Nat /\ nevd <= Resized(f)
  BY <1>1, ResizedFits
<1>4. /\ evd' \in [Fd -> [mask : SUBSET {"read", "write"}, priv : Conn \cup {None}]]
      /\ \A g \in Used : evd'[g] = evd[g]
  <2> HIDE DEF f
  <2>1. Used \subseteq Fd
    BY DEF Used, Open, TypeOK
  <2> QED BY <1>1, <1>2, <2>1 DEF TypeOK
<1>5. level \in [Fd -> SUBSET Events] /\ ready \subseteq Fd /\ batch \in Seq(Event)
  BY DEF TypeOK
<1> QED BY ZenonT(60), <1>2, <1>3, <1>4, <1>5, QuietAgrees

\* A message is queued on a connection that had given up write events.
LEMMA AddOutBase ==
    ASSUME Sizes, BaseInv, NEW c \in Conn, AddOut(c)
    PROVE  BaseInv' /\ Used' = Used /\ \A f \in Fd \ Used : evd'[f] = evd[f]
<1> USE DEF BaseInv
<1>1. c \in Open /\ sd[c] \in Fd /\ Agrees(c) /\ UNCHANGED <<sd, recv_active, level, batch>>
  BY DEF AddOut, Open, TypeOK
<1>2. CASE send_active[c]
  <2>1. UNCHANGED <<send_active, evd, nevd, interest, ready>>
    BY <1>2 DEF AddOut, base
  <2> QED BY <1>1, <2>1, QuietAgrees DEF TypeOK
<1>3. CASE ~send_active[c]
  <2>1. /\ nevd' = Resized(sd[c])
        /\ evd' = [evd EXCEPT ![sd[c]] = [mask |-> evd[sd[c]].mask \cup {"write"}, priv |-> c]]
        /\ interest' = [interest EXCEPT ![sd[c]] = Kernel({"write"})]
        /\ ready' \subseteq ready \cup {sd[c]}
        /\ send_active' = [send_active EXCEPT ![c] = TRUE]
    BY <1>3 DEF AddOut, EventAdd, Ctl
  <2>2. evd[sd[c]].mask \cup {"write"} = {"read", "write"} /\ Kernel({"write"}) = {"in", "out"}
    BY <1>1, <1>3 DEF Agrees, EvdOf, Kernel
  <2>3. nevd' = nevd
    BY <1>1, <2>1 DEF Agrees, Resized
  <2>4. /\ level' \in [Fd -> SUBSET Events] /\ ready' \subseteq Fd
        /\ batch' \in Seq(Event)
    BY <1>1, <2>1 DEF TypeOK
  <2> DEFINE flag == TRUE
  <2>5. /\ evd' = [evd EXCEPT ![sd[c]] = [mask |-> IF flag THEN {"read", "write"} ELSE {"read"},
                                          priv |-> c]]
        /\ interest' = [interest EXCEPT ![sd[c]] = IF flag THEN {"in", "out"} ELSE {"in"}]
        /\ send_active' = [send_active EXCEPT ![c] = flag] /\ flag \in BOOLEAN
    BY ZenonT(60), <2>1, <2>2
  <2> HIDE DEF flag
  <2> QED BY ZenonT(60), <1>1, <2>3, <2>4, <2>5, FlagAgrees
<1> QED BY <1>2, <1>3

\* core_core calls the handler, which may give up write events.
LEMMA HandleBase ==
    ASSUME Sizes, BaseInv, Handle
    PROVE  BaseInv' /\ Used' = Used /\ \A f \in Fd \ Used : evd'[f] = evd[f]
<1> USE DEF BaseInv
<1> DEFINE c == Target
<1>1. c \in Open /\ UNCHANGED <<sd, recv_active, nevd>> /\ batch # <<>> /\ batch' = Tail(batch)
  BY ZenonT(60) DEF Handle
<1>2. c \in Conn /\ sd[c] \in Fd /\ Agrees(c)
  BY <1>1 DEF Open, TypeOK
<1>3. batch' \in Seq(Event)
  BY <1>1 DEF TypeOK
<1>4. \E lost \in SUBSET Events : level' = [level EXCEPT ![sd[c]] = @ \ lost]
  BY ZenonT(60) DEF Handle, Events
<1>5. level' \in [Fd -> SUBSET Events]
  BY <1>2, <1>4 DEF TypeOK
<1>6. CASE UNCHANGED <<send_active, evd, interest, ready>>
  BY <1>1, <1>3, <1>5, <1>6, QuietAgrees DEF TypeOK
<1>7. CASE send_active[c] /\ Idle(c)
  <2> DEFINE flag == FALSE
  <2>1. evd[sd[c]] = [mask |-> {"read", "write"}, priv |-> c]
    BY <1>2, <1>7 DEF Agrees, EvdOf
  <2>2. evd[sd[c]].mask \ {"write"} = {"read"}
    BY <2>1
  <2>3. Rest(sd[c], {"write"}) = [mask |-> {"read"}, priv |-> c]
    BY <2>1, <2>2 DEF Rest
  <2>4. /\ evd' = [evd EXCEPT ![sd[c]] = [mask |-> IF flag THEN {"read", "write"} ELSE {"read"},
                                          priv |-> c]]
        /\ interest' = [interest EXCEPT ![sd[c]] = IF flag THEN {"in", "out"} ELSE {"in"}]
        /\ send_active' = [send_active EXCEPT ![c] = flag] /\ flag \in BOOLEAN
        /\ ready' \subseteq ready \cup {sd[c]}
    BY ZenonT(60), <1>7, <2>2, <2>3 DEF Idle, EventDel, Ctl
  <2>5. ready' \subseteq Fd
    BY <1>2, <2>4 DEF TypeOK
  <2> HIDE DEF flag
  <2> QED BY ZenonT(60), <1>1, <1>3, <1>5, <2>4, <2>5, FlagAgrees
<1> QED BY ZenonT(60), <1>6, <1>7 DEF Handle

\* A batch is made of descriptors the kernel watches.
LEMMA WaitTypes ==
    ASSUME Sizes, BaseInv, Wait
    PROVE  ready' \subseteq Fd /\ batch' \in Seq(Event)
<1>1. PICK taken \in SUBSET ready :
        /\ \E order \in SetToSeqs({f \in taken : Reportable(f, level, interest) # {}}) :
              batch' = [i \in DOMAIN order |->
                          [fd |-> order[i], events |-> Reportable(order[i], level, interest)]]
        /\ ready' = ready \ taken
  BY ZenonT(60) DEF Wait
<1> DEFINE S == {f \in taken : Reportable(f, level, interest) # {}}
<1>2. PICK order \in SetToSeqs(S) :
         batch' = [i \in DOMAIN order |->
                     [fd |-> order[i], events |-> Reportable(order[i], level, interest)]]
  BY <1>1, ZenonT(60)
<1>3. ready \subseteq Fd /\ S \subseteq Fd
  BY DEF BaseInv, TypeOK
<1>4. Cardinality(S) \in Nat
  <2>1. IsFiniteSet(Fd)
    BY FS_Interval DEF Fd, Sizes
  <2>2. IsFiniteSet(S)
    <3> HIDE DEF S
    <3> QED BY <1>3, <2>1, FS_Subset, ZenonT(60)
  <2> HIDE DEF S
  <2> QED BY <2>2, FS_CardinalityType, ZenonT(60)
<1>5. order \in [1 .. Cardinality(S) -> S]
  BY <1>2, ZenonT(60) DEF SetToSeqs
<1>6. \A f \in Fd : Reportable(f, level, interest) \in SUBSET Events
  BY DEF Reportable, BaseInv, TypeOK
<1>7. batch' \in [1 .. Cardinality(S) -> Event]
  <2> HIDE DEF S
  <2> QED BY <1>2, <1>3, <1>5, <1>6 DEF Event
<1>8. batch' \in Seq(Event)
  <2> HIDE DEF S
  <2>1. PICK n \in Nat : batch' \in [1 .. n -> Event]
    BY <1>4, <1>7, ZenonT(60)
  <2>2. Seq(Event) = UNION {[1 .. k -> Event] : k \in Nat}
    BY SeqDef, ZenonT(60)
  <2> QED BY <2>1, <2>2, ZenonT(60)
<1>9. ready' \subseteq Fd
  BY <1>1, <1>3, ZenonT(60)
<1> QED BY <1>8, <1>9

\* Every step keeps evd[], the kernel and the flags in agreement; and one that
\* changes evd[] for a descriptor nobody uses is a failure of epoll_ctl.
LEMMA BaseStep ==
    ASSUME Sizes, BaseInv, [Next]_vars
    PROVE  /\ BaseInv'
           /\ (\A c \in Conn : ~AddConnFails(c)) =>
                \A f \in Fd \ Used' : evd'[f] = NoEvd \/ (f \notin Used /\ evd'[f] = evd[f])
<1> DEFINE Kept == \A f \in Fd \ Used' : evd'[f] = NoEvd \/ (f \notin Used /\ evd'[f] = evd[f])
<1>1. TypeOK
  BY DEF BaseInv
<1>2. CASE UNCHANGED vars
  <2>1. UNCHANGED <<sd, recv_active, send_active, evd, nevd, interest, level, ready, batch>>
    BY <1>2 DEF vars, conns, base, kernel
  <2> QED BY <1>1, <2>1, QuietAgrees DEF TypeOK
<1>3. ASSUME NEW f \in Fd, NEW what \in {"in", "out", "err"}, SocketChanges(f, what)
      PROVE  BaseInv' /\ Kept
  <2>1. /\ UNCHANGED <<sd, recv_active, send_active, evd, nevd, interest, batch>>
        /\ level' = [level EXCEPT ![f] = @ \cup {what}] /\ ready' \subseteq ready \cup {f}
    BY <1>3 DEF SocketChanges, conns, base
  <2>2. level' \in [Fd -> SUBSET Events] /\ ready' \subseteq Fd
    BY <1>1, <1>3, <2>1 DEF TypeOK, Events
  <2> QED BY <1>1, <2>1, <2>2, QuietAgrees DEF TypeOK
<1>4. ASSUME NEW c \in Conn, AddConn(c) PROVE BaseInv' /\ Kept
  BY <1>4, AddConnBase, ZenonT(60)
<1>5. ASSUME NEW c \in Conn, AddConnFails(c) PROVE BaseInv'
  BY <1>5, AddConnFailsBase
<1>6. ASSUME NEW c \in Conn, ConnectFails(c) PROVE BaseInv' /\ Kept
  <2>1. Min(Fd \ Used) \in Fd
    BY <1>6, FreeDescriptor DEF ConnectFails
  <2>2. Resized(Min(Fd \ Used)) \in Nat /\ nevd <= Resized(Min(Fd \ Used))
    BY <1>1, <2>1, ResizedFits
  <2>3. /\ UNCHANGED <<sd, recv_active, send_active, evd, interest, level, ready, batch>>
        /\ nevd' \in Nat /\ nevd <= nevd'
    BY <1>6, <2>2 DEF ConnectFails, conns, kernel
  <2> QED BY <1>1, <2>3, QuietAgrees DEF TypeOK
<1>7. ASSUME NEW c \in Conn, AddOut(c) PROVE BaseInv' /\ Kept
  BY <1>7, AddOutBase, ZenonT(60)
<1>8. ASSUME NEW c \in Open, Closed(c), batch' \in Seq(Event)
      PROVE  BaseInv' /\ Kept
  <2>1. BaseInv' /\ Used' = Used \ {sd[c]} /\ evd'[sd[c]] = NoEvd
    BY <1>8, ClosedAgrees
  <2>2. \A f \in Fd : f # sd[c] => evd'[f] = evd[f]
    BY <1>1, <1>8 DEF Closed, EventDel, TypeOK
  <2> QED BY <2>1, <2>2
<1>9. ASSUME NEW c \in Conn, CloseConn(c) \/ Unaccept(c) PROVE BaseInv' /\ Kept
  <2>1. c \in Open /\ Closed(c) /\ batch' = batch
    BY <1>9 DEF CloseConn, Unaccept
  <2> QED BY <1>1, <1>8, <2>1 DEF TypeOK
<1>10. CASE Wait
  <2>1. /\ UNCHANGED <<sd, recv_active, send_active, evd, nevd, interest, level>>
        /\ ready' \subseteq Fd /\ batch' \in Seq(Event)
    BY ZenonT(60), <1>10, WaitTypes DEF Wait, conns, base
  <2> QED BY <1>1, <2>1, QuietAgrees DEF TypeOK
<1>11. CASE Skip \/ Return
  <2>1. /\ UNCHANGED <<sd, recv_active, send_active, evd, nevd, interest, level, ready>>
        /\ batch' = batch \/ (batch # <<>> /\ batch' = Tail(batch))
    BY <1>11 DEF Skip, Return, conns, base, kernel
  <2>2. batch' \in Seq(Event)
    BY <1>1, <2>1 DEF TypeOK
  <2> QED BY <1>1, <2>1, <2>2, QuietAgrees DEF TypeOK
<1>12. CASE HandleError
  <2>1. Target \in Open /\ Closed(Target) /\ batch' \in Seq(Event)
    BY <1>1, <1>12 DEF HandleError, TypeOK
  <2> QED BY <1>8, <2>1
<1>13. CASE Handle
  BY <1>13, HandleBase, ZenonT(60)
<1> QED BY <1>2, <1>3, <1>4, <1>5, <1>6, <1>7, <1>9, <1>10, <1>11, <1>12, <1>13, ZenonT(60) DEF Next

\* A failure needs a descriptor the kernel and evd[] disagree on, or a fault.
LEMMA CleanStep ==
    ASSUME Sizes, Faults = 0, BaseInv, CleanInv, [Next]_vars
    PROVE  CleanInv'
<1>1. ASSUME NEW c \in Conn, AddConnFails(c) PROVE FALSE
  <2> DEFINE f == Min(Fd \ Used)
  <2>1. f \in Fd \ Used
    BY <1>1, FreeDescriptor DEF AddConnFails
  <2>2. ~Misfit(f)
    BY <2>1 DEF Misfit, CleanInv, BaseInv, NoEvd
  <2> QED BY <1>1, <2>2 DEF AddConnFails, EventAdd, CleanInv
<1>2. \A f \in Fd \ Used' : evd'[f] = NoEvd \/ (f \notin Used /\ evd'[f] = evd[f])
  BY <1>1, BaseStep, ZenonT(60)
<1>3. faults' = 0
  BY ZenonT(60), <1>1 DEF Next, vars, CleanInv, SocketChanges, AddConn, EventAdd, ConnectFails, AddOut, CloseConn,
              Closed, Unaccept, Wait, Skip, HandleError, Handle, Return
<1> QED BY <1>2, <1>3 DEF CleanInv

-----------------------------------------------------------------------------
(* The theorems.                                                           *)

LEMMA AgreementIsSound == ASSUME BaseInv PROVE BaseAgrees
<1> SUFFICES ASSUME NEW c \in Open
             PROVE  /\ sd[c] < nevd /\ evd[sd[c]].priv = c
                    /\ recv_active[c] /\ "in" \in interest[sd[c]]
                    /\ send_active[c] <=> "out" \in interest[sd[c]]
  BY ZenonT(60) DEF BaseAgrees
<1>1. Agrees(c)
  BY DEF BaseInv
<1>2. evd[sd[c]].priv = c
  BY <1>1 DEF Agrees, EvdOf
<1>3. "in" \in interest[sd[c]] /\ (send_active[c] <=> "out" \in interest[sd[c]])
  BY <1>1 DEF Agrees, InterestOf
<1> QED BY <1>1, <1>2, <1>3, ZenonT(60) DEF Agrees

LEMMA CleanIsSound == ASSUME BaseInv, CleanInv PROVE DispatchedToOpen /\ Reusable
<1>1. Reusable
  BY DEF Reusable, Misfit, BaseInv, CleanInv, NoEvd
<1>2. \A f \in Fd : evd[f].priv \in Open \cup {None}
  <2> SUFFICES ASSUME NEW f \in Fd PROVE evd[f].priv \in Open \cup {None}
    OBVIOUS
  <2>1. CASE f \notin Used
    BY <2>1 DEF CleanInv, NoEvd
  <2>2. CASE f \in Used
    <3>1. PICK c \in Open : f = sd[c] /\ Agrees(c)
      BY <2>2 DEF BaseInv, Used
    <3> QED BY <3>1 DEF Agrees, EvdOf
  <2> QED BY <2>1, <2>2
<1>3. batch # <<>> => Head(batch).fd \in Fd
  <2>1. batch # <<>> => Head(batch) \in Event
    BY DEF BaseInv, TypeOK
  <2> QED BY <2>1 DEF Event
<1> QED BY <1>1, <1>2, <1>3 DEF DispatchedToOpen, Target

\* However many connections, descriptors and events there are, and whenever
\* epoll_ctl fails: an open connection is the one evd[] calls for its
\* descriptor, and the kernel watches what its flags say (event_add_conn,
\* event_add_out, event_del_out, event_del_conn of event/nc_epoll.c).
THEOREM FlagsAndKernelAgree == ASSUME Sizes PROVE Spec => []BaseAgrees
<1>1. Init => BaseInv
  BY InitBase
<1>2. BaseInv /\ [Next]_vars => BaseInv'
  BY BaseStep
<1>3. BaseInv => BaseAgrees
  BY AgreementIsSound
<1> QED BY <1>1, <1>2, <1>3, PTL DEF Spec

\* While epoll_ctl does not fail, an event is dispatched to a connection that
\* is open or to nobody, although earlier events of its batch closed
\* connections and gave their descriptors to others (event_wait), and
\* event_add finds every closed descriptor as if it had never been used.
THEOREM NeverDispatchedToFreed ==
    ASSUME Sizes, Faults = 0
    PROVE  Spec => [](DispatchedToOpen /\ Reusable)
<1>1. Init => BaseInv /\ CleanInv
  BY InitBase, InitClean
<1>2. BaseInv /\ CleanInv /\ [Next]_vars => BaseInv' /\ CleanInv'
  BY BaseStep, CleanStep
<1>3. BaseInv /\ CleanInv => DispatchedToOpen /\ Reusable
  BY CleanIsSound
<1> QED BY <1>1, <1>2, <1>3, PTL DEF Spec

=============================================================================
