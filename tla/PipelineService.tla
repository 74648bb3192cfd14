--------------------------- MODULE PipelineService ---------------------------
(***************************************************************************)
(* What the clients see of the pipeline: it implements Service, and, given *)
(* a fair event loop, every request is answered.                           *)
(***************************************************************************)
EXTENDS Pipeline

Service == INSTANCE Service WITH
    up <- open \cap Client,
    waiting <- [c \in Client |-> [i \in DOMAIN c_omsg_q[c] |->
                  [id |-> Id(c_omsg_q[c][i]), failed |-> ReqError(c_omsg_q[c][i])]]],
    answer <- out

\* Every client connection is served in order, each answer is the one to its
\* request, and a request of which a part failed is answered with an error
\* (req_done, req_error, rsp_send_next, rsp_send_done).
ServedInOrder == Service!ServiceSpec

\* The event loop gives every pending event its turn: a read handler goes on to
\* its end (Forward, CoreClose); core_timeout runs after every batch of events, so
\* an expired timer is served; a client that is ready to be written to is.
Fairness ==
    /\ WF_vars(Forward)
    /\ \A c \in Client : WF_vars(CoreClose(c)) /\ SF_vars(ClientWrite(c))
    /\ \A m \in Msg : SF_vars(Timeout(m))

LiveSpec == Spec /\ Fairness

Waiting(c, t) == \E i \in DOMAIN c_omsg_q[c] : req[c_omsg_q[c][i]].tag = t

\* With a timeout configured, every request a client waits for is eventually
\* answered, with an error if need be, or its connection is closed, even if no
\* server ever answers.
EventuallyAnswered ==
    \A c \in Client, t \in 1..MaxTag : Waiting(c, t) ~> ~Waiting(c, t)

\* A connection that is closing (half-closed by the client) is eventually closed.
EventuallyClosed == \A c \in Client : c \in eof ~> c \notin eof
==============================================================================
