--------------------------- MODULE MCAsciiClient ---------------------------
(* AsciiClient with a history variable: whether anything has disturbed the *)
(* run, so that one run can ask both what a good server gets and what any  *)
(* server gets.                                                            *)
EXTENDS AsciiClient

VARIABLE disturbed

\* A fault or a timeout.
Disturbs ==
    \/ BadAddress \/ LocalFailure
    \/ ServerMisbehaves \/ ServerError \/ ServerCrash
    \/ srvUp /\ (RecvNothing \/ AcceptTimeout)

MCInit == Init /\ disturbed = FALSE
MCNext == Next /\ disturbed' = (disturbed \/ Disturbs)

\* The fairness of ClientFairSpec.
MCSpec == MCInit /\ [][MCNext]_<<vars, disturbed>> /\ WF_vars(Client)

\* With a correct and prompt server the hand-off succeeds, whatever the
\* batching: no read waits for an answer that is already in the buffer
\* (recvMessage and the tests of netStringsInBuf before it).
Delivers == ServerFairness => <>(pc = "done" \/ disturbed)
=============================================================================
