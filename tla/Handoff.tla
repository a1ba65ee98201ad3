------------------------------ MODULE Handoff ------------------------------
(***************************************************************************)
(* What asciiclient promises its user, without any of the protocol: one    *)
(* text is to be handed to a server.  The server obtains the text at most  *)
(* once, may acknowledge it after it obtained it, and the client returns   *)
(* normally only after the acknowledgement.  In every other case the       *)
(* client gives up with an error status.                                   *)
(*                                                                         *)
(* AsciiClient is shown to implement this specification.                   *)
(***************************************************************************)

VARIABLES
    text,    \* where the text is: "client", "server" or "acknowledged"
    outcome  \* what the caller of the client sees: "running", "ok", "failed"

vars == <<text, outcome>>

Init ==
    /\ text = "client"
    /\ outcome = "running"

\* The server reads the text.
Deliver ==
    /\ text = "client"
    /\ text' = "server"
    /\ UNCHANGED outcome

\* The server confirms that it has the text.
Acknowledge ==
    /\ text = "server"
    /\ text' = "acknowledged"
    /\ UNCHANGED outcome

\* The client reports success: only for a confirmed text.
Succeed ==
    /\ outcome = "running"
    /\ text = "acknowledged"
    /\ outcome' = "ok"
    /\ UNCHANGED text

\* The client may give up at any time before that.
Fail ==
    /\ outcome = "running"
    /\ outcome' = "failed"
    /\ UNCHANGED text

Next == Deliver \/ Acknowledge \/ Succeed \/ Fail

Spec == Init /\ [][Next]_vars
=============================================================================
