------------------------------ MODULE LinkSession ------------------------------
(***************************************************************************)
(* What a CON session promises to the application, without its frames,     *)
(* timers and retransmissions: the phases it goes through, and what the    *)
(* application is told on the way.  ConSm implements it; HostBoard is      *)
(* built on it.                                                            *)
(*                                                                         *)
(* report holds what commCb_ was given in the last step, in order.         *)
(***************************************************************************)
VARIABLES phase, report

Phase == {"DISCONNECTED", "CONNECTING", "CONNECTED", "DISCONNECTING"}

Init == phase = "DISCONNECTED" /\ report = <<>>

Step(from, to, told) == phase \in from /\ phase' = to /\ report' = told

\* A handshake begins, and fails.
Open == Step({"DISCONNECTED"}, "CONNECTING", <<>>)
Fail == Step({"CONNECTING"}, "DISCONNECTED", <<>>)

\* The session begins, by either side's request, or begins again.
Establish ==
    Step({"DISCONNECTED", "CONNECTING", "CONNECTED"}, "CONNECTED", <<"READY">>)

\* The session begins and is lost at once, because its answer is not sent.
Flicker == Step({"CONNECTING", "CONNECTED"}, "DISCONNECTED",
                <<"READY", "NOT_READY">>)

\* The session is being closed; it can still be used.
Close == Step({"CONNECTED"}, "DISCONNECTING", <<>>)

\* The session has ended, for whatever reason.
End == Step({"CONNECTED", "DISCONNECTING"}, "DISCONNECTED", <<"NOT_READY">>)

\* Nothing that concerns the application.
Stay == Step({phase}, phase, <<>>)

Next == Open \/ Fail \/ Establish \/ Flicker \/ Close \/ End \/ Stay

Spec == Init /\ [][Next]_<<phase, report>>

=============================================================================
