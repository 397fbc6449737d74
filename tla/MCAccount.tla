----------------------------- MODULE MCAccount -----------------------------
(* Instances of Account for TLC.                                           *)
EXTENDS Account

\* What an HTTP server sends: "cont-yn: Y\r\n", of which getline leaves the
\* blank and the carriage return.
WireFraming == [before |-> " ", after |-> "\r"]

\* The framing the comparison with "Y" expects: no blank, a bare line feed.
BareFraming == [before |-> "", after |-> ""]

OnWire     == {WireFraming}
AnyFraming == {WireFraming, BareFraming}

\* Environments that produce no fault, or may only lose an answer.
NoFaults    == {}
LostAnswers == {"noanswer"}
=============================================================================
