---------------------------- MODULE MCUdsServer ----------------------------
(* Model values and bounds for UdsServer. *)
EXTENDS UdsServer, TLC

CONSTANTS Talker, Caller, Guest   \* connections that ask twice, once and never

Ask(op, topics, size) == [op |-> op, topics |-> topics, size |-> size]
SmallRequests == {Ask("act", {"t"}, 1), Ask("subscribe", {"t"}, 0)}
LegalRequests == {Ask("call", {}, 3)}
TwoOneNone == [c \in Conn |-> IF c = Talker THEN 2 ELSE IF c = Caller THEN 1 ELSE 0]
=============================================================================
