---------------------------- MODULE MCEventLoop ----------------------------
EXTENDS EventLoop

MCPrio == [x \in Tasks |-> IF x = "high" THEN 0 ELSE 1]
MCInterval == [t \in Timers |-> IF t = "once" THEN 2 ELSE 1]

(* What may overlap, two or three kinds of call at a time. *)
MCLoops == {<<"async", {"high", "low", "once", "stop"}>>, <<"async", {"low", "again"}>>,
            <<"io", {"high", "low", "once"}>>, <<"io", {"once", "stop"}>>,
            <<"io", {"high", "fd"}>>, <<"io", {"fd", "stop"}>>}
MCIo == {<<"io", {"once"}>>}
=============================================================================
