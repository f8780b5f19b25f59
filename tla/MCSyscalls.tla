----------------------------- MODULE MCSyscalls -----------------------------
(***************************************************************************)
(* Traps and MsgQueue, the way into a system call and the calls that keep  *)
(* state, side by side: a behaviour is one of the first or of the second.  *)
(*                                                                         *)
(* Traps has every kind of result, both files, and faults with and without *)
(* an error code; MsgQueue has two keys, two types and one payload.        *)
(***************************************************************************)
EXTENDS Traps, MsgQueue

MCCalls == {1, 2, 4, 44, 67, 68, 88, 100}
MCFds == {1, 2}
MCCounts == {0, 17}
MCPids == {3}
MCFaults == {0, 13, 14}
MCKeys == {1, 2}
MCTypes == {1, 2}

VARIABLE view
callVars == <<trapVars, vars, view>>

CallInit == TrapsInit /\ Init /\ view \in {"traps", "queues"}

InTraps(A) == view = "traps" /\ A /\ UNCHANGED <<vars, view>>
InQueues(A) == view = "queues" /\ A /\ UNCHANGED <<trapVars, view>>

CallSpec == CallInit /\ [][InTraps(TrapsNext) \/ InQueues(Next)]_callVars

\* The queues with receivers that select any message by its type.
CallTypedSpec == CallInit /\ [][InQueues(TypedNext)]_callVars

=============================================================================
