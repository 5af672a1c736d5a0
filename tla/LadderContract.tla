---------------------------- MODULE LadderContract ----------------------------
(***************************************************************************)
(* What a driver of the restart-first ladder may rely on: every session    *)
(* walks the ladder's state diagram one edge at a time, and the edge out   *)
(* of IDLE is the only restart it counts.  The diagram is the one of the   *)
(* restart-first-ladder section of the design, without the two states that *)
(* no method assigns (ANALYZE and SANDBOX_VERIFY).                         *)
(***************************************************************************)
EXTENDS Integers

CONSTANT Sessions

VARIABLES
    phase,    \* where each session is on the ladder
    attempts  \* restart cycles each session has been charged for

Edges ==
    {<<"NONE", "IDLE">>,
     <<"RESTART_ISSUED", "WATCH_HEALING">>,
     <<"WATCH_HEALING", "HEALED">>,
     <<"WATCH_HEALING", "STILL_SICK">>,
     <<"STILL_SICK", "PROPOSE_FIX">>,
     <<"PROPOSE_FIX", "APPLY">>,
     <<"PROPOSE_FIX", "ESCALATE">>}

ContractInit ==
    /\ phase = [s \in Sessions |-> "NONE"]
    /\ attempts = [s \in Sessions |-> 0]

\* The restart rung.
ContractRestart(s) ==
    /\ phase[s] = "IDLE"
    /\ phase' = [phase EXCEPT ![s] = "RESTART_ISSUED"]
    /\ attempts' = [attempts EXCEPT ![s] = @ + 1]

\* Any other rung.
ContractMove(s) ==
    /\ \E e \in Edges :
          /\ phase[s] = e[1]
          /\ phase' = [phase EXCEPT ![s] = e[2]]
    /\ UNCHANGED attempts

ContractNext == \E s \in Sessions : ContractRestart(s) \/ ContractMove(s)

ContractSpec == ContractInit /\ [][ContractNext]_<<phase, attempts>>
=============================================================================
