------------------------------- MODULE MCLimits -------------------------------
(* A small instance of Limits for TLC: a tick is a minute, so the windows of 60 and   *)
(* 900 seconds and the cooldown of 60 keep their order as 1, 3 and 1.                 *)
EXTENDS Limits

MCLimit == [l \in {"api", "auth"} |-> IF l = "api" THEN 3 ELSE 2]
MCWindow == [l \in {"api", "auth"} |-> IF l = "api" THEN 1 ELSE 3]

=============================================================================
