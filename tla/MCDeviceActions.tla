--------------------------- MODULE MCDeviceActions ---------------------------
(* One action, asked for or proposed, and a lead: more actions are this one   *)
(* side by side.  The flags: autonomy for low risk, for medium risk as       *)
(* well, no autonomy, the feature off, and the mock servers.                 *)
EXTENDS DeviceActions

MCFlags ==
    LET low == [feature |-> TRUE, autonomous |-> TRUE, medium |-> FALSE, mock |-> FALSE]
    IN  {low, [low EXCEPT !.medium = TRUE], [low EXCEPT !.autonomous = FALSE],
         [low EXCEPT !.feature = FALSE], [low EXCEPT !.mock = TRUE]}
=============================================================================
