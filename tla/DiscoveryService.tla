--------------------------- MODULE DiscoveryService ---------------------------
(***************************************************************************)
(* What GATT discovery promises gap.c and gatt.c, without procedures,      *)
(* lists, cursors or pools: a discovery that begins on a link is reported  *)
(* as a success or a failure unless the link breaks first, and a reported  *)
(* success hands over the whole attribute table of the camera at once.     *)
(***************************************************************************)
EXTENDS PeerTable

CONSTANT Tables     \* the attribute tables a camera may have

VARIABLES
    camera,   \* the connected camera's table, <<>> without a link
    phase,    \* "down", "idle", "running", "unstarted", "ok" or "failed"
    view      \* the service list the peer offers, <<>> unless phase is "ok"

vars == <<camera, phase, view>>

Init == camera = <<>> /\ phase = "down" /\ view = <<>>

Connect ==
    /\ phase = "down"
    /\ camera' \in Tables
    /\ phase' = "idle" /\ view' = <<>>

Disconnect ==
    /\ phase # "down"
    /\ camera' = <<>> /\ phase' = "down" /\ view' = <<>>

(* A discovery begins, or cannot begin; either way the old view is gone.   *)
Begin ==
    /\ phase \notin {"down", "running"}
    /\ phase' \in {"running", "unstarted"} /\ view' = <<>>
    /\ UNCHANGED camera

Complete ==
    /\ phase = "running"
    /\ phase' = "ok" /\ view' = Mirror(camera)
    /\ UNCHANGED camera

Fail ==
    /\ phase = "running"
    /\ phase' = "failed"
    /\ UNCHANGED <<camera, view>>

Next == Connect \/ Disconnect \/ Begin \/ Complete \/ Fail

(* A discovery does not stay unreported for good.                          *)
Reported == phase = "running" ~> phase # "running"

Spec == Init /\ [][Next]_vars /\ Reported
=============================================================================
