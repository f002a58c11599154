--------------------------- MODULE MCGoProCentral ---------------------------
(* Instances of GoProCentral for TLC.                                      *)
EXTENDS GoProCentral, TLC

CONSTANTS hero9, hero12, max

TwoHandles == {0, 1}

(* Two models.                                                             *)
TwoLayouts == hero9 :> 45 @@ hero12 :> 61

(* A camera, and a GoPro that has no command characteristic.               *)
OneWithout == hero9 :> 45 @@ max :> 0

(* Two models, and a GoPro that has no command characteristic.             *)
WithoutCommand == TwoLayouts @@ max :> 0
=============================================================================
