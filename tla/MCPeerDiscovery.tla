-------------------------- MODULE MCPeerDiscovery --------------------------
(* Instances of PeerDiscovery for TLC.                                     *)
EXTENDS PeerDiscovery

(* Every well-formed table of up to six attributes that has no barren     *)
(* service; the UUIDs of services and characteristics do not change what   *)
(* is discovered, so one type of each stands for all.                      *)
Shapes(types, n) ==
    {t \in UNION {[1..k -> types] : k \in 1..n} :
        WellFormed(t) /\ \A s \in Services(t) : ~Barren(t, s)}

SmallTables == Shapes({"gopro", "cmd", "val", "dsc", "inc", "gap"}, 6)

(* Cameras with the GoPro service: one and two notifying characteristics,  *)
(* a second service before or after, a command characteristic in either;   *)
(* the last two have four characteristics, and four descriptors, more than *)
(* the pools of three.                                                     *)
Cameras ==
    { <<"gopro", "cmd", "val", "notify", "val", "cccd">>,
      <<"svc", "chr", "val", "gopro", "cmd", "val", "notify", "val", "cccd">>,
      <<"gopro", "notify", "val", "cccd", "dsc", "notify", "val", "cccd", "svc", "cmd", "val">>,
      <<"svc", "notify", "val", "cccd", "gopro", "chr", "val", "dsc">>,
      <<"gopro", "cmd", "val", "gap", "notify", "val", "cccd", "gap">>,
      <<"gopro", "cmd", "val", "notify", "val", "cccd", "svc", "chr", "val", "chr", "val">>,
      <<"gopro", "cmd", "val", "dsc", "dsc", "notify", "val", "cccd", "dsc">> }

AllTables == SmallTables \cup Cameras

HeroCamera == { <<"gopro", "cmd", "val", "notify", "val", "cccd">> }

TwoServices == { <<"gopro", "cmd", "val", "dsc", "svc", "chr", "val", "dsc">> }

OverlapTables == TwoServices \cup HeroCamera

(* A service that holds only an include declaration, before the GoPro one. *)
BarrenTables == { <<"svc", "inc", "gopro", "cmd", "val">> }
=============================================================================
