------------------------- MODULE GoProCentralProofs -------------------------
(***************************************************************************)
(* Proofs about GoProCentral, for any cameras, handles and connection      *)
(* limit.  CentralInv is inductive; PeersMirrorLinks alone is not: that a  *)
(* new link finds a free peer needs the slot a pending connection keeps,   *)
(* and that a stored bond is a camera's needs security to run on links.    *)
(***************************************************************************)
EXTENDS GoProCentral, FiniteSetTheorems, TLAPS

(* A camera is connected at most once, and a pending connection attempt    *)
(* has a connection and a peer left to use.                                *)
SlotReserved ==
    /\ \A g, h \in Live : link[g] = link[h] => g = h
    /\ Cardinality(Live) <= MaxConn
    /\ op = "conn" => /\ Cardinality(Live) < MaxConn
                      /\ target \in Dev /\ \A h \in Handles : link[h] # target

(* Security, discovery and termination only concern links that are up, and *)
(* ble_connect has a camera.                                               *)
WorkIsOnLinks ==
    /\ \A h \in Handles : sm[h] # "idle" \/ phase[h] # "none" => link[h] # NoDev
    /\ closing \subseteq Live
    /\ hostPc = "cancelled" => op # "conn" /\ target \in Dev

CentralInv ==
    /\ TypeOK
    /\ PeersMirrorLinks
    /\ SlotReserved
    /\ WorkIsOnLinks

(* The connected handles are finitely many, so they can be counted.        *)
LEMMA LiveFinite == IsFiniteSet(Live) /\ Cardinality(Live) \in Nat
BY HandlesAssumption, FS_Subset, FS_CardinalityType DEF Live

(* Fewer links use fewer connections.                                      *)
LEMMA FewerLinks ==
    ASSUME NEW S, S \subseteq Live
    PROVE  IsFiniteSet(S) /\ Cardinality(S) \in Nat /\ Cardinality(S) <= Cardinality(Live)
BY LiveFinite, FS_Subset, FS_CardinalityType

(* The invariant holds in the initial states.                              *)
LEMMA CentralInit == Init => CentralInv
<1> SUFFICES ASSUME Init PROVE CentralInv
    OBVIOUS
<1>1. TypeOK
    BY HandlesAssumption DEF Init, TypeOK, Unread
<1>2. Live = {}
    BY DEF Init, Live
<1>3. Cardinality(Live) = 0
    BY <1>2, FS_EmptySet
<1>4. PeersMirrorLinks
    BY <1>2 DEF Init, PeersMirrorLinks
<1>5. SlotReserved
    BY <1>2, <1>3, MaxConnAssumption DEF Init, SlotReserved
<1>6. WorkIsOnLinks
    BY <1>2 DEF Init, WorkIsOnLinks
<1> QED BY <1>1, <1>4, <1>5, <1>6 DEF CentralInv

(* Steps that change no connection, no peer, no security or discovery      *)
(* state keep what the invariant says of them.                             *)
LEMMA LinksUnchanged ==
    ASSUME CentralInv, UNCHANGED <<link, peers>>
    PROVE  Live' = Live /\ PeersMirrorLinks'
BY DEF CentralInv, PeersMirrorLinks, Live

(* The web server's task changes no state of the host task.                *)
LEMMA WebStep == CentralInv /\ Web => CentralInv'
<1> SUFFICES ASSUME CentralInv, Web PROVE CentralInv'
    OBVIOUS
<1> USE DEF CentralInv
<1>1. UNCHANGED hostVars
    BY DEF Web, gopro_write_command, ReadConnection, ReadCommand, WriteNoRsp
<1>2. http' \in [pc : {"idle", "args"}, conn : Handles \cup {Unread}, cmd : Nat \cup {Unread}]
    BY DEF Web, gopro_write_command, ReadConnection, ReadCommand, WriteNoRsp, TypeOK, hostVars
<1>3. delivered' \in [dev : Dev \cup {NoDev}, attr : Nat]
    BY DEF Web, gopro_write_command, ReadConnection, ReadCommand, WriteNoRsp, TypeOK, Unread
<1>4. TypeOK'
    BY <1>1, <1>2, <1>3 DEF TypeOK, hostVars
<1>5. Live' = Live
    BY <1>1 DEF Live, hostVars
<1> QED BY <1>1, <1>4, <1>5 DEF PeersMirrorLinks, SlotReserved, WorkIsOnLinks, hostVars

(* A scan can start between the cancelled scan and the connection attempt, *)
(* which costs the attempt, not the invariant.                             *)
LEMMA ScanStep == CentralInv /\ ble_gopro_scan => CentralInv'
<1> SUFFICES ASSUME CentralInv, ble_gopro_scan PROVE CentralInv'
    OBVIOUS
<1> USE DEF CentralInv, ble_gopro_scan
<1>1. Live' = Live /\ PeersMirrorLinks'
    BY LinksUnchanged
<1>2. TypeOK'
    BY DEF TypeOK
<1> QED BY <1>1, <1>2 DEF SlotReserved, WorkIsOnLinks

(* Scanning and connecting, up to the link.                                *)
LEMMA ConnectStep ==
    CentralInv /\ ((\E d \in Dev : ble_connect(d)) \/ ble_gap_connect \/ ProcedureEnds)
        => CentralInv'
<1> SUFFICES ASSUME CentralInv,
                    (\E d \in Dev : ble_connect(d)) \/ ble_gap_connect \/ ProcedureEnds
             PROVE  CentralInv'
    OBVIOUS
<1> USE DEF CentralInv
<1>1. Live' = Live /\ PeersMirrorLinks'
    BY LinksUnchanged DEF ble_connect, ble_gap_connect, ProcedureEnds
<1>2. CASE \E d \in Dev : ble_connect(d)
    <2>1. TypeOK'
        BY <1>2 DEF TypeOK, ble_connect
    <2> QED BY <1>1, <1>2, <2>1 DEF ble_connect, SlotReserved, WorkIsOnLinks
<1>3. CASE ble_gap_connect
    <2>1. TypeOK'
        BY <1>3 DEF TypeOK, ble_gap_connect
    <2>2. SlotReserved'
        BY <1>1, <1>3 DEF ble_gap_connect, Connectable, SlotReserved, WorkIsOnLinks
    <2> QED BY <1>1, <1>3, <2>1, <2>2 DEF ble_gap_connect, WorkIsOnLinks
<1>4. CASE ProcedureEnds
    <2>1. TypeOK'
        BY <1>4 DEF TypeOK, ProcedureEnds
    <2> QED BY <1>1, <1>4, <2>1 DEF ProcedureEnds, SlotReserved, WorkIsOnLinks
<1> QED BY <1>2, <1>3, <1>4

(* A new link takes the connection its attempt reserved, and finds a peer. *)
LEMMA LinkEstabStep ==
    ASSUME NEW h \in Handles, CentralInv, LinkEstab(h)
    PROVE  CentralInv'
<1> USE DEF CentralInv
<1>1. target \in Dev /\ Cardinality(Live) < MaxConn /\ \A g \in Handles : link[g] # target
    BY DEF LinkEstab, SlotReserved
<1>2. h \notin peers /\ Cardinality(peers) < MaxConn
    BY <1>1 DEF LinkEstab, PeersMirrorLinks, Live
<1>3. link' = [link EXCEPT ![h] = target] /\ peers' = peers \cup {h}
    BY <1>2, LiveFinite, MaxConnAssumption DEF LinkEstab, PeersMirrorLinks
<1>4. Live' = Live \cup {h}
    BY <1>1, <1>3, DevAssumption DEF Live, TypeOK
<1>5. Cardinality(Live') <= MaxConn
    <2>1. h \notin Live
        BY DEF LinkEstab, Live
    <2>2. Cardinality(Live \cup {h}) = Cardinality(Live) + 1
        BY <2>1, LiveFinite, FS_AddElement
    <2> QED BY <1>1, <1>4, <2>2, LiveFinite, MaxConnAssumption
<1>6. TypeOK'
    <2>1. link' \in [Handles -> Dev \cup {NoDev}] /\ peers' \in SUBSET Handles
        BY <1>1, <1>3 DEF TypeOK
    <2>2. sm' \in [Handles -> {"idle", "enc", "pair"}] /\ closing' \in SUBSET Handles
        BY DEF TypeOK, LinkEstab, SecurityProc
    <2>3. phase' \in [Handles -> {"none", "pending", "running", "unstarted", "ok", "failed"}]
        BY DEF TypeOK, LinkEstab
    <2>4. camera' \in [conn : Handles, cmd : Nat]
        BY DEF TypeOK, LinkEstab
    <2>5. UNCHANGED <<hostPc, bonds, http, delivered>> /\ op' = "none" /\ target' = NoDev
        BY DEF LinkEstab
    <2>6. alone' \in SUBSET Handles
        BY DEF LinkEstab
    <2> QED BY <2>1, <2>2, <2>3, <2>4, <2>5, <2>6 DEF TypeOK
<1>7. PeersMirrorLinks'
    BY <1>3, <1>4 DEF PeersMirrorLinks
<1>8. SlotReserved'
    <2>1. \A f, g \in Live' : link'[f] = link'[g] => f = g
        BY <1>1, <1>3, <1>4 DEF SlotReserved, TypeOK, Live
    <2>2. op' = "none"
        BY DEF LinkEstab
    <2> QED BY <1>5, <2>1, <2>2 DEF SlotReserved
<1>9. WorkIsOnLinks'
    <2>1. \A g \in Handles : sm'[g] # "idle" \/ phase'[g] # "none" => link'[g] # NoDev
        BY <1>1, <1>3, DevAssumption DEF LinkEstab, WorkIsOnLinks, TypeOK
    <2>2. closing' \subseteq Live'
        BY <1>4 DEF LinkEstab, WorkIsOnLinks
    <2>3. hostPc' = "idle"
        BY DEF LinkEstab
    <2> QED BY <2>1, <2>2, <2>3 DEF WorkIsOnLinks
<1> QED BY <1>6, <1>7, <1>8, <1>9

(* Security and discovery leave the connections alone.                     *)
LEMMA SecurityStep ==
    ASSUME NEW h \in Handles, CentralInv,
           \/ \E starts \in BOOLEAN : EncChange(h, starts)
           \/ SecurityRequest(h) \/ RepeatPairing(h)
    PROVE  CentralInv'
<1> USE DEF CentralInv
<1> DEFINE Enc == \E starts \in BOOLEAN : EncChange(h, starts)
<1>1. link[h] # NoDev /\ link[h] \in Dev
    BY DEF EncChange, SecurityRequest, RepeatPairing, WorkIsOnLinks, TypeOK
<1>2. Live' = Live /\ PeersMirrorLinks'
    BY LinksUnchanged DEF EncChange, SecurityRequest, RepeatPairing
<1>3. UNCHANGED <<op, target, hostPc, link, alone, peers, closing, camera, http, delivered>>
    BY DEF EncChange, SecurityRequest, RepeatPairing
<1>4. /\ sm' \in [Handles -> {"idle", "enc", "pair"}]
      /\ \A g \in Handles : g # h => sm'[g] = sm[g]
    BY DEF EncChange, SecurityRequest, RepeatPairing, TypeOK, SecurityProc
<1>5. /\ phase' \in [Handles -> {"none", "pending", "running", "unstarted", "ok", "failed"}]
      /\ \A g \in Handles : g # h => phase'[g] = phase[g]
    BY DEF EncChange, SecurityRequest, RepeatPairing, TypeOK
<1>6. bonds' \in SUBSET Dev
    BY <1>1 DEF EncChange, SecurityRequest, RepeatPairing, TypeOK
<1>7. TypeOK'
    BY <1>3, <1>4, <1>5, <1>6 DEF TypeOK
<1>8. SlotReserved'
    BY <1>2, <1>3 DEF SlotReserved
<1>9. WorkIsOnLinks'
    BY <1>1, <1>2, <1>3, <1>4, <1>5 DEF WorkIsOnLinks
<1> QED BY <1>2, <1>7, <1>8, <1>9

LEMMA DiscoveryStep ==
    ASSUME NEW h \in Handles, CentralInv, DiscoveryOk(h) \/ DiscoveryFails(h)
    PROVE  CentralInv'
<1> USE DEF CentralInv
<1>1. link[h] # NoDev /\ link[h] \in Dev
    BY DEF DiscoveryOk, DiscoveryFails, WorkIsOnLinks, TypeOK
<1>2. Live' = Live /\ PeersMirrorLinks'
    BY LinksUnchanged DEF DiscoveryOk, DiscoveryFails
<1>3. UNCHANGED <<op, target, hostPc, link, alone, peers, sm, bonds, http, delivered>>
    BY DEF DiscoveryOk, DiscoveryFails
<1>4. /\ phase' \in [Handles -> {"none", "pending", "running", "unstarted", "ok", "failed"}]
      /\ \A g \in Handles : g # h => phase'[g] = phase[g]
    BY DEF DiscoveryOk, DiscoveryFails, TypeOK
<1>5. camera' \in [conn : Handles, cmd : Nat]
    BY <1>1, CmdAssumption DEF DiscoveryOk, DiscoveryFails, TypeOK
<1>6. closing' \subseteq closing \cup {h}
    BY DEF DiscoveryOk, DiscoveryFails
<1>7. TypeOK'
    BY <1>3, <1>4, <1>5, <1>6 DEF TypeOK
<1>8. SlotReserved'
    BY <1>2, <1>3 DEF SlotReserved
<1>9. WorkIsOnLinks'
    BY <1>1, <1>2, <1>3, <1>4, <1>6 DEF WorkIsOnLinks, Live
<1> QED BY <1>2, <1>7, <1>8, <1>9

(* A link that goes down takes its peer with it and frees its connection.  *)
LEMMA DisconnectStep ==
    ASSUME NEW h \in Handles, CentralInv, Disconnect(h)
    PROVE  CentralInv'
<1> USE DEF CentralInv, Disconnect
<1>1. TypeOK'
    BY DEF TypeOK
<1>2. Live' = Live \ {h}
    BY DEF Live, TypeOK
<1>3. PeersMirrorLinks'
    BY <1>2 DEF PeersMirrorLinks
<1>4. Cardinality(Live') \in Nat /\ Cardinality(Live') <= Cardinality(Live)
    BY <1>2, FewerLinks
<1>5. SlotReserved'
    <2>1. \A f, g \in Live' : link'[f] = link'[g] => f = g
        BY <1>2 DEF SlotReserved, TypeOK, Live
    <2>2. op' = "conn" => \A g \in Handles : link'[g] # target'
        BY DevAssumption DEF SlotReserved, TypeOK
    <2> QED BY <1>4, <2>1, <2>2, LiveFinite, MaxConnAssumption DEF SlotReserved
<1>6. WorkIsOnLinks'
    BY <1>2 DEF WorkIsOnLinks, TypeOK
<1> QED BY <1>1, <1>3, <1>5, <1>6

LEMMA HostResetStep == CentralInv /\ HostReset => CentralInv'
<1> SUFFICES ASSUME CentralInv, HostReset PROVE CentralInv'
    OBVIOUS
<1> USE DEF CentralInv, HostReset
<1>1. TypeOK'
    BY DEF TypeOK
<1>2. Live' = {} /\ Cardinality(Live') = 0
    BY FS_EmptySet DEF Live
<1> QED BY <1>1, <1>2, MaxConnAssumption DEF PeersMirrorLinks, SlotReserved, WorkIsOnLinks

(* Every step keeps the invariant.                                         *)
LEMMA CentralStep == CentralInv /\ [Next]_vars => CentralInv'
<1> SUFFICES ASSUME CentralInv, [Next]_vars PROVE CentralInv'
    OBVIOUS
<1>1. CASE ble_gopro_scan \/ Web
    BY <1>1, ScanStep, WebStep
<1>2. CASE (\E d \in Dev : ble_connect(d)) \/ ble_gap_connect \/ ProcedureEnds
    BY <1>2, ConnectStep
<1>3. CASE HostReset
    BY <1>3, HostResetStep
<1>4. ASSUME NEW h \in Handles, Host(h) PROVE CentralInv'
    BY <1>4, LinkEstabStep, SecurityStep, DiscoveryStep, DisconnectStep DEF Host
<1>5. CASE UNCHANGED vars
    BY <1>5 DEF vars, hostVars, CentralInv, TypeOK, PeersMirrorLinks, SlotReserved,
                WorkIsOnLinks, Live
<1> QED BY <1>1, <1>2, <1>3, <1>4, <1>5 DEF Next

(* For any connection limit, the peer list is the list of connections: a   *)
(* new link always finds a peer, and none is left behind (gap.c, peer.c).  *)
THEOREM PeersAreLinks == Spec => []PeersMirrorLinks
<1>1. Init => CentralInv
    BY CentralInit
<1>2. CentralInv /\ [Next]_vars => CentralInv'
    BY CentralStep
<1>3. CentralInv => PeersMirrorLinks
    BY DEF CentralInv
<1> QED BY <1>1, <1>2, <1>3, PTL DEF Spec

(* The state of the central has its type; among others no bond is stored   *)
(* for anything but a camera (gap.c).                                      *)
THEOREM CentralTypes == Spec => []TypeOK
<1>1. Init => CentralInv
    BY CentralInit
<1>2. CentralInv /\ [Next]_vars => CentralInv'
    BY CentralStep
<1>3. CentralInv => TypeOK
    BY DEF CentralInv
<1> QED BY <1>1, <1>2, <1>3, PTL DEF Spec
-----------------------------------------------------------------------------
(* The shutter's handle.                                                   *)

LEMMA KnownHandlesType == KnownHandles \subseteq Nat /\ Unread \notin KnownHandles
BY CmdAssumption DEF KnownHandles, Unread

LEMMA HandlesKnownStep == CentralInv /\ HandlesKnown /\ [Next]_vars => HandlesKnown'
<1> SUFFICES ASSUME CentralInv, HandlesKnown, [Next]_vars PROVE HandlesKnown'
    OBVIOUS
<1> USE DEF HandlesKnown
<1>1. TypeOK /\ WorkIsOnLinks
    BY DEF CentralInv
<1>2. CASE Web
    <2>1. CASE gopro_write_command
        BY <2>1 DEF gopro_write_command, hostVars
    <2>2. CASE ReadConnection \/ ReadCommand
        BY <1>1, <2>2 DEF ReadConnection, ReadCommand, hostVars, TypeOK
    <2>3. CASE WriteNoRsp
        BY <2>3, KnownHandlesType DEF WriteNoRsp, hostVars
    <2> QED BY <1>2, <2>1, <2>2, <2>3 DEF Web
<1>3. ASSUME NEW h \in Handles, DiscoveryOk(h) PROVE HandlesKnown'
    <2>1. link[h] \in Dev
        BY <1>1, <1>3 DEF DiscoveryOk, WorkIsOnLinks, TypeOK
    <2>2. camera'.cmd \in KnownHandles
        BY <1>1, <1>3, <2>1 DEF DiscoveryOk, KnownHandles, TypeOK
    <2> QED BY <1>3, <2>2 DEF DiscoveryOk
<1>4. ASSUME NEW h \in Handles, LinkEstab(h) PROVE HandlesKnown'
    <2>1. camera'.cmd = camera.cmd
        BY <1>1, <1>4 DEF LinkEstab, TypeOK
    <2> QED BY <1>4, <2>1 DEF LinkEstab
<1>5. CASE UNCHANGED <<camera, http, delivered>>
    BY <1>5
<1>6. ASSUME NEW h \in Handles, Host(h) PROVE HandlesKnown'
    <2>1. DiscoveryOk(h) \/ LinkEstab(h) \/ UNCHANGED <<camera, http, delivered>>
        BY <1>6 DEF Host, SecurityRequest, RepeatPairing, EncChange, DiscoveryFails, Disconnect
    <2> QED BY <1>3, <1>4, <1>5, <2>1
<1>7. CASE \/ ble_gopro_scan \/ (\E d \in Dev : ble_connect(d))
           \/ ble_gap_connect \/ ProcedureEnds \/ HostReset \/ UNCHANGED vars
    BY <1>5, <1>7 DEF ble_gopro_scan, ble_connect, ble_gap_connect, ProcedureEnds,
                      HostReset, vars, hostVars
<1> QED BY <1>2, <1>6, <1>7 DEF Next

(* Whatever cameras come and go, the shutter uses a handle some camera has *)
(* for its command characteristic, or 0 (assign_command_handle).           *)
THEOREM HandlesAreKnown == Spec => []HandlesKnown
<1>1. Init => CentralInv /\ HandlesKnown
    BY CentralInit DEF Init, HandlesKnown, KnownHandles
<1>2. CentralInv /\ HandlesKnown /\ [Next]_vars => (CentralInv /\ HandlesKnown)'
    BY CentralStep, HandlesKnownStep
<1> QED BY <1>1, <1>2, PTL DEF Spec

-----------------------------------------------------------------------------
(* A link that has been the only one since it came up.                     *)

(* It is the link connected_camera names, and once it is discovered, its   *)
(* command handle is there.                                                *)
AloneInv ==
    \A h \in alone :
        /\ Live = {h}
        /\ camera.conn = h
        /\ phase[h] = "ok" /\ Cmd[link[h]] # 0 => camera.cmd = Cmd[link[h]]

LEMMA AloneStep == CentralInv /\ AloneInv /\ [Next]_vars => AloneInv'
<1> SUFFICES ASSUME CentralInv, AloneInv, [Next]_vars PROVE AloneInv'
    OBVIOUS
<1>1. TypeOK /\ WorkIsOnLinks
    BY DEF CentralInv
<1>2. ASSUME NEW h \in Handles, LinkEstab(h) PROVE AloneInv'
    <2> SUFFICES ASSUME Live = {}
                 PROVE  AloneInv'
        BY <1>2 DEF LinkEstab, AloneInv
    <2>1. alone' = {h}
        BY <1>2 DEF LinkEstab
    <2>2. target \in Dev
        BY <1>2 DEF LinkEstab, CentralInv, SlotReserved
    <2>3. Live' = {h}
        BY <1>1, <1>2, <2>2, DevAssumption DEF LinkEstab, Live, TypeOK
    <2>4. camera'.conn = h /\ phase'[h] # "ok"
        BY <1>1, <1>2 DEF LinkEstab, TypeOK
    <2> QED BY <2>1, <2>3, <2>4 DEF AloneInv
<1>3. ASSUME NEW h \in Handles, DiscoveryOk(h) PROVE AloneInv'
    <2>1. h \in Live
        BY <1>1, <1>3 DEF DiscoveryOk, WorkIsOnLinks, Live
    <2>2. alone \subseteq {h}
        BY <2>1 DEF AloneInv
    <2>3. link' = link /\ alone' = alone /\ Live' = Live
        BY <1>3 DEF DiscoveryOk, Live
    <2>4. camera'.conn = camera.conn /\ (Cmd[link[h]] # 0 => camera'.cmd = Cmd[link[h]])
        BY <1>1, <1>3 DEF DiscoveryOk, TypeOK
    <2> QED BY <2>2, <2>3, <2>4 DEF AloneInv
<1>4. ASSUME camera' = camera, link' = link, alone' = alone,
             \A g \in Handles : phase'[g] = "ok" => phase[g] = "ok"
      PROVE  AloneInv'
    <2>1. Live' = Live
        BY <1>4 DEF Live
    <2>2. alone \subseteq Handles
        BY <1>1 DEF TypeOK
    <2> QED BY <1>4, <2>1, <2>2 DEF AloneInv
<1>5. ASSUME NEW h \in Handles, Disconnect(h) PROVE AloneInv'
    <2>1. Live' = Live \ {h}
        BY <1>1, <1>5 DEF Disconnect, Live, TypeOK
    <2>2. alone' = alone \ {h} /\ alone \subseteq Handles
        BY <1>1, <1>5 DEF Disconnect, TypeOK
    <2>3. \A g \in alone' : link'[g] = link[g] /\ phase'[g] = phase[g]
        BY <1>1, <1>5, <2>2 DEF Disconnect, TypeOK
    <2>4. camera' = camera
        BY <1>5 DEF Disconnect
    <2> QED BY <2>1, <2>2, <2>3, <2>4 DEF AloneInv
<1>6. ASSUME NEW h \in Handles, Host(h) PROVE AloneInv'
    <2>1. CASE SecurityRequest(h) \/ RepeatPairing(h) \/ DiscoveryFails(h)
        BY <1>1, <1>4, <2>1 DEF SecurityRequest, RepeatPairing, DiscoveryFails, TypeOK
    <2>2. CASE \E starts \in BOOLEAN : EncChange(h, starts)
        BY <1>1, <1>4, <2>2 DEF EncChange, TypeOK
    <2> QED BY <1>2, <1>3, <1>5, <1>6, <2>1, <2>2 DEF Host
<1>7. CASE HostReset
    BY <1>7 DEF HostReset, AloneInv
<1>8. CASE \/ ble_gopro_scan \/ Web \/ (\E d \in Dev : ble_connect(d))
           \/ ble_gap_connect \/ ProcedureEnds \/ UNCHANGED vars
    <2>1. UNCHANGED <<link, alone, phase, camera>>
        BY <1>8 DEF ble_gopro_scan, Web, gopro_write_command, ReadConnection, ReadCommand,
                    WriteNoRsp, ble_connect, ble_gap_connect, ProcedureEnds, vars, hostVars
    <2> QED BY <1>4, <2>1
<1> QED BY <1>6, <1>7, <1>8 DEF Next

(* For any connection limit, a successful discovery of a link that has     *)
(* been the only one since it came up leaves connected_camera naming that  *)
(* link and its command characteristic (assign_command_handle, LINK_ESTAB). *)
THEOREM ReadyWhenAlone == Spec => []ReadyMeansShutter
<1> DEFINE Inv == CentralInv /\ AloneInv
<1>1. Init => Inv
    BY CentralInit DEF Init, AloneInv
<1>2. Inv /\ [Next]_vars => Inv'
    BY CentralStep, AloneStep
<1>3. Inv => ReadyMeansShutter
    <2> SUFFICES ASSUME Inv, NEW h \in alone, phase[h] = "ok", Cmd[link[h]] # 0
                 PROVE  camera = [conn |-> h, cmd |-> Cmd[link[h]]]
        BY DEF ReadyMeansShutter
    <2>1. camera.conn = h /\ camera.cmd = Cmd[link[h]]
        BY DEF AloneInv
    <2> QED BY <2>1 DEF CentralInv, TypeOK
<1> QED BY <1>1, <1>2, <1>3, PTL DEF Spec
=============================================================================
