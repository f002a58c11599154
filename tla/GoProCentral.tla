---------------------------- MODULE GoProCentral ----------------------------
(***************************************************************************)
(* The controller as a BLE central: gap.c (scan, connect, the GAP event    *)
(* handler), the peer list of peer.c, connected_camera, and the two web    *)
(* requests that reach BLE, /startscan and /shutter_start (webServer.c,    *)
(* ble_gopro_scan in ble_gopro.c, gopro_write_command in gatt.c).          *)
(*                                                                         *)
(* Two tasks run: NimBLE's host task, which runs every GAP and GATT        *)
(* callback to its end, and the web server's task.  They share the GAP     *)
(* procedure of NimBLE (one scan or connect at a time, behind its lock)    *)
(* and the global connected_camera, which nothing protects.                *)
(*                                                                         *)
(* External: the radio and the cameras, NimBLE's connections and its       *)
(* security manager.  Discovery is the service DiscoveryService specifies. *)
(***************************************************************************)
EXTENDS Integers, FiniteSets

CONSTANTS
    Dev,        \* the GoPro cameras in range
    NoDev,
    Handles,    \* connection handles the controller may assign
    MaxConn,    \* CONFIG_BT_NIMBLE_MAX_CONNECTIONS, also the blocks of peer_pool
    Cmd         \* Cmd[d]: value handle of d's command characteristic, 0 for none

ASSUME DevAssumption == NoDev \notin Dev
ASSUME HandlesAssumption == Handles \subseteq Nat /\ IsFiniteSet(Handles) /\ 0 \in Handles
ASSUME MaxConnAssumption == MaxConn \in Nat \ {0}
ASSUME CmdAssumption == Cmd \in [Dev -> Nat]

VARIABLES
    op,         \* the GAP procedure in progress: "none", "disc" or "conn"
    target,     \* the camera ble_connect was called for
    hostPc,     \* "cancelled": the host task is in ble_connect, the scan cancelled
    link,       \* link[h]: the camera connected as h, or NoDev
    peers,      \* handles on the peer list
    sm,         \* sm[h]: "idle", or the "enc" or "pair" procedure in progress
    phase,      \* phase[h]: what became of service discovery on the link
    closing,    \* links ble_gap_terminate was called for
    bonds,      \* cameras whose keys are stored
    camera,     \* connected_camera
    http,       \* gopro_write_command in the web server's task
    delivered,  \* the last write that went out on a link
    alone       \* history: the link, if any, that was the only one since it came up

hostVars == <<op, target, hostPc, link, peers, sm, phase, closing, bonds, camera, alone>>
vars == <<hostVars, http, delivered>>

Unread == -1
Live == {h \in Handles : link[h] # NoDev}

-----------------------------------------------------------------------------
(* Web server task.                                                        *)

(* /startscan, ble_gopro_scan: refused when a procedure is in progress,    *)
(* which is only logged.                                                   *)
ble_gopro_scan ==
    /\ op = "none"
    /\ op' = "disc"
    /\ UNCHANGED <<target, hostPc, link, alone, peers, sm, phase, closing, bonds, camera,
                   http, delivered>>

(* /shutter_start, gopro_write_command.  The two fields are read one after *)
(* the other, in the order the compiler chose for the arguments.           *)
gopro_write_command ==
    /\ http.pc = "idle"
    /\ http' = [pc |-> "args", conn |-> Unread, cmd |-> Unread]
    /\ UNCHANGED <<hostVars, delivered>>

ReadConnection ==
    /\ http.pc = "args" /\ http.conn = Unread
    /\ http' = [http EXCEPT !.conn = camera.conn]
    /\ UNCHANGED <<hostVars, delivered>>

ReadCommand ==
    /\ http.pc = "args" /\ http.cmd = Unread
    /\ http' = [http EXCEPT !.cmd = camera.cmd]
    /\ UNCHANGED <<hostVars, delivered>>

(* Mutant of WriteNoRsp: the command handle need not have been read.       *)
WriteNoRspEarly ==
    /\ http.pc = "args" /\ http.conn # Unread
    /\ delivered' = IF link[http.conn] = NoDev THEN delivered
                    ELSE [dev |-> link[http.conn], attr |-> http.cmd]
    /\ http' = [pc |-> "idle", conn |-> Unread, cmd |-> Unread]
    /\ UNCHANGED hostVars

(* ble_gattc_write_no_rsp_flat: goes out on the link of that handle, if    *)
(* there is one; an error is only logged.                                  *)
WriteNoRsp ==
    /\ http.pc = "args" /\ http.conn # Unread /\ http.cmd # Unread
    /\ delivered' = IF link[http.conn] = NoDev THEN delivered
                    ELSE [dev |-> link[http.conn], attr |-> http.cmd]
    /\ http' = [pc |-> "idle", conn |-> Unread, cmd |-> Unread]
    /\ UNCHANGED hostVars

Web == gopro_write_command \/ ReadConnection \/ ReadCommand \/ WriteNoRsp
-----------------------------------------------------------------------------
(* Host task: scanning and connecting.                                     *)

(* DISC for an advertisement of a GoPro: ble_connect cancels the scan.     *)
ble_connect(d) ==
    /\ hostPc = "idle" /\ op = "disc"
    /\ op' = "none"
    /\ hostPc' = "cancelled" /\ target' = d
    /\ UNCHANGED <<link, alone, peers, sm, phase, closing, bonds, camera, http, delivered>>

(* ... and asks for the connection.  NimBLE refuses while a procedure is   *)
(* in progress, without a free connection, for a camera already connected, *)
(* and when the controller does; a refusal is only logged, and the scan is *)
(* not resumed.                                                            *)
Connectable == op = "none" /\ Cardinality(Live) < MaxConn /\ \A h \in Handles : link[h] # target

ble_gap_connect ==
    /\ hostPc = "cancelled"
    /\ hostPc' = "idle"
    /\ \/ Connectable /\ op' = "conn" /\ UNCHANGED target
       \/ target' = NoDev /\ UNCHANGED op
    /\ UNCHANGED <<link, alone, peers, sm, phase, closing, bonds, camera, http, delivered>>

(* Mutant of ProcedureEnds: the scan has no duration.                      *)
ConnectEnds ==
    /\ hostPc = "idle" /\ op = "conn"
    /\ op' = "none" /\ target' = NoDev
    /\ UNCHANGED <<hostPc, link, alone, peers, sm, phase, closing, bonds, camera, http, delivered>>

(* DISC_COMPLETE after 30 s, or the connection attempt ends without a link *)
(* (LINK_ESTAB with an error, or its 30 s are over): both only log.        *)
ProcedureEnds ==
    /\ hostPc = "idle" /\ op # "none"
    /\ op' = "none" /\ target' = NoDev
    /\ UNCHANGED <<hostPc, link, alone, peers, sm, phase, closing, bonds, camera, http, delivered>>

(* ble_gap_security_initiate encrypts with stored keys, else pairs.        *)
SecurityProc(d) == IF d \in bonds THEN "enc" ELSE "pair"

(* LINK_ESTAB.  The handle goes to connected_camera first.  Without a peer *)
(* the handler returns and the link stays; when security cannot start, the *)
(* link is terminated.                                                     *)
LinkEstab(h) ==
    /\ hostPc = "idle" /\ op = "conn" /\ link[h] = NoDev
    /\ op' = "none" /\ target' = NoDev
    /\ link' = [link EXCEPT ![h] = target]
    /\ alone' = IF Live = {} THEN {h} ELSE {}
    /\ camera' = [camera EXCEPT !.conn = h]
    /\ phase' = [phase EXCEPT ![h] = "pending"]
    /\ \/ /\ h \in peers \/ Cardinality(peers) >= MaxConn
          /\ UNCHANGED <<peers, sm, closing>>
       \/ /\ h \notin peers /\ Cardinality(peers) < MaxConn
          /\ peers' = peers \cup {h}
          /\ \/ sm' = [sm EXCEPT ![h] = SecurityProc(target)] /\ UNCHANGED closing
             \/ closing' = closing \cup {h} /\ UNCHANGED sm
    /\ UNCHANGED <<hostPc, bonds, http, delivered>>
-----------------------------------------------------------------------------
(* Host task: security and discovery on a link.                            *)

(* ENC_CHANGE: the security procedure ends, encrypted, paired (the keys    *)
(* are stored), or failed by an error or SM's 30 s timeout.  Whatever the  *)
(* status, peer_disc_all starts discovery; it fails without a peer or when *)
(* the GATT client refuses (starts is FALSE), which is only logged.        *)
EncChange(h, starts) ==
    /\ hostPc = "idle" /\ sm[h] # "idle"
    /\ sm' = [sm EXCEPT ![h] = "idle"]
    /\ \/ sm[h] = "pair" /\ bonds' = bonds \cup {link[h]}
       \/ UNCHANGED bonds
    /\ phase' = [phase EXCEPT ![h] = IF h \in peers /\ starts THEN "running" ELSE "unstarted"]
    /\ UNCHANGED <<op, target, hostPc, link, alone, peers, closing, camera, http, delivered>>

(* The camera asks for security again.  Bound: not while a discovery runs  *)
(* (PeerDiscovery shows what overlapping discoveries do).                  *)
SecurityRequest(h) ==
    /\ hostPc = "idle" /\ link[h] # NoDev /\ sm[h] = "idle" /\ phase[h] # "running"
    /\ sm' = [sm EXCEPT ![h] = SecurityProc(link[h])]
    /\ UNCHANGED <<op, target, hostPc, link, alone, peers, phase, closing, bonds, camera, http, delivered>>

(* REPEAT_PAIRING: the camera pairs although its keys are stored; they are *)
(* deleted and pairing goes on.                                            *)
RepeatPairing(h) ==
    /\ hostPc = "idle" /\ link[h] \in bonds /\ sm[h] = "enc"
    /\ bonds' = bonds \ {link[h]}
    /\ sm' = [sm EXCEPT ![h] = "pair"]
    /\ UNCHANGED <<op, target, hostPc, link, alone, peers, phase, closing, camera, http, delivered>>

(* Mutant of DiscoveryOk: the definition handle is stored.                 *)
DiscoveryOkStoresDef(h) ==
    /\ hostPc = "idle" /\ phase[h] = "running"
    /\ phase' = [phase EXCEPT ![h] = "ok"]
    /\ camera' = IF Cmd[link[h]] = 0 THEN camera ELSE [camera EXCEPT !.cmd = Cmd[link[h]] - 1]
    /\ UNCHANGED <<op, target, hostPc, link, alone, peers, sm, closing, bonds, http, delivered>>

(* Mutant of DiscoveryOk: a handle assigned before is kept.                *)
DiscoveryOkOnce(h) ==
    /\ hostPc = "idle" /\ phase[h] = "running"
    /\ phase' = [phase EXCEPT ![h] = "ok"]
    /\ camera' = IF camera.cmd # 0 THEN camera ELSE [camera EXCEPT !.cmd = Cmd[link[h]]]
    /\ UNCHANGED <<op, target, hostPc, link, alone, peers, sm, closing, bonds, http, delivered>>

(* ble_on_disc_complete with 0: assign_command_handle; a camera without    *)
(* the characteristic leaves the handle as it was.                         *)
DiscoveryOk(h) ==
    /\ hostPc = "idle" /\ phase[h] = "running"
    /\ phase' = [phase EXCEPT ![h] = "ok"]
    /\ camera' = IF Cmd[link[h]] = 0 THEN camera ELSE [camera EXCEPT !.cmd = Cmd[link[h]]]
    /\ UNCHANGED <<op, target, hostPc, link, alone, peers, sm, closing, bonds, http, delivered>>

(* Mutant of DiscoveryFails: the link of a failed discovery is kept.       *)
DiscoveryFailsKeepsLink(h) ==
    /\ hostPc = "idle" /\ phase[h] = "running"
    /\ phase' = [phase EXCEPT ![h] = "failed"]
    /\ UNCHANGED <<op, target, hostPc, link, alone, peers, sm, closing, bonds, camera, http, delivered>>

(* ble_on_disc_complete with an error: ble_gap_terminate.                  *)
DiscoveryFails(h) ==
    /\ hostPc = "idle" /\ phase[h] = "running"
    /\ phase' = [phase EXCEPT ![h] = "failed"]
    /\ closing' = closing \cup {h}
    /\ UNCHANGED <<op, target, hostPc, link, alone, peers, sm, bonds, camera, http, delivered>>

(* Mutant of Disconnect: the peer is not deleted.                          *)
DisconnectKeepsPeer(h) ==
    /\ hostPc = "idle" /\ link[h] # NoDev
    /\ link' = [link EXCEPT ![h] = NoDev]
    /\ alone' = alone \ {h}
    /\ sm' = [sm EXCEPT ![h] = "idle"]
    /\ phase' = [phase EXCEPT ![h] = "none"]
    /\ closing' = closing \ {h}
    /\ UNCHANGED <<op, target, hostPc, peers, bonds, camera, http, delivered>>

(* DISCONNECT: peer_delete; connected_camera keeps both handles.  NimBLE   *)
(* ends the security procedure and discovery first; what their callbacks   *)
(* start ends with the link.                                               *)
Disconnect(h) ==
    /\ hostPc = "idle" /\ link[h] # NoDev
    /\ link' = [link EXCEPT ![h] = NoDev]
    /\ alone' = alone \ {h}
    /\ peers' = peers \ {h}
    /\ sm' = [sm EXCEPT ![h] = "idle"]
    /\ phase' = [phase EXCEPT ![h] = "none"]
    /\ closing' = closing \ {h}
    /\ UNCHANGED <<op, target, hostPc, bonds, camera, http, delivered>>

(* The BLE host resets (blecent_on_reset only logs): NimBLE breaks every   *)
(* connection, reporting DISCONNECT for each, and ends its GAP procedure.  *)
HostReset ==
    /\ hostPc = "idle"
    /\ op' = "none" /\ target' = NoDev
    /\ link' = [h \in Handles |-> NoDev]
    /\ alone' = {}
    /\ peers' = peers \ Live
    /\ sm' = [h \in Handles |-> "idle"]
    /\ phase' = [h \in Handles |-> "none"]
    /\ closing' = {}
    /\ UNCHANGED <<hostPc, bonds, camera, http, delivered>>
-----------------------------------------------------------------------------
Init ==
    /\ op = "none" /\ target = NoDev /\ hostPc = "idle"
    /\ link = [h \in Handles |-> NoDev]
    /\ peers = {} /\ closing = {} /\ alone = {} /\ bonds \in SUBSET Dev
    /\ sm = [h \in Handles |-> "idle"]
    /\ phase = [h \in Handles |-> "none"]
    /\ camera = [conn |-> 0, cmd |-> 0]
    /\ http = [pc |-> "idle", conn |-> Unread, cmd |-> Unread]
    /\ delivered = [dev |-> NoDev, attr |-> 0]

Host(h) ==
    \/ LinkEstab(h) \/ SecurityRequest(h) \/ RepeatPairing(h)
    \/ \E starts \in BOOLEAN : EncChange(h, starts)
    \/ DiscoveryOk(h) \/ DiscoveryFails(h) \/ Disconnect(h)

Next ==
    \/ ble_gopro_scan \/ Web
    \/ \E d \in Dev : ble_connect(d)
    \/ ble_gap_connect \/ ProcedureEnds \/ HostReset
    \/ \E h \in Handles : Host(h)

(* Scans, connection attempts and security procedures have timeouts of     *)
(* 30 s; discovery reports (PeerDiscovery, DiscoveryEnds); a terminated    *)
(* link goes down.  The host task takes these events from a queue in order *)
(* of arrival, so one that waits is handled even if ble_connect keeps the  *)
(* task busy again and again.                                              *)
Fairness ==
    /\ WF_vars(ble_gap_connect) /\ SF_vars(ProcedureEnds)
    /\ \A h \in Handles :
         /\ SF_vars(\E starts \in BOOLEAN : EncChange(h, starts))
         /\ SF_vars(DiscoveryOk(h) \/ DiscoveryFails(h))
         /\ SF_vars(h \in closing /\ Disconnect(h))

Spec == Init /\ [][Next]_vars /\ Fairness
-----------------------------------------------------------------------------
(* Properties.                                                             *)

(* The type of every variable.                                             *)
TypeOK ==
    /\ op \in {"none", "disc", "conn"}
    /\ target \in Dev \cup {NoDev}
    /\ hostPc \in {"idle", "cancelled"}
    /\ link \in [Handles -> Dev \cup {NoDev}]
    /\ peers \in SUBSET Handles
    /\ sm \in [Handles -> {"idle", "enc", "pair"}]
    /\ phase \in [Handles -> {"none", "pending", "running", "unstarted", "ok", "failed"}]
    /\ closing \in SUBSET Handles /\ alone \in SUBSET Handles
    /\ bonds \in SUBSET Dev
    /\ camera \in [conn : Handles, cmd : Nat]
    /\ http \in [pc : {"idle", "args"}, conn : Handles \cup {Unread}, cmd : Nat \cup {Unread}]
    /\ delivered \in [dev : Dev \cup {NoDev}, attr : Nat]

(* The peer list mirrors the connections: LINK_ESTAB never finds the pool  *)
(* empty or the handle taken, and DISCONNECT leaves no stale peer (gap.c,  *)
(* the cases LINK_ESTAB and DISCONNECT; peer_add, peer_delete).            *)
PeersMirrorLinks == peers = Live

(* The values connected_camera.command_handle can take.                    *)
KnownHandles == {0} \cup {Cmd[d] : d \in Dev}

(* The handle in connected_camera, in an argument of a write under way or  *)
(* in the last write is one some camera has for its command characteristic *)
(* or the 0 of before the first discovery (assign_command_handle and       *)
(* gopro_write_command, across disconnections and other cameras).          *)
HandlesKnown ==
    /\ camera.cmd \in KnownHandles
    /\ http.cmd \in KnownHandles \cup {Unread}
    /\ delivered.attr \in KnownHandles

(* A shutter command is written to the command characteristic of the       *)
(* camera it reaches, or, before any discovery, to the invalid handle 0    *)
(* (ble_gopro.h:43, gopro_write_command).                                  *)
ShutterHitsCommand ==
    delivered.dev # NoDev => delivered.attr \in {0, Cmd[delivered.dev]}

(* For any connection limit: once discovery succeeded on a link that has   *)
(* been the only one since it came up, connected_camera names that link    *)
(* and its command characteristic, whatever cameras were connected before, *)
(* together or in turn (assign_command_handle, LINK_ESTAB).                *)
ReadyMeansShutter ==
    \A h \in alone :
        phase[h] = "ok" /\ Cmd[link[h]] # 0 => camera = [conn |-> h, cmd |-> Cmd[link[h]]]

(* Every connection comes to an end gap.c knows of: its discovery succeeds *)
(* or is refused, or the link goes down; none stays half set up.           *)
LinkResolves ==
    \A h \in Handles :
        link[h] # NoDev ~> link[h] = NoDev \/ phase[h] \in {"ok", "unstarted"}

(* A scan or a connection attempt never blocks the next request for good:  *)
(* the GAP procedure becomes free again.                                   *)
ProcedureFrees == op # "none" ~> op = "none" /\ hostPc = "idle"
=============================================================================
