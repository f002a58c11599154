---------------------------- MODULE PeerDiscovery ----------------------------
(***************************************************************************)
(* GATT discovery of one connected camera:                                 *)
(*   components/ble_gopro/peer.c (the peer object, its lists and pools),   *)
(*   gap.c ble_on_disc_complete and its ENC_CHANGE and DISCONNECT cases,   *)
(*   gatt.c subscribe_to_characteristics and assign_command_handle.        *)
(*                                                                         *)
(* Every peer_disc_all starts a chain: discover all services, then the     *)
(* characteristics of one service after the other, then the descriptors of *)
(* one characteristic after the other, each procedure started in the       *)
(* callback that ends the one before.  The procedures themselves (NimBLE's *)
(* GATT client and the camera) are external: they report, one at a time    *)
(* and in handle order, the attributes of their range, then BLE_HS_EDONE,  *)
(* or they fail at any point.                                              *)
(***************************************************************************)
EXTENDS PeerTable

CONSTANTS
    Tables,       \* the attribute tables a camera may have
    MaxSvcs,      \* blocks in peer_svc_pool
    MaxChrs,      \* blocks in peer_chr_pool
    MaxDscs,      \* blocks in peer_dsc_pool
    GattProcs,    \* procedures the GATT client can run at a time
    MaxChains,    \* bound: ENC_CHANGE events in the life of a link
    Overlap       \* whether one may arrive while a discovery is running

(* A handle has 16 bits.                                                   *)
MaxHandle == 65535

ASSUME TablesAssumption ==
    /\ Tables # {}
    /\ \A t \in Tables : t \in Seq(AttrTypes) /\ WellFormed(t) /\ Len(t) <= MaxHandle
ASSUME PoolAssumption == {MaxSvcs, MaxChrs, MaxDscs, GattProcs, MaxChains} \subseteq Nat \ {0}
ASSUME OverlapAssumption == Overlap \in BOOLEAN

VARIABLES
    table,        \* the connected camera's attributes, <<>> without a link
    link,         \* "down", "up", "closing" once ble_gap_terminate was called,
                  \* or "aborted" once an assert stopped the program
    svcs,         \* peer->svcs, a list of services with their chrs and dscs
    prev,         \* peer->disc_prev_chr_val
    cur,          \* peer->cur_svc: the service's start handle, and whether it was freed
    used,         \* blocks taken from the three pools
    chain,        \* chain[c]: the GATT procedure chain c waits for
    outcome,      \* outcome[c]: what became of chain c
    cccd,         \* the values sent to the camera's CCCDs, by handle, 0 for none
    command       \* connected_camera.command_handle

vars == <<table, link, svcs, prev, cur, used, chain, outcome, cccd, command>>

Chains == 1..MaxChains

Idle == [step |-> "none", at |-> 0, end |-> 0, val |-> 0]
Proc(step, at, end, val) == [step |-> step, at |-> at, end |-> end, val |-> val]

BLE_GATT_CHR_PROP_NOTIFY == 16

-----------------------------------------------------------------------------
(* Lists.  A list is searched by its keys: the start handles of services,  *)
(* the value handles of characteristics, the handles of descriptors.       *)

svc_keys == [i \in DOMAIN svcs |-> svcs[i].start]
(* Mutant of chr_keys: characteristics keyed by their definition handle.   *)
chr_keys_by_def(i) == [j \in DOMAIN svcs[i].chrs |-> svcs[i].chrs[j].def]

chr_keys(i) == [j \in DOMAIN svcs[i].chrs |-> svcs[i].chrs[j].val]

(* peer_*_find_prev: the position of the last element before the first     *)
(* whose key is at least h, 0 for NULL.                                    *)
find_prev(keys, h) ==
    CHOOSE p \in 0..Len(keys) : /\ \A j \in 1..p : keys[j] < h
                                /\ p < Len(keys) => keys[p+1] >= h

Holds(keys, h) == LET p == find_prev(keys, h) IN p < Len(keys) /\ keys[p+1] = h

(* SLIST_INSERT_HEAD or SLIST_INSERT_AFTER.                                *)
Insert(list, p, e) == InsertAt(list, p + 1, e)

(* SLIST_INSERT_HEAD, or SLIST_NEXT(prev, next) = e: what followed prev is *)
(* no longer linked.                                                       *)
Link(list, p, e) == IF p = 0 THEN <<e>> \o list ELSE Append(SubSeq(list, 1, p), e)

(* Mutant of chr_end_handle: one handle too far.                           *)
chr_end_handle_past(svc, j) ==
    IF j < Len(svc.chrs) THEN svc.chrs[j+1].def ELSE svc.end

chr_end_handle(svc, j) ==
    IF j < Len(svc.chrs) THEN svc.chrs[j+1].def - 1 ELSE svc.end

chr_is_empty(svc, j) == chr_end_handle(svc, j) <= svc.chrs[j].val

peer_svc_is_empty(svc) == svc.end <= svc.start

Capacity == [svc |-> MaxSvcs, chr |-> MaxChrs, dsc |-> MaxDscs]

(* The positions of the characteristics of a service list.                 *)
Positions(list) == UNION {{i} \X DOMAIN list[i].chrs : i \in DOMAIN list}

(* The first of a set of positions in list order.                          *)
First(P) == CHOOSE p \in P : \A q \in P : p[1] < q[1] \/ (p[1] = q[1] /\ p[2] <= q[2])

(* The positions of their descriptors.                                     *)
DscPositions(list) ==
    UNION {{p} \X DOMAIN list[p[1]].chrs[p[2]].dscs : p \in Positions(list)}

(* Blocks of the three pools reachable from a service list.                *)
Blocks(list) ==
    [svc |-> Len(list),
     chr |-> Cardinality(Positions(list)),
     dsc |-> Cardinality(DscPositions(list))]

(* Mutant of Available: one block more than the pool has.                  *)
AvailableOffByOne(pool) == used[pool] <= Capacity[pool]

(* os_memblock_get finds a free block in the pool.                         *)
Available(pool) == used[pool] < Capacity[pool]

(* Mutant of Released: the services' own lists are not freed.              *)
ReleasedServicesOnly == [used EXCEPT !.svc = @ - Len(svcs)]

(* peer_svc_delete of every service: its blocks go back to the pools.      *)
Released == [p \in DOMAIN used |-> used[p] - Blocks(svcs)[p]]

Running == {c \in Chains : outcome[c] = "running"}
-----------------------------------------------------------------------------
(* The end of a chain.  Only a chain's own callbacks end it; prev' is left *)
(* to the caller.                                                          *)

(* Mutant of Fail: the link of a failed discovery is kept.                 *)
FailKeepsLink(c) ==
    /\ outcome' = [outcome EXCEPT ![c] = "failed"]
    /\ chain' = [chain EXCEPT ![c] = Idle]
    /\ UNCHANGED <<link, cccd, command>>

(* Mutant of Fail: the error code is lost on the way to disc_cb.           *)
FailReportsOk(c) ==
    /\ outcome' = [outcome EXCEPT ![c] = "ok"]
    /\ chain' = [chain EXCEPT ![c] = Idle]
    /\ UNCHANGED <<link, cccd, command>>

(* peer_disc_complete with an error: ble_on_disc_complete closes the link. *)
Fail(c) ==
    /\ outcome' = [outcome EXCEPT ![c] = "failed"]
    /\ chain' = [chain EXCEPT ![c] = Idle]
    /\ link' = "closing"
    /\ UNCHANGED <<cccd, command>>

(* The CCCDs subscribe_to_characteristics writes: every CCCD of every      *)
(* notifying characteristic of the GoPro service, in list order, which is  *)
(* handle order.                                                           *)
subscribe_handles ==
    {h \in DOMAIN table :
        /\ table[h] = "cccd"
        /\ \E i \in DOMAIN svcs : \E j \in DOMAIN svcs[i].chrs :
             /\ table[svcs[i].start] = "gopro"
             /\ table[svcs[i].chrs[j].def] = "notify"
             /\ h \in Range(svcs[i].chrs[j].dscs)}

(* Each write needs a GATT procedure; the discovery procedures still hold  *)
(* theirs, the one calling back included.  A refused write is only logged; *)
(* what the camera says of one that was sent has no callback.              *)
subscribe_to_characteristics ==
    LET free == GattProcs - Cardinality(Running)
        accepted == {h \in subscribe_handles :
                       Cardinality({g \in subscribe_handles : g <= h}) <= free}
    IN  cccd' = [h \in DOMAIN cccd |->
                   IF h \in accepted THEN BLE_GATT_CHR_PROP_NOTIFY ELSE cccd[h]]

(* Mutant of assign_command_handle: the definition handle is stored.       *)
assign_definition_handle ==
    LET hits == {p \in Positions(svcs) : table[svcs[p[1]].chrs[p[2]].def] = "cmd"}
        at == First(hits)
    IN  command' = IF hits = {} THEN command ELSE svcs[at[1]].chrs[at[2]].def

(* The first command characteristic in list order; none leaves the handle. *)
assign_command_handle ==
    LET hits == {p \in Positions(svcs) : table[svcs[p[1]].chrs[p[2]].def] = "cmd"}
        at == First(hits)
    IN  command' = IF hits = {} THEN command ELSE svcs[at[1]].chrs[at[2]].val

(* peer_disc_complete with 0.                                              *)
Succeed(c) ==
    /\ subscribe_to_characteristics
    /\ assign_command_handle
    /\ outcome' = [outcome EXCEPT ![c] = "ok"]
    /\ chain' = [chain EXCEPT ![c] = Idle]
    /\ UNCHANGED link

(* A procedure of NimBLE's GATT client is started and waits for answers.   *)
Start(c, proc) ==
    /\ chain' = [chain EXCEPT ![c] = proc]
    /\ UNCHANGED <<link, outcome, cccd, command>>

(* EDONE with disc_prev_chr_val = 0: the chain stops, nobody is told.      *)
Drop(c) ==
    /\ Start(c, Idle)
    /\ UNCHANGED <<prev, cur>>
-----------------------------------------------------------------------------
(* The next procedure of a chain.  starts says whether the GATT client     *)
(* takes it; when it has no procedure or buffer left, it refuses.          *)

(* Mutant of undiscovered_chrs: disc_prev_chr_val is not consulted.        *)
undiscovered_chrs_from_start ==
    {p \in Positions(svcs) :
        /\ ~chr_is_empty(svcs[p[1]], p[2])
        /\ svcs[p[1]].chrs[p[2]].dscs = <<>>}

(* Positions of the characteristics peer_disc_dscs has yet to visit.       *)
undiscovered_chrs ==
    {p \in Positions(svcs) :
        LET svc == svcs[p[1]]
        IN  /\ ~chr_is_empty(svc, p[2])
            /\ svc.chrs[p[2]].dscs = <<>>
            /\ prev <= svc.chrs[p[2]].def}

peer_disc_dscs(c, starts) ==
    /\ UNCHANGED cur
    /\ IF undiscovered_chrs = {}
       THEN Succeed(c) /\ prev' = 0
       ELSE LET at == First(undiscovered_chrs)
                svc == svcs[at[1]]
                chr == svc.chrs[at[2]]
            IN  /\ prev' = chr.val
                /\ IF starts
                   THEN Start(c, Proc("dsc", chr.val + 1, chr_end_handle(svc, at[2]), chr.val))
                   ELSE Fail(c)

(* Mutant of undiscovered_svcs: services with characteristics qualify.     *)
undiscovered_svcs_again == {i \in DOMAIN svcs : ~peer_svc_is_empty(svcs[i])}

undiscovered_svcs == {i \in DOMAIN svcs : ~peer_svc_is_empty(svcs[i]) /\ svcs[i].chrs = <<>>}

peer_disc_chrs(c, starts) ==
    IF undiscovered_svcs = {}
    THEN peer_disc_dscs(c, starts)
    ELSE LET svc == svcs[Min(undiscovered_svcs)]
         IN  /\ cur' = [start |-> svc.start, freed |-> FALSE]
             /\ IF starts
                THEN Start(c, Proc("chr", svc.start, svc.end, 0)) /\ UNCHANGED prev
                ELSE Fail(c) /\ prev' = 0
-----------------------------------------------------------------------------
(* The link.                                                               *)

(* LINK_ESTAB: peer_add takes a zeroed peer.                               *)
Connect ==
    /\ link = "down"
    /\ \E t \in Tables : table' = t /\ cccd' = [h \in DOMAIN t |-> 0]
    /\ link' = "up"
    /\ svcs' = <<>> /\ prev' = 0 /\ cur' = [start |-> 0, freed |-> FALSE]
    /\ chain' = [c \in Chains |-> Idle]
    /\ outcome' = [c \in Chains |-> "none"]
    /\ UNCHANGED <<used, command>>

(* The link breaks.  NimBLE ends every procedure with an error, so every   *)
(* running chain completes with one, then reports DISCONNECT, and          *)
(* peer_delete frees the lists.                                            *)
Disconnect ==
    /\ link \in {"up", "closing"}
    /\ link' = "down"
    /\ outcome' = [c \in Chains |-> IF chain[c] # Idle THEN "failed" ELSE outcome[c]]
    /\ chain' = [c \in Chains |-> Idle]
    /\ used' = Released
    /\ svcs' = <<>> /\ table' = <<>> /\ cccd' = <<>>
    /\ prev' = 0 /\ cur' = [start |-> 0, freed |-> FALSE]
    /\ UNCHANGED command

(* Mutant of Undiscover: disc_prev_chr_val keeps its 0.                    *)
UndiscoverKeepsPrev ==
    /\ svcs' = <<>> /\ used' = Released
    /\ cur' = [cur EXCEPT !.freed = cur.start # 0]
    /\ UNCHANGED prev

(* Mutant of Undiscover: freed services stay on the list.                  *)
UndiscoverKeepsList ==
    /\ used' = Released
    /\ prev' = 1
    /\ cur' = [cur EXCEPT !.freed = cur.start # 0]
    /\ UNCHANGED svcs

(* "Undiscover everything first."                                          *)
Undiscover ==
    /\ svcs' = <<>> /\ used' = Released
    /\ prev' = 1
    /\ cur' = [cur EXCEPT !.freed = cur.start # 0]

(* ENC_CHANGE: peer_disc_all undiscovers everything and starts over.  When *)
(* the procedure cannot be started, the error is only logged.              *)
peer_disc_all ==
    /\ link \in {"up", "closing"}
    /\ Overlap \/ Running = {}
    /\ \E c \in Chains :
         /\ outcome[c] = "none" /\ \A d \in 1..(c-1) : outcome[d] # "none"
         /\ Undiscover
         /\ \/ /\ chain' = [chain EXCEPT ![c] = Proc("svc", 1, Len(table), 0)]
               /\ outcome' = [outcome EXCEPT ![c] = "running"]
            \/ /\ outcome' = [outcome EXCEPT ![c] = "unstarted"]
               /\ UNCHANGED chain
    /\ UNCHANGED <<table, link, cccd, command>>
-----------------------------------------------------------------------------
(* Answers of the GATT client.  Reported(c) is what is left of the range   *)
(* of chain c's procedure.                                                 *)

Reported(c) ==
    {h \in chain[c].at..chain[c].end :
        \/ chain[c].step = "svc" /\ h \in Services(table)
        \/ chain[c].step = "chr" /\ table[h] \in ChrTypes
        \/ chain[c].step = "dsc" /\ table[h] # "gap"}

(* The answer is taken and the procedure goes on.                          *)
Taken(c, next) ==
    /\ chain' = [chain EXCEPT ![c].at = next]
    /\ UNCHANGED <<link, outcome, cccd, command, prev>>

(* The pool is empty: peer_*_add returns ENOMEM, which aborts the chain.   *)
OutOfMemory(c) ==
    /\ Fail(c) /\ prev' = 0
    /\ UNCHANGED <<svcs, used>>

(* peer_*_add runs into an assert(0).                                      *)
AssertFails ==
    /\ link' = "aborted"
    /\ chain' = [d \in Chains |-> Idle]
    /\ UNCHANGED <<svcs, used, outcome, cccd, command, prev>>

peer_svc_disced(c) ==
    /\ chain[c].step = "svc" /\ Reported(c) # {}
    /\ LET s == Min(Reported(c))
           e == SvcEnd(table, s)
           svc == [start |-> s, end |-> e, chrs |-> <<>>]
       IN  \/ /\ Holds(svc_keys, s)
              /\ Taken(c, e + 1)
              /\ UNCHANGED <<svcs, used>>
           \/ /\ ~Holds(svc_keys, s) /\ Available("svc")
              /\ svcs' = Insert(svcs, find_prev(svc_keys, s), svc)
              /\ used' = [used EXCEPT !.svc = @ + 1]
              /\ Taken(c, e + 1)
           \/ ~Holds(svc_keys, s) /\ ~Available("svc") /\ OutOfMemory(c)
    /\ UNCHANGED <<table, cur>>

peer_svc_done(c, starts) ==
    /\ chain[c].step = "svc" /\ Reported(c) = {}
    /\ IF prev > 0 THEN peer_disc_chrs(c, starts) ELSE Drop(c)
    /\ UNCHANGED <<table, svcs, used>>

(* The start handle read through cur_svc: a freed block keeps it until the *)
(* pool hands the block to another service.                                *)
CurStart == {cur.start} \cup (IF cur.freed THEN Range(svc_keys) ELSE {})

(* The duplicate test looks a definition handle up among value handles.    *)
peer_chr_disced(c) ==
    /\ chain[c].step = "chr" /\ Reported(c) # {}
    /\ LET d == Min(Reported(c))
           chr == [def |-> d, val |-> d + 1, dscs |-> <<>>]
       IN  \E start \in CurStart :
             LET i == find_prev(svc_keys, start) + 1
                 keys == chr_keys(i)
                 known == Holds(keys, d)
             IN  \/ ~Holds(svc_keys, start) /\ AssertFails
                 \/ /\ Holds(svc_keys, start) /\ (known \/ Available("chr"))
                    /\ svcs' = IF known THEN svcs
                               ELSE [svcs EXCEPT ![i].chrs = Link(@, find_prev(keys, d), chr)]
                    /\ used' = IF known THEN used ELSE [used EXCEPT !.chr = @ + 1]
                    /\ Taken(c, d + 2)
                 \/ /\ Holds(svc_keys, start) /\ ~known /\ ~Available("chr")
                    /\ OutOfMemory(c)
    /\ UNCHANGED <<table, cur>>

peer_chr_done(c, starts) ==
    /\ chain[c].step = "chr" /\ Reported(c) = {}
    /\ IF prev > 0 THEN peer_disc_chrs(c, starts) ELSE Drop(c)
    /\ UNCHANGED <<table, svcs, used>>

(* peer_svc_find_range: the services that span a handle.                   *)
svc_range(h) == {i \in DOMAIN svcs : svcs[i].start <= h /\ h <= svcs[i].end}

peer_dsc_disced(c) ==
    /\ chain[c].step = "dsc" /\ Reported(c) # {}
    /\ LET h == Min(Reported(c))
           val == chain[c].val
           i == Min(svc_range(val))
           j == find_prev(chr_keys(i), val) + 1
           dscs == svcs[i].chrs[j].dscs
           known == svc_range(val) # {} /\ Holds(chr_keys(i), val)
       IN  \/ ~known /\ AssertFails
           \/ /\ known /\ Holds(dscs, h)
              /\ Taken(c, h + 1)
              /\ UNCHANGED <<svcs, used>>
           \/ /\ known /\ ~Holds(dscs, h) /\ Available("dsc")
              /\ svcs' = [svcs EXCEPT ![i].chrs[j].dscs = Link(@, find_prev(dscs, h), h)]
              /\ used' = [used EXCEPT !.dsc = @ + 1]
              /\ Taken(c, h + 1)
           \/ known /\ ~Holds(dscs, h) /\ ~Available("dsc") /\ OutOfMemory(c)
    /\ UNCHANGED <<table, cur>>

peer_dsc_done(c, starts) ==
    /\ chain[c].step = "dsc" /\ Reported(c) = {}
    /\ IF prev > 0 THEN peer_disc_dscs(c, starts) ELSE Drop(c)
    /\ UNCHANGED <<table, svcs, used, cur>>

(* The procedure fails: an ATT error, or no answer within ATT's timeout.   *)
ProcError(c) ==
    /\ chain[c] # Idle
    /\ Fail(c) /\ prev' = 0
    /\ UNCHANGED <<table, svcs, cur, used>>

Answer(c, starts) ==
    \/ peer_svc_disced(c) \/ peer_svc_done(c, starts)
    \/ peer_chr_disced(c) \/ peer_chr_done(c, starts)
    \/ peer_dsc_disced(c) \/ peer_dsc_done(c, starts)
-----------------------------------------------------------------------------
Init ==
    /\ table = <<>> /\ link = "down" /\ svcs = <<>> /\ cccd = <<>>
    /\ prev = 0 /\ cur = [start |-> 0, freed |-> FALSE]
    /\ used = [svc |-> 0, chr |-> 0, dsc |-> 0]
    /\ chain = [c \in Chains |-> Idle]
    /\ outcome = [c \in Chains |-> "none"]
    /\ command = 0

Next ==
    \/ Connect \/ Disconnect \/ peer_disc_all
    \/ \E c \in Chains : ProcError(c) \/ \E starts \in BOOLEAN : Answer(c, starts)

(* Every procedure gets its answers, or its error from ATT's 30 s timeout; *)
(* nothing obliges the GATT client to refuse one.  A link that is being    *)
(* terminated goes down.                                                   *)
Fairness ==
    /\ \A c \in Chains : WF_vars(Answer(c, TRUE))
    /\ WF_vars(link = "closing" /\ Disconnect)

Spec == Init /\ [][Next]_vars /\ Fairness
-----------------------------------------------------------------------------
(* Properties.                                                             *)

Handle == 0..MaxHandle
ChrList == Seq([def : Handle, val : Handle, dscs : Seq(Handle)])
SvcList == Seq([start : Handle, end : Handle, chrs : ChrList])

(* The type of every variable.                                             *)
TypeOK ==
    /\ table \in Tables \cup {<<>>}
    /\ link \in {"down", "up", "closing", "aborted"} /\ (link = "down" <=> table = <<>>)
    /\ svcs \in SvcList
    /\ prev \in Handle
    /\ cur \in [start : Handle, freed : BOOLEAN]
    /\ used \in [svc : 0..MaxSvcs, chr : 0..MaxChrs, dsc : 0..MaxDscs]
    /\ chain \in [Chains -> [step : {"none", "svc", "chr", "dsc"}, at : 0..(MaxHandle + 1),
                             end : Handle, val : Handle]]
    /\ outcome \in [Chains -> {"none", "unstarted", "running", "ok", "failed"}]
    /\ DOMAIN cccd = DOMAIN table /\ \A h \in DOMAIN cccd : cccd[h] \in Handle
    /\ command \in Handle

Started(c) == outcome[c] # "none" /\ \A d \in Chains : d > c => outcome[d] = "none"
Discovered == link # "down" /\ \E c \in Chains : Started(c) /\ outcome[c] = "ok"

(* When peer_disc_complete reports 0 for the latest discovery, the peer's  *)
(* lists hold exactly what the camera has: every service, characteristic   *)
(* and descriptor once, in handle order (peer.c, all of peer_*_disced).    *)
MirrorOnComplete == Discovered => svcs = Mirror(table)

(* After a reported success the shutter has its characteristic, if the     *)
(* camera has one, and no notification source of the GoPro service was     *)
(* left out, if the GATT client has procedures for all writes (gatt.c      *)
(* subscribe_to_characteristics, assign_command_handle).                   *)
OkIsUsable ==
    Discovered =>
        /\ CommandVals(table) # {} => command = Min(CommandVals(table))
        /\ Cardinality(NotifyCccds(table)) < GattProcs
             => \A h \in NotifyCccds(table) : cccd[h] # 0

(* Unless an assert stopped the program, a discovery that has not been     *)
(* reported is still driven: a procedure waits for answers on its behalf,  *)
(* and disc_prev_chr_val does not make the callbacks drop it (peer.c, the  *)
(* tests of disc_prev_chr_val > 0).                                        *)
RunningIsDriven ==
    \A c \in Chains :
        outcome[c] = "running" /\ link # "aborted" => chain[c] # Idle /\ prev > 0

(* Every block taken from the three pools is on the peer's lists, so       *)
(* peer_delete and the next peer_disc_all give all of them back.           *)
NoLeak == used = Blocks(svcs)

(* Deleting a list never gives back more blocks than were taken, even when *)
(* overlapping discoveries share the peer's lists (peer_svc_delete).       *)
NoDoubleFree == \A p \in DOMAIN used : used[p] >= Blocks(svcs)[p]

(* The asserts marked "this shouldn't happen" in peer_chr_add and          *)
(* peer_dsc_add are never reached.                                         *)
NoAssertFailure == link # "aborted"

(* No characteristic is on a service's list twice ("Characteristic already *)
(* discovered", peer_chr_add).                                             *)
NoDuplicateChr ==
    \A i \in DOMAIN svcs :
        \A j, k \in DOMAIN svcs[i].chrs :
            svcs[i].chrs[j].def = svcs[i].chrs[k].def => j = k

(* The value written "to the CCCD to enable notifications" (gatt.c) has    *)
(* the bit that enables them, bit 0 of a CCCD.                             *)
NotificationsEnabled == \A h \in DOMAIN cccd : cccd[h] # 0 => cccd[h] % 2 = 1

(* Every discovery that starts is reported: it succeeds, fails, or fails   *)
(* with its link.                                                          *)
DiscoveryEnds ==
    \A c \in Chains : outcome[c] = "running" ~> outcome[c] # "running"

(* A link whose discovery failed goes down, so that the camera is not kept *)
(* half discovered (ble_on_disc_complete).                                 *)
FailedLinkGoesDown ==
    \A c \in Chains : outcome[c] = "failed" ~> link \in {"down", "aborted"}

(* How far a discovery has come: which of the three lists it is filling,   *)
(* the end of the range it searches, and the handle it expects next.       *)
Phases == [svc |-> 1, chr |-> 2, dsc |-> 3]
Place(c) == <<Phases[chain[c].step], chain[c].end, chain[c].at>>

Further(p, q) ==
    \/ q[1] > p[1]
    \/ q[1] = p[1] /\ q[2] > p[2]
    \/ q[1] = p[1] /\ q[2] = p[2] /\ q[3] > p[3]

(* A discovery never goes back to what it has searched, although           *)
(* peer_disc_chrs and peer_disc_dscs look for the next range from the      *)
(* start of the lists every time: a step that moves its procedure ends it  *)
(* or takes it further.                                                    *)
NeverReturns ==
    [][\A c \in Chains :
         chain[c] # Idle /\ chain'[c] # Idle /\ chain'[c] # chain[c]
           => Further(Place(c), Place(c)')]_vars

(* The discovery that a reader of the peer sees: the latest chain's.       *)
Phase ==
    IF link = "down" THEN "down"
    ELSE IF \A c \in Chains : outcome[c] = "none" THEN "idle"
    ELSE outcome[CHOOSE c \in Chains : Started(c)]

Service == INSTANCE DiscoveryService WITH
               camera <- table,
               phase <- Phase,
               view <- IF Phase = "ok" THEN svcs ELSE <<>>

(* While discoveries do not overlap, peer.c implements the abstract        *)
(* service: it reports every discovery, and success means the whole table. *)
ImplementsService == Service!Spec
=============================================================================
