------------------------- MODULE PeerOutcomeProofs --------------------------
(***************************************************************************)
(* What becomes of a discovery, for any attribute tables, pools and        *)
(* bounds, as long as discoveries do not overlap.  Of a success: gatt.c    *)
(* has found the command characteristic and asked for every notification.  *)
(* On the way there: nothing is searched twice, and only a barren service  *)
(* can keep the discovery where it is.                                     *)
(***************************************************************************)
EXTENDS PeerMirrorProofs

(* Every characteristic of a table belongs to a service.                   *)
LEMMA ChrHasService ==
    ASSUME NEW t \in Seq(AttrTypes), WellFormed(t), NEW d \in DOMAIN t, t[d] \in ChrTypes
    PROVE  \E s \in Services(t) : d \in Chrs(t, s)
<1> DEFINE S == {s \in Services(t) : s <= d}
<1>1. DOMAIN t = 1..Len(t) /\ Len(t) \in Nat /\ d \in 1..Len(t) /\ Services(t) \subseteq 1..Len(t)
    BY LenProperties DEF Services
<1>2. 1 \in S
    BY <1>1 DEF WellFormed, Services
<1>3. S \subseteq 0..d /\ S # {} /\ d \in Nat
    BY <1>1, <1>2
<1>4. Max(S) \in S /\ \A s \in S : Max(S) >= s
    <2> HIDE DEF S
    <2> QED BY <1>3, MaxIsIn
<1>5. PICK m \in S : \A s \in S : m >= s
    BY <1>4
<1>6. m \in Services(t) /\ m <= d /\ m \in Nat /\ m \in DOMAIN t
    BY <1>1
<1>7. \A h \in (m + 1)..d : h \notin Services(t)
    BY <1>1, <1>5, <1>6
<1> HIDE DEF S
<1>8. d \in m..Len(t)
    BY <1>1, <1>6
<1>9. d <= SvcEnd(t, m) /\ SvcEnd(t, m) \in m..Len(t)
    BY <1>6, <1>7, <1>8, SvcEndIs
<1>10. d \in m..SvcEnd(t, m)
    BY <1>1, <1>6, <1>9
<1> QED BY <1>6, <1>10 DEF Chrs
-----------------------------------------------------------------------------
(* The command handle.                                                     *)

LEMMA CommandIsFound ==
    ASSUME Types, table \in Tables \cup {<<>>}, ListsInOrder, AllFound,
           assign_command_handle, CommandVals(table) # {}
    PROVE  command' = Min(CommandVals(table))
<1> DEFINE hits == {p \in Positions(svcs) : table[svcs[p[1]].chrs[p[2]].def] = "cmd"}
           at == First(hits)
           vals == CommandVals(table)
<1>1. /\ table \in Seq(AttrTypes) /\ DOMAIN table = 1..Len(table) /\ Len(table) \in Nat
      /\ svcs \in Seq(Svc)
    BY LenProperties DEF Types
<1>2. WellFormed(table)
    <2>1. table # <<>>
        BY <1>1 DEF CommandVals
    <2> QED BY <2>1, TablesAssumption
<1>3. vals \subseteq Nat
    BY <1>1 DEF CommandVals
<1>4. ASSUME NEW v \in vals
      PROVE  \E p \in hits : svcs[p[1]].chrs[p[2]].val = v
    <2>1. v \in 1..Len(table) /\ v > 1 /\ table[v - 1] = "cmd"
        BY <1>1 DEF CommandVals
    <2>2. v - 1 \in DOMAIN table /\ table[v - 1] \in ChrTypes
        BY <1>1, <2>1 DEF ChrTypes
    <2>3. PICK s \in Services(table) : v - 1 \in Chrs(table, s)
        BY <1>1, <1>2, <2>2, ChrHasService
    <2>4. PICK i \in DOMAIN svcs : svcs[i].start = s
        BY DEF AllFound, SvcsFound
    <2>5. PICK j \in DOMAIN svcs[i].chrs : svcs[i].chrs[j].def = v - 1
        BY <2>3, <2>4 DEF AllFound, ChrsFound
    <2>6. svcs[i].chrs[j].val = v
        <3>1. svcs[i].chrs[j].val = svcs[i].chrs[j].def + 1
            BY DefsRise
        <3> QED BY <2>1, <2>5, <3>1
    <2>7. <<i, j>> \in hits
        BY <2>1, <2>5 DEF Positions
    <2> QED BY <2>6, <2>7
<1>5. ASSUME NEW p \in hits
      PROVE  /\ p[1] \in DOMAIN svcs /\ p[2] \in DOMAIN svcs[p[1]].chrs
             /\ svcs[p[1]].chrs[p[2]].val \in vals
             /\ svcs[p[1]].chrs[p[2]].def \in Nat
             /\ svcs[p[1]].chrs[p[2]].val = svcs[p[1]].chrs[p[2]].def + 1
    <2>1. p[1] \in DOMAIN svcs /\ p[2] \in DOMAIN svcs[p[1]].chrs
        BY <1>1, PositionsType
    <2> DEFINE svc == svcs[p[1]]
               def == svc.chrs[p[2]].def
               val == svc.chrs[p[2]].val
    <2>2. def \in Nat /\ val = def + 1
        BY <2>1, DefsRise
    <2>3. svc.start \in Services(table) /\ def \in Chrs(table, svc.start) /\ table[def] = "cmd"
        BY <2>1 DEF ListsInOrder, SvcsInOrder, ChrsInOrder
    <2> HIDE DEF def, val, svc
    <2>4. svc.start < def /\ def + 1 <= SvcEnd(table, svc.start)
        BY <1>1, <1>2, <2>3, ValueInService
    <2>5. SvcEnd(table, svc.start) \in svc.start..Len(table) /\ svc.start \in Nat
        BY <2>3, TableIs
    <2>6. val \in 1..Len(table) /\ val > 1 /\ val - 1 = def
        BY <1>1, <2>2, <2>4, <2>5
    <2>7. val \in vals
        BY <1>1, <2>3, <2>6 DEF CommandVals
    <2> QED BY <2>1, <2>2, <2>7 DEF val, def, svc
<1>6. hits # {}
    BY <1>4
<1>7. hits \subseteq Nat \X Nat
    BY <1>1, PositionsType
<1>8. at \in hits /\ \A q \in hits : at[1] < q[1] \/ (at[1] = q[1] /\ at[2] <= q[2])
    <2> HIDE DEF hits
    <2> QED BY <1>6, <1>7, FirstIsIn
<1>9. command' = svcs[at[1]].chrs[at[2]].val
    BY <1>6 DEF assign_command_handle
<1> HIDE DEF at, hits
<1>10. ASSUME NEW q \in hits
       PROVE  svcs[at[1]].chrs[at[2]].val <= svcs[q[1]].chrs[q[2]].val
    <2>1. CASE at[1] = q[1] /\ at[2] = q[2]
        BY <1>3, <1>5, <1>8, <2>1
    <2>2. CASE at[1] < q[1] \/ (at[1] = q[1] /\ at[2] < q[2])
        <3>1. svcs[at[1]].chrs[at[2]].def < svcs[q[1]].chrs[q[2]].def
            BY <1>5, <1>8, <2>2, PlacesRise
        <3> QED BY <1>5, <1>8, <3>1
    <2>3. at \in Nat \X Nat /\ q \in Nat \X Nat
        BY <1>7, <1>8
    <2> QED BY <1>8, <2>1, <2>2, <2>3
<1> DEFINE v == svcs[at[1]].chrs[at[2]].val
<1>11. v \in vals /\ \A w \in vals : v <= w
    BY <1>4, <1>5, <1>8, <1>10
<1> HIDE DEF v, vals
<1>12. Min(vals) \in vals /\ \A w \in vals : Min(vals) <= w
    BY <1>3, <1>11, MinIsIn
<1>13. v = Min(vals)
    <2>1. v <= Min(vals) /\ Min(vals) <= v /\ v \in Nat /\ Min(vals) \in Nat
        BY <1>3, <1>11, <1>12
    <2> QED BY <2>1
<1> QED BY <1>9, <1>13 DEF v, vals
-----------------------------------------------------------------------------
(* The notifications.                                                      *)

LEMMA SubscribesToAll ==
    ASSUME Types, ListsInOrder, DscsListed, AllFound
    PROVE  subscribe_handles = NotifyCccds(table)
<1>1. ASSUME NEW h \in NotifyCccds(table) PROVE h \in subscribe_handles
    <2>1. PICK s \in Services(table) :
            /\ table[s] = "gopro"
            /\ \E d \in Chrs(table, s) : table[d] = "notify" /\ h \in (d + 2)..ChrEnd(table, s, d)
        BY DEF NotifyCccds
    <2>2. PICK d \in Chrs(table, s) : table[d] = "notify" /\ h \in (d + 2)..ChrEnd(table, s, d)
        BY <2>1
    <2>3. PICK i \in DOMAIN svcs : svcs[i].start = s
        BY DEF AllFound, SvcsFound
    <2>4. PICK j \in DOMAIN svcs[i].chrs : svcs[i].chrs[j].def = d
        BY <2>3 DEF AllFound, ChrsFound
    <2>5. h \in DOMAIN table /\ table[h] = "cccd"
        BY DEF NotifyCccds
    <2>6. h \in DscHandles(i, j)
        BY <2>2, <2>3, <2>4, <2>5 DEF DscHandles
    <2>7. h \in Range(svcs[i].chrs[j].dscs)
        BY <2>6 DEF AllFound, DscsFound, Range
    <2> QED BY <2>1, <2>2, <2>3, <2>4, <2>5, <2>7 DEF subscribe_handles
<1>2. ASSUME NEW h \in subscribe_handles PROVE h \in NotifyCccds(table)
    <2>1. h \in DOMAIN table /\ table[h] = "cccd"
        BY DEF subscribe_handles
    <2>2. PICK i \in DOMAIN svcs : \E j \in DOMAIN svcs[i].chrs :
            /\ table[svcs[i].start] = "gopro"
            /\ table[svcs[i].chrs[j].def] = "notify"
            /\ h \in Range(svcs[i].chrs[j].dscs)
        BY DEF subscribe_handles
    <2>3. PICK j \in DOMAIN svcs[i].chrs :
            /\ table[svcs[i].start] = "gopro"
            /\ table[svcs[i].chrs[j].def] = "notify"
            /\ h \in Range(svcs[i].chrs[j].dscs)
        BY <2>2
    <2>4. h \in DscHandles(i, j)
        BY <2>3 DEF DscsListed, Range
    <2>5. svcs[i].start \in Services(table) /\ svcs[i].chrs[j].def \in Chrs(table, svcs[i].start)
        BY DEF ListsInOrder, SvcsInOrder, ChrsInOrder
    <2> QED BY <2>1, <2>3, <2>4, <2>5 DEF NotifyCccds, DscHandles
<1> QED BY <1>1, <1>2

LEMMA AllAreAccepted ==
    ASSUME NEW c \in Chains, MirrorInv, chain[c] # Idle, AllFound, DOMAIN cccd = DOMAIN table,
           subscribe_to_characteristics,
           Cardinality(NotifyCccds(table)) < GattProcs, NEW h \in NotifyCccds(table)
    PROVE  cccd'[h] # 0
<1> DEFINE N == NotifyCccds(table)
           free == GattProcs - Cardinality(Running)
           accepted == {x \in N : Cardinality({g \in N : g <= x}) <= free}
<1>1. Types /\ ListsInOrder /\ DscsListed /\ table \in Seq(AttrTypes)
    BY DEF MirrorInv, ListsInv, DrivenInv, Types, ProgressInv
<1>2. subscribe_handles = N
    BY <1>1, SubscribesToAll
<1>3. Running = {c}
    <2>1. outcome[c] = "running" /\ \A d \in Chains : outcome[d] = "running" => d = c
        BY DEF MirrorInv, ListsInv, DrivenInv
    <2> QED BY <2>1 DEF Running
<1>4. Cardinality(Running) = 1
    BY <1>3, FS_Singleton
<1>5. N \subseteq 1..Len(table) /\ Len(table) \in Nat
    BY <1>1, LenProperties DEF NotifyCccds
<1>6. IsFiniteSet(N)
    <2>1. IsFiniteSet(1..Len(table))
        BY <1>5, FS_Interval
    <2> QED BY <1>5, <2>1, FS_Subset
<1>7. /\ IsFiniteSet({g \in N : g <= h})
      /\ Cardinality({g \in N : g <= h}) <= Cardinality(N)
    <2>1. {g \in N : g <= h} \subseteq N
        OBVIOUS
    <2> HIDE DEF N
    <2> QED BY <1>6, <2>1, FS_Subset
<1>8. Cardinality({g \in N : g <= h}) \in Nat /\ Cardinality(N) \in Nat
    BY <1>6, <1>7, FS_CardinalityType
<1>9. GattProcs \in Nat
    BY PoolAssumption
<1>10. Cardinality({g \in N : g <= h}) <= free
    <2> DEFINE a == Cardinality({g \in N : g <= h})
               b == Cardinality(N)
    <2>1. a \in Nat /\ b \in Nat /\ a <= b /\ b < GattProcs /\ free = GattProcs - 1
        BY <1>4, <1>7, <1>8
    <2> HIDE DEF a, b, free
    <2>2. a <= free
        BY <1>9, <2>1
    <2> QED BY <2>2 DEF a
<1>11. h \in accepted
    <2> HIDE DEF N, free
    <2> QED BY <1>10 DEF N
<1>12. cccd' = [x \in DOMAIN cccd |-> IF x \in accepted THEN BLE_GATT_CHR_PROP_NOTIFY ELSE cccd[x]]
    BY <1>2 DEF subscribe_to_characteristics
<1>13. h \in DOMAIN cccd
    BY DEF NotifyCccds
<1> HIDE DEF accepted
<1> QED BY <1>11, <1>12, <1>13 DEF BLE_GATT_CHR_PROP_NOTIFY
-----------------------------------------------------------------------------
(* The invariant.  The camera's CCCDs are attributes of its table.         *)
UsableInv ==
    /\ MirrorInv
    /\ DOMAIN cccd = DOMAIN table
    /\ OkIsUsable

LEMMA UsableInit == Init => UsableInv
BY MirrorInit DEF Init, UsableInv, OkIsUsable, Discovered

LEMMA UsableStep ==
    ASSUME Overlap = FALSE, UsableInv, [Next]_vars
    PROVE  UsableInv'
<1>1. MirrorInv /\ MirrorInv' /\ ListsInv /\ ProgressInv /\ OutcomesInOrder
    BY MirrorStep DEF UsableInv, MirrorInv
<1>2. CASE Connect \/ Disconnect \/ peer_disc_all
    <2>1. ~Discovered'
        BY <1>1, <1>2, FreshReports
    <2>2. DOMAIN cccd' = DOMAIN table'
        BY <1>2 DEF Connect, Disconnect, peer_disc_all, UsableInv
    <2> QED BY <1>1, <2>1, <2>2 DEF UsableInv, OkIsUsable
<1>3. ASSUME NEW c \in Chains, NEW starts \in BOOLEAN, Answer(c, starts) \/ ProcError(c)
      PROVE  UsableInv'
    <2>1. Reports(c) /\ chain[c] # Idle
        BY <1>1, <1>3, AnswerProgresses
    <2>2. table' = table /\ (Discovered' => Succeed(c) /\ AllFound)
        BY <1>1, <2>1, RunningReports DEF Reports
    <2>3. DOMAIN cccd' = DOMAIN cccd
        <3>1. CASE Succeed(c)
            BY <3>1 DEF Succeed, subscribe_to_characteristics
        <3>2. CASE ~Succeed(c)
            BY <1>3, <3>2 DEF Answer, ProcError, peer_svc_disced, peer_chr_disced, peer_dsc_disced,
                              peer_svc_done, peer_chr_done, peer_dsc_done, peer_disc_chrs, peer_disc_dscs,
                              OutOfMemory, AssertFails, Taken, Start, Drop, Fail
        <3> QED BY <3>1, <3>2
    <2>4. OkIsUsable'
        <3> SUFFICES ASSUME Discovered'
                     PROVE  /\ CommandVals(table) # {} => command' = Min(CommandVals(table))
                            /\ Cardinality(NotifyCccds(table)) < GattProcs
                                 => \A h \in NotifyCccds(table) : cccd'[h] # 0
            BY <2>2 DEF OkIsUsable
        <3>1. AllFound /\ subscribe_to_characteristics /\ assign_command_handle
            BY <2>2 DEF Succeed
        <3>2. CommandVals(table) # {} => command' = Min(CommandVals(table))
            BY <1>1, <3>1, CommandIsFound DEF ListsInv, DrivenInv
        <3>3. Cardinality(NotifyCccds(table)) < GattProcs
                => \A h \in NotifyCccds(table) : cccd'[h] # 0
            BY <1>1, <2>1, <3>1, AllAreAccepted DEF UsableInv
        <3> QED BY <3>2, <3>3
    <2> QED BY <1>1, <2>2, <2>3, <2>4 DEF UsableInv
<1>4. CASE UNCHANGED vars
    BY <1>1, <1>4 DEF vars, UsableInv, OkIsUsable, Discovered, Started
<1> QED BY <1>2, <1>3, <1>4 DEF Next

(* As long as discoveries do not overlap, a reported success leaves the    *)
(* handle of the camera's first command characteristic, if it has one, and *)
(* every notification source of the GoPro service asked for, if the GATT   *)
(* client has procedures for all the writes (gatt.c).                      *)
THEOREM SuccessIsUsable ==
    ASSUME Overlap = FALSE
    PROVE  Spec => []OkIsUsable
<1>1. Overlap = FALSE
    OBVIOUS
<1>2. UsableInv /\ [Next]_vars => UsableInv'
    BY <1>1, UsableStep
<1>3. UsableInv => OkIsUsable
    BY DEF UsableInv
<1> QED BY UsableInit, <1>2, <1>3, PTL DEF Spec
-----------------------------------------------------------------------------
(* How a discovery gets there.                                             *)

(* While the characteristics of a service are sought, the services before  *)
(* it have theirs, and the procedure is where it began as long as none is  *)
(* listed.                                                                 *)
ChrFront(c) ==
    /\ chain[c].val = 0
    /\ \A i \in DOMAIN svcs : svcs[i].start = cur.start =>
         /\ svcs[i].chrs = <<>> => chain[c].at = svcs[i].start
         /\ \A k \in undiscovered_svcs : i <= k

FrontInv == \A c \in Chains : chain[c].step = "chr" => ChrFront(c)

WayInv == MirrorInv /\ FrontInv

(* Where peer_disc_dscs and peer_disc_chrs take a discovery.               *)
ToDscs(c) ==
    \E i \in DOMAIN svcs : \E j \in DOMAIN svcs[i].chrs :
        LET chr == svcs[i].chrs[j]
            end == chr_end_handle(svcs[i], j)
        IN  /\ ~chr_is_empty(svcs[i], j) /\ prev <= chr.def
            /\ chain' = [chain EXCEPT ![c] = Proc("dsc", chr.val + 1, end, chr.val)]

ToChrs(c) ==
    \E i \in undiscovered_svcs :
        /\ \A k \in undiscovered_svcs : i <= k
        /\ cur'.start = svcs[i].start
        /\ chain' = [chain EXCEPT ![c] = Proc("chr", svcs[i].start, svcs[i].end, 0)]

LEMMA DscsGoOn ==
    ASSUME NEW c \in Chains, NEW starts \in BOOLEAN, svcs \in Seq(Svc), peer_disc_dscs(c, starts)
    PROVE  chain' = [chain EXCEPT ![c] = Idle] \/ ToDscs(c)
<1>1. CASE undiscovered_chrs = {} \/ ~starts
    BY <1>1 DEF peer_disc_dscs, Succeed, Fail
<1>2. CASE undiscovered_chrs # {} /\ starts
    <2> DEFINE at == First(undiscovered_chrs)
    <2>1. undiscovered_chrs \subseteq Positions(svcs) /\ undiscovered_chrs \subseteq Nat \X Nat
        BY PositionsType DEF undiscovered_chrs
    <2>2. at \in undiscovered_chrs
        BY <1>2, <2>1, FirstIsIn
    <2>3. at[1] \in DOMAIN svcs /\ at[2] \in DOMAIN svcs[at[1]].chrs
        BY <2>1, <2>2, PositionsType
    <2>4. ~chr_is_empty(svcs[at[1]], at[2]) /\ prev <= svcs[at[1]].chrs[at[2]].def
        <3> HIDE DEF at
        <3> QED BY <2>2 DEF undiscovered_chrs
    <2>5. Start(c, Proc("dsc", svcs[at[1]].chrs[at[2]].val + 1, chr_end_handle(svcs[at[1]], at[2]),
                               svcs[at[1]].chrs[at[2]].val))
        BY <1>2 DEF peer_disc_dscs
    <2> HIDE DEF at
    <2> QED BY <2>3, <2>4, <2>5 DEF ToDscs, Start
<1> QED BY <1>1, <1>2

LEMMA ChrsGoOn ==
    ASSUME NEW c \in Chains, NEW starts \in BOOLEAN, svcs \in Seq(Svc), peer_disc_chrs(c, starts)
    PROVE  chain' = [chain EXCEPT ![c] = Idle] \/ ToChrs(c) \/ ToDscs(c)
<1>1. CASE undiscovered_svcs = {}
    BY <1>1, DscsGoOn DEF peer_disc_chrs
<1>2. CASE undiscovered_svcs # {} /\ ~starts
    BY <1>2 DEF peer_disc_chrs, Fail
<1>3. CASE undiscovered_svcs # {} /\ starts
    <2> DEFINE i == Min(undiscovered_svcs)
    <2>1. undiscovered_svcs \subseteq Nat
        <3>1. undiscovered_svcs \subseteq DOMAIN svcs
            BY DEF undiscovered_svcs
        <3> QED BY <3>1, SvcKeysType
    <2>2. i \in undiscovered_svcs /\ \A k \in undiscovered_svcs : i <= k
        BY <1>3, <2>1, MinIsIn
    <2>3. cur' = [start |-> svcs[i].start, freed |-> FALSE]
          /\ Start(c, Proc("chr", svcs[i].start, svcs[i].end, 0))
        BY <1>3 DEF peer_disc_chrs
    <2> HIDE DEF i
    <2> QED BY <2>2, <2>3 DEF ToChrs, Start
<1> QED BY <1>1, <1>2, <1>3

(* What an answer does to the lists and to its own chain.  Nothing happens *)
(* to the others.                                                          *)
Listing(c) ==
    \E next \in Nat :
        /\ next > chain[c].at
        /\ chain' = [chain EXCEPT ![c] = [@ EXCEPT !.at = next]]

LEMMA AnswerMoves ==
    ASSUME NEW c \in Chains, NEW starts \in BOOLEAN, ListsInv, Answer(c, starts)
    PROVE  /\ chain[c] # Idle /\ chain[c].step # "none" /\ chain[c] \in Step
           /\ \/ chain' = [chain EXCEPT ![c] = Idle]
              \/ Listing(c) /\ Reported(c) # {}
              \/ /\ Reported(c) = {} /\ UNCHANGED <<table, svcs>>
                 /\ (ToChrs(c) /\ chain[c].step # "dsc") \/ ToDscs(c)
<1>1. /\ Types /\ svcs \in Seq(Svc) /\ chain[c] \in Step
    BY DEF ListsInv, DrivenInv, Types
<1>2. chain[c].step \in {"svc", "chr", "dsc"} /\ chain[c].step # "none" /\ chain[c] # Idle
    <2>1. chain[c].step = "svc" \/ chain[c].step = "chr" \/ chain[c].step = "dsc"
        BY ZenonT(30) DEF Answer, peer_svc_disced, peer_chr_disced, peer_dsc_disced,
                          peer_svc_done, peer_chr_done, peer_dsc_done
    <2> QED BY <2>1 DEF Idle
<1>3. prev > 0
    BY <1>2 DEF ListsInv, DrivenInv, RunningIsDriven, NoAssertFailure
<1>4. ASSUME Reported(c) # {}
      PROVE  /\ Min(Reported(c)) \in Nat /\ Min(Reported(c)) >= chain[c].at /\ chain[c].at \in Nat
    <2>1. Min(Reported(c)) \in Reported(c) /\ Reported(c) \subseteq Nat
        BY <1>1, <1>4, ReportedType
    <2>2. Min(Reported(c)) \in chain[c].at..chain[c].end
        BY <2>1 DEF Reported
    <2> QED BY <1>1, <2>1, <2>2 DEF Step
<1>5. ASSUME OutOfMemory(c) PROVE chain' = [chain EXCEPT ![c] = Idle]
    BY <1>5 DEF OutOfMemory, Fail
<1>6. CASE peer_svc_disced(c)
    <2> DEFINE s == Min(Reported(c))
    <2>1. Reported(c) # {}
        BY <1>6 DEF peer_svc_disced
    <2>2. /\ s \in Services(table)
          /\ OutOfMemory(c) \/ Taken(c, SvcEnd(table, s) + 1)
        BY <1>6, SvcAnswer
    <2> HIDE DEF s
    <2>3. SvcEnd(table, s) \in Nat /\ s <= SvcEnd(table, s)
        BY <1>1, <2>2, TableIs DEF ListsInv
    <2>4. SvcEnd(table, s) + 1 \in Nat /\ SvcEnd(table, s) + 1 > chain[c].at
        BY <1>4, <2>1, <2>3 DEF s
    <2> QED BY <1>1, <1>2, <1>5, <2>1, <2>2, <2>4 DEF Listing, Taken
<1>7. CASE peer_chr_disced(c)
    <2> DEFINE d == Min(Reported(c))
    <2>1. Reported(c) # {}
        BY <1>7 DEF peer_chr_disced
    <2>2. OutOfMemory(c) \/ Taken(c, d + 2)
        BY <1>7, ChrAnswer
    <2>3. d + 2 \in Nat /\ d + 2 > chain[c].at
        BY <1>4, <2>1
    <2> QED BY <1>1, <1>2, <1>5, <2>1, <2>2, <2>3 DEF Listing, Taken
<1>8. CASE peer_dsc_disced(c)
    <2> DEFINE h == Min(Reported(c))
    <2>1. Reported(c) # {}
        BY <1>8 DEF peer_dsc_disced
    <2>2. OutOfMemory(c) \/ Taken(c, h + 1)
        BY <1>8, DscAnswer
    <2>3. h + 1 \in Nat /\ h + 1 > chain[c].at
        BY <1>4, <2>1
    <2> QED BY <1>1, <1>2, <1>5, <2>1, <2>2, <2>3 DEF Listing, Taken
<1>9. CASE peer_svc_done(c, starts) \/ peer_chr_done(c, starts)
    <2>1. peer_disc_chrs(c, starts) /\ Reported(c) = {} /\ UNCHANGED <<table, svcs>>
        BY <1>3, <1>9 DEF peer_svc_done, peer_chr_done
    <2>2. chain[c].step # "dsc"
        BY <1>9 DEF peer_svc_done, peer_chr_done
    <2> QED BY <1>1, <1>2, <2>1, <2>2, ChrsGoOn
<1>10. CASE peer_dsc_done(c, starts)
    <2>1. peer_disc_dscs(c, starts) /\ Reported(c) = {} /\ UNCHANGED <<table, svcs>>
        BY <1>3, <1>10 DEF peer_dsc_done
    <2> QED BY <1>1, <1>2, <2>1, DscsGoOn
<1> QED BY <1>6, <1>7, <1>8, <1>9, <1>10 DEF Answer

(* Only the procedure of the running discovery has a place.                *)
LEMMA OneFront ==
    ASSUME NEW c \in Chains, ListsInv, chain[c] # Idle,
           NEW p, chain' = [chain EXCEPT ![c] = p], p.step = "chr" => ChrFront(c)'
    PROVE  FrontInv'
<1>1. ASSUME NEW d \in Chains, chain'[d].step = "chr" PROVE ChrFront(d)'
    <2>1. CASE d = c
        BY <1>1, <2>1 DEF ListsInv, DrivenInv, Types
    <2>2. CASE d # c
        <3>1. chain[d] = Idle
            BY <2>2 DEF ListsInv, DrivenInv
        <3>2. chain'[d] = Idle
            BY <2>2, <3>1 DEF ListsInv, DrivenInv, Types
        <3> QED BY <1>1, <3>2 DEF Idle
    <2> QED BY <2>1, <2>2
<1> QED BY <1>1 DEF FrontInv

(* While the characteristics of one service are being listed.              *)
LEMMA ListingFront ==
    ASSUME NEW c \in Chains, NEW starts \in BOOLEAN, ListsInv, FrontInv,
           Answer(c, starts), Listing(c), Reported(c) # {}, chain[c].step = "chr"
    PROVE  ChrFront(c)'
<1> DEFINE d == Min(Reported(c))
           chr == [def |-> d, val |-> d + 1, dscs |-> <<>>]
<1>1. Types /\ svcs \in Seq(Svc) /\ table \in Tables \cup {<<>>} /\ ListsInOrder /\ chain[c] \in Step
    BY DEF ListsInv, DrivenInv, Types
<1>2. ChrFront(c)
    BY DEF FrontInv
<1>3. peer_chr_disced(c)
    BY DEF Answer, peer_svc_disced, peer_dsc_disced, peer_svc_done, peer_chr_done, peer_dsc_done
<1>4. chain'[c].val = 0 /\ chain'[c] # Idle
    BY <1>1, <1>2 DEF Listing, ChrFront, Idle, Step, Types
<1>5. ~OutOfMemory(c)
    BY <1>1, <1>4 DEF OutOfMemory, Fail, Types
<1>6. chr \in Chr /\ UNCHANGED cur
    BY <1>3, ChrAnswer DEF peer_chr_disced
<1>7. PICK i \in DOMAIN svcs :
        svcs[i].start = cur.start /\ svcs' = [svcs EXCEPT ![i].chrs = Append(@, chr)]
    BY <1>3, <1>5, ChrAnswer
<1> HIDE DEF chr
<1> DEFINE list == Append(svcs[i].chrs, chr)
<1>8. svcs[i].chrs \in Seq(Chr)
    BY <1>1, ChrKeysType
<1>9. list \in Seq(Chr) /\ Len(list) = Len(svcs[i].chrs) + 1 /\ Len(svcs[i].chrs) \in Nat
    BY <1>6, <1>8, AppendProperties, LenProperties
<1>10. list # <<>>
    BY <1>9, LenProperties
<1>11. svcs' = [svcs EXCEPT ![i].chrs = list]
    BY <1>7
<1> HIDE DEF list
<1>12. /\ DOMAIN svcs' = DOMAIN svcs /\ svcs'[i].chrs = list
       /\ \A k \in DOMAIN svcs : /\ svcs'[k].start = svcs[k].start
                                 /\ svcs'[k].end = svcs[k].end
                                 /\ k # i => svcs'[k].chrs = svcs[k].chrs
    BY <1>1, <1>9, <1>11, SetChrsEffect
<1>13. \A k \in DOMAIN svcs' : svcs'[k].start = cur'.start => k = i
    BY <1>1, <1>6, <1>7, <1>12, OnePlace
<1>14. undiscovered_svcs' \subseteq undiscovered_svcs
    BY <1>10, <1>12 DEF undiscovered_svcs, peer_svc_is_empty
<1>15. \A k \in undiscovered_svcs : i <= k
    BY <1>2, <1>7 DEF ChrFront
<1> QED BY <1>4, <1>10, <1>12, <1>13, <1>14, <1>15 DEF ChrFront

LEMMA FrontStep ==
    ASSUME Overlap = FALSE, ListsInv, FrontInv, [Next]_vars
    PROVE  FrontInv'
<1>1. /\ Types /\ svcs \in Seq(Svc) /\ table \in Tables \cup {<<>>} /\ ListsInOrder
      /\ chain \in [Chains -> Step]
    BY DEF ListsInv, DrivenInv, Types
<1>2. CASE Connect \/ Disconnect
    BY <1>2 DEF Connect, Disconnect, FrontInv, Idle
<1>3. CASE peer_disc_all
    <2>1. \A d \in Chains : chain[d] = Idle
        BY <1>3 DEF peer_disc_all, Running, ListsInv, DrivenInv
    <2>2. \A d \in Chains : chain'[d] = Idle \/ chain'[d] = Proc("svc", 1, Len(table), 0)
        BY <1>1, <1>3, <2>1 DEF peer_disc_all
    <2> QED BY <2>2 DEF FrontInv, Idle, Proc
<1>4. ASSUME NEW c \in Chains, ProcError(c) PROVE FrontInv'
    BY <1>4, OneFront DEF ProcError, Fail, Idle
<1>5. ASSUME NEW c \in Chains, NEW starts \in BOOLEAN, Answer(c, starts) PROVE FrontInv'
    <2>1. chain[c] # Idle /\ chain[c] \in Step
        BY <1>5, AnswerMoves
    <2>2. CASE chain' = [chain EXCEPT ![c] = Idle]
        BY <2>1, <2>2, OneFront DEF Idle
    <2>3. CASE Listing(c) /\ Reported(c) # {}
        <3>1. PICK next \in Nat : chain' = [chain EXCEPT ![c] = [@ EXCEPT !.at = next]]
            BY <2>3 DEF Listing
        <3> DEFINE p == [chain[c] EXCEPT !.at = next]
        <3>2. chain' = [chain EXCEPT ![c] = p] /\ p.step = chain[c].step
            BY <2>1, <3>1 DEF Step
        <3>3. chain[c].step = "chr" => ChrFront(c)'
            BY <1>5, <2>3, ListingFront
        <3> HIDE DEF p
        <3> QED BY <2>1, <3>2, <3>3, OneFront
    <2>4. CASE ToChrs(c) /\ UNCHANGED <<table, svcs>>
        <3>1. PICK i \in undiscovered_svcs :
                /\ \A k \in undiscovered_svcs : i <= k
                /\ cur'.start = svcs[i].start
                /\ chain' = [chain EXCEPT ![c] = Proc("chr", svcs[i].start, svcs[i].end, 0)]
            BY <2>4 DEF ToChrs
        <3> DEFINE p == Proc("chr", svcs[i].start, svcs[i].end, 0)
        <3>2. p.val = 0 /\ p.at = svcs[i].start
            BY DEF Proc
        <3>3. chain' = [chain EXCEPT ![c] = p] /\ chain'[c] = p
            BY <1>1, <3>1
        <3> HIDE DEF p
        <3>4. i \in DOMAIN svcs
            BY DEF undiscovered_svcs
        <3>5. \A k \in DOMAIN svcs : svcs[k].start = cur'.start => k = i
            BY <1>1, <3>1, <3>4, OnePlace
        <3>6. undiscovered_svcs' = undiscovered_svcs
            BY <2>4 DEF undiscovered_svcs
        <3>7. ChrFront(c)'
            BY <2>4, <3>1, <3>2, <3>3, <3>5, <3>6 DEF ChrFront
        <3> QED BY <2>1, <3>3, <3>7, OneFront
    <2>5. CASE ToDscs(c)
        <3>1. PICK at, end, val : chain' = [chain EXCEPT ![c] = Proc("dsc", at, end, val)]
            BY <2>5 DEF ToDscs
        <3> DEFINE p == Proc("dsc", at, end, val)
        <3>2. chain' = [chain EXCEPT ![c] = p] /\ p.step = "dsc"
            BY <3>1 DEF Proc
        <3> HIDE DEF p
        <3> QED BY <2>1, <3>2, OneFront
    <2> QED BY <1>5, <2>2, <2>3, <2>4, <2>5, AnswerMoves
<1>6. CASE UNCHANGED vars
    BY <1>6 DEF vars, FrontInv, ChrFront, undiscovered_svcs
<1> QED BY <1>2, <1>3, <1>4, <1>5, <1>6 DEF Next

(* A place is further when its phase is, or its range, or its handle.      *)
LEMMA FurtherIs ==
    ASSUME NEW c \in Chains, chain[c].step \in {"svc", "chr", "dsc"},
           \/ chain[c].step # "dsc" /\ chain'[c].step = "dsc"
           \/ chain[c].step = "svc" /\ chain'[c].step = "chr"
           \/ /\ chain'[c].step = chain[c].step
              /\ \/ chain'[c].end > chain[c].end
                 \/ chain'[c].end = chain[c].end /\ chain'[c].at > chain[c].at
    PROVE  Further(Place(c), Place(c)')
<1>1. Phases["svc"] = 1 /\ Phases["chr"] = 2 /\ Phases["dsc"] = 3
    BY DEF Phases
<1> DEFINE old == Phases[chain[c].step]
           new == Phases[chain'[c].step]
<1>2. \/ new > old
      \/ /\ new = old
         /\ chain'[c].end > chain[c].end \/ (chain'[c].end = chain[c].end /\ chain'[c].at > chain[c].at)
    BY <1>1
<1>3. /\ Place(c)[1] = old /\ Place(c)'[1] = new
      /\ Place(c)[2] = chain[c].end /\ Place(c)'[2] = chain'[c].end
      /\ Place(c)[3] = chain[c].at /\ Place(c)'[3] = chain'[c].at
    BY DEF Place
<1> HIDE DEF old, new
<1> QED BY <1>2, <1>3 DEF Further

(* A barren service is sought again and again: its procedure starts anew   *)
(* where it was.                                                           *)
Stuck(c) ==
    /\ chain'[c] = chain[c]
    /\ \E s \in Services(table) : Barren(table, s)

(* From one service to the next.                                           *)
LEMMA ChrsAdvance ==
    ASSUME NEW c \in Chains, WayInv, chain[c].step \in {"svc", "chr"}, chain[c] \in Step,
           Reported(c) = {}, ToChrs(c)
    PROVE  Further(Place(c), Place(c)') \/ Stuck(c)
<1>1. /\ Types /\ svcs \in Seq(Svc) /\ table \in Tables \cup {<<>>} /\ ListsInOrder
      /\ ListsInv /\ ProgressInv
    BY DEF WayInv, MirrorInv, ListsInv, DrivenInv, Types
<1>2. PICK i \in undiscovered_svcs :
        /\ \A k \in undiscovered_svcs : i <= k
        /\ chain' = [chain EXCEPT ![c] = Proc("chr", svcs[i].start, svcs[i].end, 0)]
    BY DEF ToChrs
<1>3. chain'[c] = Proc("chr", svcs[i].start, svcs[i].end, 0)
    BY <1>1, <1>2 DEF Types
<1>4. /\ chain'[c].step = "chr" /\ chain'[c].at = svcs[i].start
      /\ chain'[c].end = svcs[i].end /\ chain'[c].val = 0
    BY <1>3 DEF Proc
<1>5. CASE chain[c].step = "svc"
    BY <1>4, <1>5, FurtherIs
<1>6. CASE chain[c].step = "chr"
    <2>1. ChrFront(c) /\ ChrPlace(c)
        BY <1>1, <1>6 DEF WayInv, FrontInv, ListsInv, InPlace
    <2>2. PICK k \in DOMAIN svcs : svcs[k].start = cur.start /\ svcs[k].end = chain[c].end
        BY <2>1 DEF ChrPlace
    <2>3. k <= i /\ chain[c].val = 0 /\ (svcs[k].chrs = <<>> => chain[c].at = svcs[k].start)
        BY <1>2, <2>1, <2>2 DEF ChrFront
    <2>4. i \in DOMAIN svcs /\ ~peer_svc_is_empty(svcs[i]) /\ svcs[i].chrs = <<>>
        BY DEF undiscovered_svcs
    <2>5. svcs[i].start \in Services(table) /\ svcs[i].end = SvcEnd(table, svcs[i].start)
        BY <1>1, <2>4 DEF ListsInOrder, SvcsInOrder
    <2>6. \A m \in DOMAIN svcs : m \in Nat /\ svcs[m].start \in Nat /\ svcs[m].end \in Nat
        <3>1. \A m \in DOMAIN svcs : m \in Nat /\ svcs[m] \in Svc
            BY <1>1, SvcKeysType
        <3> QED BY <3>1 DEF Svc
    <2>7. CASE k = i
        <3>1. chain'[c] = chain[c]
            BY <1>3, <1>6, <2>2, <2>3, <2>4, <2>7 DEF Proc, Step
        <3>2. ChrsFound(i)
            BY <1>1, <1>6, <2>2, <2>4, <2>7, ServiceIsFound
        <3>3. Chrs(table, svcs[i].start) = {}
            BY <2>4, <3>2 DEF ChrsFound
        <3>4. SvcEnd(table, svcs[i].start) > svcs[i].start
            BY <2>4, <2>5, <2>6 DEF peer_svc_is_empty
        <3> QED BY <2>5, <3>1, <3>3, <3>4 DEF Stuck, Barren
    <2>8. CASE k < i
        <3>1. svcs[k].end < svcs[i].start
            BY <1>1, <2>2, <2>4, <2>8 DEF ListsInOrder, SvcsInOrder
        <3>2. svcs[i].start < svcs[i].end /\ svcs[k].end \in Nat
            BY <2>2, <2>4, <2>6 DEF peer_svc_is_empty
        <3>3. chain'[c].end > chain[c].end
            BY <1>4, <2>2, <2>4, <2>6, <3>1, <3>2
        <3> QED BY <1>4, <1>6, <3>3, FurtherIs
    <2> QED BY <2>2, <2>3, <2>4, <2>6, <2>7, <2>8
<1> QED BY <1>5, <1>6

(* From one characteristic to the next.                                    *)
LEMMA DscsAdvance ==
    ASSUME NEW c \in Chains, WayInv, chain[c].step \in {"svc", "chr", "dsc"}, chain[c] \in Step,
           ToDscs(c)
    PROVE  Further(Place(c), Place(c)')
<1>1. /\ Types /\ svcs \in Seq(Svc) /\ table \in Tables \cup {<<>>} /\ ListsInOrder
      /\ ListsInv /\ ProgressInv
    BY DEF WayInv, MirrorInv, ListsInv, DrivenInv, Types
<1>2. PICK i \in DOMAIN svcs : \E j \in DOMAIN svcs[i].chrs :
        /\ ~chr_is_empty(svcs[i], j) /\ prev <= svcs[i].chrs[j].def
        /\ chain' = [chain EXCEPT ![c] = Proc("dsc", svcs[i].chrs[j].val + 1,
                                               chr_end_handle(svcs[i], j), svcs[i].chrs[j].val)]
    BY DEF ToDscs
<1>3. PICK j \in DOMAIN svcs[i].chrs :
        /\ ~chr_is_empty(svcs[i], j) /\ prev <= svcs[i].chrs[j].def
        /\ chain' = [chain EXCEPT ![c] = Proc("dsc", svcs[i].chrs[j].val + 1,
                                               chr_end_handle(svcs[i], j), svcs[i].chrs[j].val)]
    BY <1>2
<1>4. chain'[c] = Proc("dsc", svcs[i].chrs[j].val + 1, chr_end_handle(svcs[i], j), svcs[i].chrs[j].val)
    BY <1>1, <1>3 DEF Types
<1>5. chain'[c].step = "dsc" /\ chain'[c].end = chr_end_handle(svcs[i], j)
    BY <1>4 DEF Proc
<1>6. CASE chain[c].step # "dsc"
    BY <1>5, <1>6, FurtherIs
<1>7. CASE chain[c].step = "dsc"
    <2> DEFINE d == svcs[i].chrs[j].def
    <2>1. DscProgress(c) /\ DscPlace(c)
        BY <1>1, <1>7 DEF ProgressInv, Progress, ListsInv, InPlace
    <2>2. PICK k \in DOMAIN svcs : \E l \in DOMAIN svcs[k].chrs : svcs[k].chrs[l].val = chain[c].val
        BY <2>1 DEF DscPlace
    <2>3. PICK l \in DOMAIN svcs[k].chrs : svcs[k].chrs[l].val = chain[c].val
        BY <2>2
    <2> DEFINE e == svcs[k].chrs[l].def
               s == svcs[k].start
    <2>4. prev = chain[c].val /\ chain[c].end = ChrEnd(table, s, e)
        BY <2>1, <2>3 DEF DscProgress
    <2>5. /\ d \in Nat /\ svcs[i].chrs[j].val = d + 1
          /\ e \in Nat /\ svcs[k].chrs[l].val = e + 1
        BY <1>1, DefsRise
    <2>6. e < d
        BY <1>3, <2>3, <2>4, <2>5
    <2>7. chr_end_handle(svcs[i], j) > d /\ chr_end_handle(svcs[i], j) \in Int
        <3>1. chr_end_handle(svcs[i], j) \in Int
            <4>1. <<i, j>> \in Positions(svcs)
                BY DEF Positions
            <4> QED BY <1>1, <4>1, PositionsType
        <3> QED BY <1>3, <2>5, <3>1 DEF chr_is_empty
    <2>8. /\ s \in Services(table) /\ svcs[k].end = SvcEnd(table, s)
          /\ e \in Chrs(table, s) /\ table \in Seq(AttrTypes)
        BY <1>1 DEF ListsInOrder, SvcsInOrder, ChrsInOrder, Types
    <2>9. ChrEnd(table, s, e) < d
        <3>1. CASE i = k
            <4>1. d \in Chrs(table, s)
                BY <1>1, <3>1 DEF ListsInOrder, ChrsInOrder
            <4>2. ChrEnd(table, s, e) \in e..SvcEnd(table, s) /\ SvcEnd(table, s) \in Nat
                  /\ (d <= e \/ d > ChrEnd(table, s, e))
                <5> HIDE DEF d, e, s
                <5> QED BY <2>8, <4>1, ChrEndIs
            <4> QED BY <2>5, <2>6, <4>2
        <3>2. CASE i # k
            <4>1. i \in Nat /\ k \in Nat
                BY <1>1, SvcKeysType
            <4>2. ~ (i < k)
                <5>1. i < k => d < e
                    BY <1>1, PlacesRise
                <5> QED BY <2>5, <2>6, <5>1
            <4>3. svcs[k].end < svcs[i].start /\ svcs[i].start < d
                BY <1>1, <3>2, <4>1, <4>2, KeysRise DEF ListsInOrder, SvcsInOrder
            <4>4. ChrEnd(table, s, e) \in e..SvcEnd(table, s) /\ SvcEnd(table, s) \in Nat
                <5> HIDE DEF e, s
                <5> QED BY <2>8, ChrEndIs
            <4>5. svcs[i].start \in Nat
                BY <1>1, SvcKeysType DEF Svc
            <4> QED BY <2>5, <2>8, <4>3, <4>4, <4>5
        <3> QED BY <3>1, <3>2
    <2>10. ChrEnd(table, s, e) \in Nat
        <3>1. ChrEnd(table, s, e) \in e..SvcEnd(table, s) /\ SvcEnd(table, s) \in Nat
            <4> HIDE DEF e, s
            <4> QED BY <2>8, ChrEndIs
        <3> QED BY <2>5, <3>1
    <2> HIDE DEF d, e, s
    <2>11. chain'[c].end > chain[c].end
        BY <1>5, <2>4, <2>5, <2>7, <2>9, <2>10
    <2> QED BY <1>5, <1>7, <2>11, FurtherIs
<1> QED BY <1>6, <1>7

LEMMA AnswerAdvances ==
    ASSUME NEW c \in Chains, NEW starts \in BOOLEAN, WayInv, Answer(c, starts)
    PROVE  chain'[c] = Idle \/ Further(Place(c), Place(c)') \/ Stuck(c)
<1>1. ListsInv /\ chain \in [Chains -> Step]
    BY DEF WayInv, MirrorInv, ListsInv, DrivenInv, Types
<1>2. chain[c] \in Step /\ chain[c].step \in {"svc", "chr", "dsc"}
    BY <1>1, AnswerMoves DEF Step
<1>3. CASE chain' = [chain EXCEPT ![c] = Idle]
    BY <1>1, <1>3
<1>4. CASE Listing(c)
    <2>1. PICK next \in Nat : next > chain[c].at /\ chain' = [chain EXCEPT ![c] = [@ EXCEPT !.at = next]]
        BY <1>4 DEF Listing
    <2>2. chain'[c] = [chain[c] EXCEPT !.at = next]
        BY <1>1, <2>1
    <2>3. chain'[c].step = chain[c].step /\ chain'[c].end = chain[c].end /\ chain'[c].at = next
        BY <1>2, <2>2 DEF Step
    <2> QED BY <1>2, <2>1, <2>3, FurtherIs
<1>5. CASE ToChrs(c) /\ chain[c].step # "dsc" /\ Reported(c) = {}
    BY <1>2, <1>5, ChrsAdvance
<1>6. CASE ToDscs(c)
    BY <1>2, <1>6, DscsAdvance
<1> QED BY <1>1, <1>3, <1>4, <1>5, <1>6, AnswerMoves

LEMMA WayInit == Init => WayInv
BY MirrorInit DEF Init, WayInv, FrontInv, Idle

LEMMA WayStep ==
    ASSUME Overlap = FALSE, WayInv, [Next]_vars
    PROVE  WayInv'
BY MirrorStep, FrontStep DEF WayInv, MirrorInv

(* As long as discoveries do not overlap, no discovery searches again what *)
(* it has searched, although every search of peer.c for the next service   *)
(* or characteristic begins at the head of the lists.                      *)
THEOREM SearchNeverReturns ==
    ASSUME Overlap = FALSE
    PROVE  Spec => NeverReturns
<1> DEFINE Onward ==
             \A c \in Chains :
                 chain[c] # Idle /\ chain'[c] # Idle /\ chain'[c] # chain[c]
                   => Further(Place(c), Place(c)')
<1>1. ASSUME WayInv, [Next]_vars PROVE [Onward]_vars
    <2> SUFFICES ASSUME NEW c \in Chains, Next,
                        chain[c] # Idle, chain'[c] # Idle, chain'[c] # chain[c]
                 PROVE  Further(Place(c), Place(c)')
        BY <1>1
    <2>1. ListsInv /\ chain \in [Chains -> Step] /\ outcome[c] = "running"
        BY <1>1 DEF WayInv, MirrorInv, ListsInv, DrivenInv, Types
    <2>2. ~Connect /\ ~Disconnect
        BY DEF Connect, Disconnect
    <2>3. ~peer_disc_all
        BY <2>1 DEF peer_disc_all
    <2>4. PICK d \in Chains : ProcError(d) \/ \E starts \in BOOLEAN : Answer(d, starts)
        BY <2>2, <2>3 DEF Next
    <2>5. \E p : chain' = [chain EXCEPT ![d] = p]
        BY <2>1, <2>4, AnswerMoves DEF ProcError, Fail, Listing, ToChrs, ToDscs
    <2>6. d = c
        BY <2>1, <2>5
    <2>7. ~ProcError(c)
        BY <2>1 DEF ProcError, Fail
    <2>8. PICK starts \in BOOLEAN : Answer(c, starts)
        BY <2>4, <2>6, <2>7
    <2> QED BY <1>1, <2>8, AnswerAdvances DEF Stuck
<1>2. Overlap = FALSE
    OBVIOUS
<1>3. WayInv /\ [Next]_vars => WayInv'
    BY <1>2, WayStep
<1>4. WayInv /\ [Next]_vars => [Onward]_vars
    BY <1>1
<1> QED BY WayInit, <1>3, <1>4, PTL DEF Spec, NeverReturns

(* With a camera none of whose services is barren, every answer ends the   *)
(* discovery or takes it further, whatever the tables, pools and bounds:   *)
(* nothing in peer.c keeps it from its end.                                *)
THEOREM AnswersAdvance ==
    ASSUME Overlap = FALSE, \A t \in Tables : \A s \in Services(t) : ~Barren(t, s)
    PROVE  Spec => [][\A c \in Chains, starts \in BOOLEAN :
                        Answer(c, starts) => chain'[c] = Idle \/ Further(Place(c), Place(c)')]_vars
<1> DEFINE Advance ==
             \A c \in Chains, starts \in BOOLEAN :
                 Answer(c, starts) => chain'[c] = Idle \/ Further(Place(c), Place(c)')
<1>1. ASSUME WayInv PROVE Advance
    <2> SUFFICES ASSUME NEW c \in Chains, NEW starts \in BOOLEAN, Answer(c, starts)
                 PROVE  chain'[c] = Idle \/ Further(Place(c), Place(c)')
        OBVIOUS
    <2>1. ~ \E s \in Services(table) : Barren(table, s)
        <3>1. table \in Tables \cup {<<>>} /\ Services(<<>>) = {}
            BY <1>1 DEF WayInv, MirrorInv, ListsInv, Services
        <3> QED BY <3>1
    <2> QED BY <1>1, <2>1, AnswerAdvances DEF Stuck
<1>2. Overlap = FALSE
    OBVIOUS
<1>3. WayInv /\ [Next]_vars => WayInv'
    BY <1>2, WayStep
<1>4. WayInv /\ [Next]_vars => [Advance]_vars
    BY <1>1
<1> QED BY WayInit, <1>3, <1>4, PTL DEF Spec
=============================================================================
