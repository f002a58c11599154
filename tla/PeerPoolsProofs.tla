-------------------------- MODULE PeerPoolsProofs ---------------------------
(***************************************************************************)
(* Types and pools of PeerDiscovery, for any attribute tables, pools and   *)
(* bounds.  TypeOK and NoDoubleFree hold even when discoveries overlap:    *)
(* whatever a second discovery does to the lists of the first, handles     *)
(* stay handles, pools are not overdrawn, and no more blocks are given     *)
(* back than were taken.  NoLeak needs discoveries that do not overlap.    *)
(*                                                                         *)
(* TypeInv bounds every handle by the length of the table, so that what is *)
(* computed from a handle is one; PoolInv compares the blocks taken with   *)
(* those listed.  Blocks are counted by their positions in the lists: an   *)
(* insertion moves positions without merging two and adds at most one.     *)
(***************************************************************************)
EXTENDS PeerDiscoveryProofs, FiniteSetTheorems, FunctionTheorems

ChrOf(n) == [def : 1..n, val : 1..n, dscs : Seq(1..n)]
SvcOf(n) == [start : 1..n, end : 1..n, chrs : Seq(ChrOf(n))]
ProcOf(n) == [step : {"svc", "chr", "dsc"}, at : 1..(n + 1), end : 0..n, val : 0..n]

(* The variables that a step of a chain may change beside the lists.       *)
ControlTypes ==
    /\ link \in {"down", "up", "closing", "aborted"}
    /\ link = "down" <=> table = <<>>
    /\ link = "down" => \A c \in Chains : chain[c] = Idle
    /\ chain \in [Chains -> ProcOf(Len(table)) \cup {Idle}]
    /\ outcome \in [Chains -> {"none", "unstarted", "running", "ok", "failed"}]
    /\ DOMAIN cccd = DOMAIN table /\ \A h \in DOMAIN cccd : cccd[h] \in Handle
    /\ command \in Handle

TypeInv ==
    /\ table \in Tables \cup {<<>>}
    /\ ControlTypes
    /\ svcs \in Seq(SvcOf(Len(table)))
    /\ prev \in 0..Len(table)
    /\ cur \in [start : 0..Len(table), freed : BOOLEAN]
-----------------------------------------------------------------------------
(* What TypeInv says of the table, the lists and the procedures.           *)

LEMMA TableType ==
    ASSUME table \in Tables \cup {<<>>}
    PROVE  /\ table \in Seq(AttrTypes) /\ DOMAIN table = 1..Len(table)
           /\ Len(table) \in Nat /\ Len(table) <= MaxHandle
           /\ table # <<>> => Len(table) > 0 /\ WellFormed(table)
<1>1. CASE table = <<>>
    BY <1>1 DEF MaxHandle
<1>2. CASE table \in Tables
    <2>1. table \in Seq(AttrTypes) /\ WellFormed(table) /\ Len(table) <= MaxHandle
        BY <1>2, TablesAssumption
    <2>2. Len(table) > 0
        BY <2>1 DEF WellFormed
    <2> QED BY <2>1, <2>2, LenProperties
<1> QED BY <1>1, <1>2

LEMMA ListTypes ==
    ASSUME NEW n \in Nat, svcs \in Seq(SvcOf(n))
    PROVE  /\ svcs \in Seq(Svc)
           /\ \A i \in DOMAIN svcs : svcs[i] \in SvcOf(n)
           /\ \A i \in DOMAIN svcs : \A j \in DOMAIN svcs[i].chrs : svcs[i].chrs[j] \in ChrOf(n)
<1>1. ChrOf(n) \subseteq Chr
    <2>1. 1..n \subseteq Nat \ {0} /\ 1..n \subseteq Nat
        OBVIOUS
    <2>2. Seq(1..n) \subseteq Seq(Nat)
        BY <2>1
    <2> QED BY <2>1, <2>2 DEF ChrOf, Chr
<1>2. SvcOf(n) \subseteq Svc
    <2>1. Seq(ChrOf(n)) \subseteq Seq(Chr)
        BY <1>1
    <2> QED BY <2>1 DEF SvcOf, Svc
<1>3. svcs \in Seq(Svc)
    BY <1>2
<1>4. \A i \in DOMAIN svcs : svcs[i] \in SvcOf(n)
    BY LenProperties, ElementOfSeq
<1>5. \A i \in DOMAIN svcs : svcs[i].chrs \in Seq(ChrOf(n))
    BY <1>4 DEF SvcOf
<1>6. ASSUME NEW i \in DOMAIN svcs, NEW j \in DOMAIN svcs[i].chrs PROVE svcs[i].chrs[j] \in ChrOf(n)
    <2> DEFINE chrs == svcs[i].chrs
    <2>1. chrs \in Seq(ChrOf(n)) /\ j \in DOMAIN chrs
        BY <1>5
    <2> HIDE DEF chrs
    <2>2. chrs[j] \in ChrOf(n)
        BY <2>1, LenProperties, ElementOfSeq
    <2> QED BY <2>2 DEF chrs
<1> QED BY <1>3, <1>4, <1>6

LEMMA TypesHold ==
    ASSUME TypeInv
    PROVE  Types /\ Len(table) \in Nat
<1>1. table \in Seq(AttrTypes) /\ Len(table) \in Nat
    BY TableType DEF TypeInv
<1>2. svcs \in Seq(Svc)
    BY <1>1, ListTypes DEF TypeInv
<1>3. prev \in Nat /\ cur \in [start : Nat, freed : BOOLEAN]
    BY <1>1 DEF TypeInv
<1>4. chain \in [Chains -> Step]
    <2>1. ProcOf(Len(table)) \subseteq Step /\ Idle \in Step
        BY <1>1 DEF ProcOf, Step, Idle
    <2> QED BY <2>1 DEF TypeInv, ControlTypes
<1> QED BY <1>1, <1>2, <1>3, <1>4 DEF Types, TypeInv, ControlTypes

(* The procedure of a chain that waits, and the link and the table it has. *)
LEMMA Waiting ==
    ASSUME TypeInv, NEW c \in Chains, chain[c] # Idle
    PROVE  /\ chain[c] \in ProcOf(Len(table)) /\ chain[c].step # "none"
           /\ link # "down" /\ table # <<>> /\ table \in Tables /\ Len(table) > 0
<1>1. chain[c] \in ProcOf(Len(table)) /\ link # "down"
    BY DEF TypeInv, ControlTypes
<1>2. table # <<>> /\ table \in Tables
    BY <1>1 DEF TypeInv, ControlTypes
<1>3. chain[c].step # "none"
    BY <1>1 DEF ProcOf
<1> QED BY <1>1, <1>2, <1>3, TableType

(* What is reported is an attribute of the table; a characteristic is      *)
(* declared in front of its value.                                         *)
LEMMA ReportedIsAttr ==
    ASSUME TypeInv, NEW c \in Chains, chain[c] # Idle, Reported(c) # {}
    PROVE  /\ Min(Reported(c)) \in Reported(c)
           /\ Min(Reported(c)) \in 1..Len(table)
           /\ chain[c].step = "chr" => Min(Reported(c)) + 1 \in 1..Len(table)
<1> DEFINE h == Min(Reported(c))
           n == Len(table)
<1>1. h \in Reported(c)
    BY ReportedType, TypesHold
<1>2. chain[c].at \in 1..(n + 1) /\ chain[c].end \in 0..n /\ n \in Nat
    BY Waiting, TypesHold DEF ProcOf
<1>3. h \in chain[c].at..chain[c].end
    BY <1>1 DEF Reported
<1> HIDE DEF h
<1>4. h \in 1..n
    BY <1>2, <1>3
<1>5. CASE chain[c].step = "chr"
    <2>1. table[h] \in ChrTypes
        BY <1>1, <1>5 DEF Reported
    <2>2. table[n] \notin ChrTypes
        BY Waiting, TableType DEF WellFormed, TypeInv
    <2>3. h # n
        BY <2>1, <2>2
    <2> QED BY <1>1, <1>2, <1>4, <2>3 DEF h
<1> QED BY <1>1, <1>4, <1>5 DEF h
-----------------------------------------------------------------------------
(* The steps of a chain.                                                   *)

(* The handles read from the lists.                                        *)
LEMMA PositionTypes ==
    ASSUME NEW n \in Nat, svcs \in Seq(SvcOf(n)), NEW p \in Positions(svcs)
    PROVE  /\ svcs[p[1]] \in SvcOf(n) /\ svcs[p[1]].chrs[p[2]] \in ChrOf(n)
           /\ chr_end_handle(svcs[p[1]], p[2]) \in 0..n
<1>1. /\ p[1] \in DOMAIN svcs /\ p[2] \in DOMAIN svcs[p[1]].chrs
      /\ svcs \in Seq(Svc)
    BY ListTypes, PositionsType
<1> DEFINE svc == svcs[p[1]]
           j == p[2]
<1>2. svc \in SvcOf(n) /\ \A k \in DOMAIN svc.chrs : svc.chrs[k] \in ChrOf(n)
    BY <1>1, ListTypes
<1>3. DOMAIN svc.chrs = 1..Len(svc.chrs) /\ Len(svc.chrs) \in Nat
    BY <1>1, ChrKeysType
<1>4. j \in DOMAIN svc.chrs
    BY <1>1
<1> HIDE DEF svc, j
<1>5. CASE j < Len(svc.chrs)
    <2>1. j + 1 \in DOMAIN svc.chrs
        BY <1>3, <1>4, <1>5
    <2>2. svc.chrs[j + 1].def \in 1..n
        BY <1>2, <2>1 DEF ChrOf
    <2>3. svc.chrs[j + 1].def - 1 \in 0..n
        BY <2>2
    <2>4. chr_end_handle(svc, j) = svc.chrs[j + 1].def - 1
        BY <1>5 DEF chr_end_handle
    <2> QED BY <1>2, <1>4, <2>3, <2>4 DEF svc, j
<1>6. CASE ~ (j < Len(svc.chrs))
    <2>1. svc.end \in 1..n /\ chr_end_handle(svc, j) = svc.end
        BY <1>2, <1>6 DEF SvcOf, chr_end_handle
    <2>2. chr_end_handle(svc, j) \in 0..n
        BY <2>1
    <2> QED BY <1>2, <1>4, <2>2 DEF svc, j
<1> QED BY <1>5, <1>6

LEMMA NotifyIsHandle == BLE_GATT_CHR_PROP_NOTIFY \in Handle
BY DEF BLE_GATT_CHR_PROP_NOTIFY, Handle, MaxHandle

(* Attributes of the table are handles.                                    *)
LEMMA AttrIsHandle ==
    ASSUME TypeInv, NEW h \in 0..Len(table)
    PROVE  h \in Handle
<1>1. Len(table) \in Nat /\ Len(table) <= MaxHandle
    BY TableType DEF TypeInv
<1>2. MaxHandle \in Nat
    BY DEF MaxHandle
<1>3. h \in Int /\ 0 <= h /\ h <= Len(table)
    BY <1>1
<1>4. h \in 0..MaxHandle
    BY <1>1, <1>2, <1>3
<1> QED BY <1>4 DEF Handle

LEMMA EndTypes ==
    ASSUME TypeInv, NEW c \in Chains, chain[c] # Idle, Fail(c) \/ Succeed(c), table' = table
    PROVE  ControlTypes'
<1> USE DEF TypeInv, ControlTypes
<1>1. link # "down" /\ table # <<>> /\ Len(table) \in Nat /\ Len(table) <= MaxHandle
    BY Waiting, TableType
<1>2. chain' = [chain EXCEPT ![c] = Idle]
    BY DEF Fail, Succeed
<1>3. outcome' = [outcome EXCEPT ![c] = "failed"] \/ outcome' = [outcome EXCEPT ![c] = "ok"]
    BY DEF Fail, Succeed
<1>4. link' \in {"up", "closing", "aborted"}
    BY <1>1 DEF Fail, Succeed
<1>5. DOMAIN cccd' = DOMAIN table /\ \A h \in DOMAIN cccd' : cccd'[h] \in Handle
    <2> QED BY NotifyIsHandle DEF Fail, Succeed, subscribe_to_characteristics
<1>6. command' \in Handle
    <2>1. CASE Fail(c)
        BY <2>1 DEF Fail
    <2>2. CASE Succeed(c)
        <3> DEFINE hits == {p \in Positions(svcs) : table[svcs[p[1]].chrs[p[2]].def] = "cmd"}
                   at == First(hits)
        <3>1. command' = IF hits = {} THEN command ELSE svcs[at[1]].chrs[at[2]].val
            BY <2>2 DEF Succeed, assign_command_handle
        <3>2. CASE hits # {}
            <4>1. hits \subseteq Nat \X Nat
                BY <1>1, ListTypes, PositionsType
            <4>2. at \in Positions(svcs)
                BY <3>2, <4>1, FirstIsIn
            <4> HIDE DEF at, hits
            <4>3. svcs[at[1]].chrs[at[2]] \in ChrOf(Len(table))
                BY <1>1, <4>2, PositionTypes
            <4>4. svcs[at[1]].chrs[at[2]].val \in 0..Len(table)
                BY <1>1, <4>3 DEF ChrOf
            <4>5. svcs[at[1]].chrs[at[2]].val \in Handle
                BY <4>4, AttrIsHandle
            <4> QED BY <3>1, <3>2, <4>5
        <3> QED BY <3>1, <3>2
    <2> QED BY <2>1, <2>2
<1> QED BY <1>1, <1>2, <1>3, <1>4, <1>5, <1>6

LEMMA GoesOnTypes ==
    ASSUME TypeInv, NEW c \in Chains, chain[c] # Idle, table' = table,
           NEW p \in ProcOf(Len(table)) \cup {Idle}, chain' = [chain EXCEPT ![c] = p],
           UNCHANGED <<link, outcome, cccd, command>>
    PROVE  ControlTypes'
<1>1. link # "down"
    BY Waiting
<1> QED BY <1>1 DEF TypeInv, ControlTypes

LEMMA AssertTypes ==
    ASSUME TypeInv, NEW c \in Chains, chain[c] # Idle, table' = table, AssertFails
    PROVE  ControlTypes'
<1>1. link # "down" /\ table # <<>>
    BY Waiting
<1> QED BY <1>1 DEF TypeInv, ControlTypes, AssertFails

LEMMA TakenTypes ==
    ASSUME TypeInv, NEW c \in Chains, chain[c] # Idle, table' = table,
           NEW next \in 1..(Len(table) + 1), Taken(c, next)
    PROVE  ControlTypes' /\ prev' = prev
<1> DEFINE p == [chain[c] EXCEPT !.at = next]
<1>1. chain[c] \in ProcOf(Len(table))
    BY Waiting
<1>2. p \in ProcOf(Len(table))
    BY <1>1 DEF ProcOf
<1>3. chain' = [chain EXCEPT ![c] = p]
    BY DEF Taken
<1> QED BY <1>2, <1>3, GoesOnTypes DEF Taken

(* The next procedure of a chain.                                          *)
LEMMA DscsTypes ==
    ASSUME TypeInv, NEW c \in Chains, NEW starts \in BOOLEAN, chain[c] # Idle,
           peer_disc_dscs(c, starts), UNCHANGED <<table, svcs>>
    PROVE  TypeInv'
<1> DEFINE n == Len(table)
<1>1. n \in Nat /\ svcs \in Seq(SvcOf(n)) /\ cur' = cur
    BY TypesHold DEF TypeInv, peer_disc_dscs
<1>2. CASE undiscovered_chrs = {}
    <2>1. Succeed(c) /\ prev' = 0
        BY <1>2 DEF peer_disc_dscs
    <2>2. ControlTypes'
        BY <2>1, EndTypes
    <2> QED BY <1>1, <2>1, <2>2 DEF TypeInv
<1>3. CASE undiscovered_chrs # {}
    <2> DEFINE at == First(undiscovered_chrs)
               svc == svcs[at[1]]
               chr == svc.chrs[at[2]]
               p == Proc("dsc", chr.val + 1, chr_end_handle(svc, at[2]), chr.val)
    <2>1. at \in Positions(svcs)
        <3>1. undiscovered_chrs \subseteq Positions(svcs)
            BY DEF undiscovered_chrs
        <3>2. undiscovered_chrs \subseteq Nat \X Nat
            BY <1>1, <3>1, ListTypes, PositionsType
        <3> QED BY <1>3, <3>1, <3>2, FirstIsIn
    <2>2. prev' = chr.val /\ (Fail(c) \/ Start(c, p))
        BY <1>3 DEF peer_disc_dscs
    <2> HIDE DEF at
    <2>3. chr \in ChrOf(n) /\ chr_end_handle(svc, at[2]) \in 0..n
        BY <1>1, <2>1, PositionTypes
    <2> HIDE DEF chr, svc
    <2>4. chr.val \in 1..n
        BY <2>3 DEF ChrOf
    <2>5. p \in ProcOf(n)
        <3>1. chr.val + 1 \in 1..(n + 1) /\ chr.val \in 0..n
            BY <1>1, <2>4
        <3> QED BY <2>3, <3>1 DEF Proc, ProcOf
    <2>6. prev' \in 0..n
        BY <1>1, <2>2, <2>4
    <2> HIDE DEF p
    <2>7. ControlTypes'
        <3>1. CASE Fail(c)
            BY <3>1, EndTypes
        <3>2. CASE Start(c, p)
            BY <2>5, <3>2, GoesOnTypes DEF Start
        <3> QED BY <2>2, <3>1, <3>2
    <2> QED BY <1>1, <2>6, <2>7 DEF TypeInv
<1> QED BY <1>2, <1>3

LEMMA ChrsTypes ==
    ASSUME TypeInv, NEW c \in Chains, NEW starts \in BOOLEAN, chain[c] # Idle,
           peer_disc_chrs(c, starts), UNCHANGED <<table, svcs>>
    PROVE  TypeInv'
<1> DEFINE n == Len(table)
<1>1. n \in Nat /\ svcs \in Seq(SvcOf(n))
    BY TypesHold DEF TypeInv
<1>2. CASE undiscovered_svcs = {}
    BY <1>2, DscsTypes DEF peer_disc_chrs
<1>3. CASE undiscovered_svcs # {}
    <2> DEFINE svc == svcs[Min(undiscovered_svcs)]
               p == Proc("chr", svc.start, svc.end, 0)
    <2>1. svc \in SvcOf(n)
        <3>1. DOMAIN svcs \subseteq Nat /\ \A i \in DOMAIN svcs : svcs[i] \in SvcOf(n)
            BY <1>1, ListTypes, SvcKeysType
        <3>2. undiscovered_svcs \subseteq DOMAIN svcs
            BY DEF undiscovered_svcs
        <3>3. Min(undiscovered_svcs) \in undiscovered_svcs
            BY <1>3, <3>1, <3>2, MinIsIn
        <3> QED BY <3>1, <3>2, <3>3
    <2>2. /\ cur' = [start |-> svc.start, freed |-> FALSE]
          /\ (Fail(c) /\ prev' = 0) \/ (Start(c, p) /\ prev' = prev)
        BY <1>3 DEF peer_disc_chrs
    <2> HIDE DEF svc
    <2>3. svc.start \in 1..n /\ svc.end \in 1..n
        BY <2>1 DEF SvcOf
    <2>4. p \in ProcOf(n) /\ svc.start \in 0..n
        <3>1. svc.start \in 1..(n + 1) /\ svc.end \in 0..n /\ 0 \in 0..n /\ svc.start \in 0..n
            BY <1>1, <2>3
        <3> QED BY <3>1 DEF Proc, ProcOf
    <2> HIDE DEF p
    <2>5. ControlTypes'
        <3>1. CASE Fail(c)
            BY <3>1, EndTypes
        <3>2. CASE Start(c, p)
            BY <2>4, <3>2, GoesOnTypes DEF Start
        <3> QED BY <2>2, <3>1, <3>2
    <2>6. prev' \in 0..n
        BY <1>1, <2>2 DEF TypeInv
    <2> QED BY <1>1, <2>2, <2>4, <2>5, <2>6 DEF TypeInv
<1> QED BY <1>2, <1>3

LEMMA DoneTypes ==
    ASSUME TypeInv, NEW c \in Chains, NEW starts \in BOOLEAN,
           peer_svc_done(c, starts) \/ peer_chr_done(c, starts) \/ peer_dsc_done(c, starts)
    PROVE  TypeInv'
<1>1. chain[c] # Idle /\ UNCHANGED <<table, svcs>>
    BY DEF peer_svc_done, peer_chr_done, peer_dsc_done, Idle
<1>2. CASE peer_disc_chrs(c, starts)
    BY <1>1, <1>2, ChrsTypes
<1>3. CASE peer_disc_dscs(c, starts)
    BY <1>1, <1>3, DscsTypes
<1>4. CASE Drop(c)
    <2>1. ControlTypes'
        BY <1>1, <1>4, GoesOnTypes DEF Drop, Start
    <2> QED BY <1>1, <1>4, <2>1 DEF Drop, TypeInv
<1> QED BY <1>2, <1>3, <1>4 DEF peer_svc_done, peer_chr_done, peer_dsc_done

LEMMA ErrorTypes ==
    ASSUME TypeInv, NEW c \in Chains, chain[c] # Idle, Fail(c), prev' = 0,
           UNCHANGED <<table, svcs, cur>>
    PROVE  TypeInv'
<1>1. ControlTypes' /\ Len(table) \in Nat
    BY EndTypes, TypesHold
<1> QED BY <1>1 DEF TypeInv
-----------------------------------------------------------------------------
(* What the answers put on the lists.                                      *)

(* The service, characteristic and descriptor an answer belongs to.        *)
LEMMA Found ==
    ASSUME NEW keys \in Seq(Nat), NEW h \in Nat
    PROVE  /\ find_prev(keys, h) \in 0..Len(keys)
           /\ Holds(keys, h) => find_prev(keys, h) + 1 \in 1..Len(keys)
<1>1. find_prev(keys, h) \in 0..Len(keys) /\ Len(keys) \in Nat
    BY FindPrev, LenProperties
<1> QED BY <1>1 DEF Holds

LEMMA CurStartFound ==
    ASSUME Types, NEW start \in CurStart
    PROVE  /\ start \in Nat
           /\ Holds(svc_keys, start) => find_prev(svc_keys, start) + 1 \in DOMAIN svcs
<1>1. svc_keys \in Seq(Nat) /\ Len(svc_keys) = Len(svcs) /\ DOMAIN svcs = 1..Len(svcs)
    BY SvcKeysType DEF Types
<1>2. start \in Nat
    <2>1. \A k \in DOMAIN svc_keys : svc_keys[k] \in Nat
        BY <1>1, LenProperties, ElementOfSeq
    <2> QED BY <2>1 DEF CurStart, Range, Types
<1> QED BY <1>1, <1>2, Found

LEMMA ValueFound ==
    ASSUME Types, NEW val \in Nat, svc_range(val) # {}
    PROVE  LET i == Min(svc_range(val))
           IN  /\ i \in DOMAIN svcs
               /\ Holds(chr_keys(i), val) => find_prev(chr_keys(i), val) + 1 \in DOMAIN svcs[i].chrs
<1> DEFINE i == Min(svc_range(val))
<1>1. i \in DOMAIN svcs
    <2>1. svc_range(val) \subseteq DOMAIN svcs /\ DOMAIN svcs \subseteq Nat
        BY SvcKeysType DEF svc_range, Types
    <2> QED BY <2>1, MinIsIn
<1> HIDE DEF i
<1>2. /\ chr_keys(i) \in Seq(Nat) /\ Len(chr_keys(i)) = Len(svcs[i].chrs)
      /\ DOMAIN svcs[i].chrs = 1..Len(svcs[i].chrs)
    BY <1>1, ChrKeysType DEF Types
<1> DEFINE keys == chr_keys(i)
<1> HIDE DEF keys
<1>3. keys \in Seq(Nat) /\ Len(keys) = Len(svcs[i].chrs)
    BY <1>2 DEF keys
<1>4. Holds(keys, val) => find_prev(keys, val) + 1 \in 1..Len(keys)
    BY <1>3, Found
<1>5. Holds(keys, val) => find_prev(keys, val) + 1 \in DOMAIN svcs[i].chrs
    BY <1>2, <1>3, <1>4
<1> QED BY <1>1, <1>5 DEF i, keys

LEMMA SetChrsOf ==
    ASSUME NEW n \in Nat, svcs \in Seq(SvcOf(n)), NEW i \in DOMAIN svcs,
           NEW list \in Seq(ChrOf(n)), svcs' = [svcs EXCEPT ![i].chrs = list]
    PROVE  svcs' \in Seq(SvcOf(n))
<1> DEFINE svc == [svcs[i] EXCEPT !.chrs = list]
<1>1. svcs[i] \in SvcOf(n) /\ i \in 1..Len(svcs)
    BY ListTypes, LenProperties
<1>2. svc \in SvcOf(n)
    BY <1>1 DEF SvcOf
<1>3. svcs' = [svcs EXCEPT ![i] = svc]
    OBVIOUS
<1> QED BY <1>1, <1>2, <1>3, ExceptSeq

(* What an answer does to the lists and the pools.                         *)
AddsSvc ==
    \E p \in 0..Len(svcs) : \E svc \in SvcOf(Len(table)) :
        /\ svc.chrs = <<>> /\ Available("svc")
        /\ svcs' = Insert(svcs, p, svc)
        /\ used' = [used EXCEPT !.svc = @ + 1]

LinksChr(i, p, chr) == svcs' = [svcs EXCEPT ![i].chrs = Link(@, p, chr)]

AddsChr ==
    \E i \in DOMAIN svcs : \E p \in 0..Len(svcs[i].chrs) : \E chr \in ChrOf(Len(table)) :
        /\ chr.dscs = <<>> /\ Available("chr") /\ LinksChr(i, p, chr)
        /\ used' = [used EXCEPT !.chr = @ + 1]

LinksDsc(i, j, p, h) == svcs' = [svcs EXCEPT ![i].chrs[j].dscs = Link(@, p, h)]

AddsDsc ==
    \E i \in DOMAIN svcs : \E j \in DOMAIN svcs[i].chrs :
        \E p \in 0..Len(svcs[i].chrs[j].dscs) : \E h \in 1..Len(table) :
            /\ Available("dsc") /\ LinksDsc(i, j, p, h)
            /\ used' = [used EXCEPT !.dsc = @ + 1]

Adds == UNCHANGED <<svcs, used>> \/ AddsSvc \/ AddsChr \/ AddsDsc

(* What it does to its chain and the link.                                 *)
Continues(c) ==
    \/ (OutOfMemory(c) \/ AssertFails) /\ UNCHANGED <<svcs, used>>
    \/ \E next \in 1..(Len(table) + 1) : Taken(c, next)

LEMMA SvcAdds ==
    ASSUME TypeInv, NEW c \in Chains, peer_svc_disced(c)
    PROVE  chain[c] # Idle /\ Continues(c) /\ Adds /\ UNCHANGED <<table, cur>>
<1> DEFINE s == Min(Reported(c))
           e == SvcEnd(table, s)
           svc == [start |-> s, end |-> e, chrs |-> <<>>]
           n == Len(table)
<1>1. chain[c].step = "svc" /\ Reported(c) # {} /\ UNCHANGED <<table, cur>>
    BY DEF peer_svc_disced
<1>2. chain[c] # Idle
    BY <1>1 DEF Idle
<1>3. s \in 1..n /\ n \in Nat /\ DOMAIN table = 1..n /\ table \in Seq(AttrTypes)
    BY <1>1, <1>2, ReportedIsAttr, TableType DEF TypeInv
<1>4. e \in 1..n
    <2>1. e \in s..n
        BY <1>3, SvcEndType
    <2> QED BY <1>3, <2>1
<1>5. \/ Taken(c, e + 1) /\ UNCHANGED <<svcs, used>>
      \/ /\ Available("svc") /\ Taken(c, e + 1)
         /\ svcs' = Insert(svcs, find_prev(svc_keys, s), svc)
         /\ used' = [used EXCEPT !.svc = @ + 1]
      \/ OutOfMemory(c)
    BY DEF peer_svc_disced
<1> HIDE DEF e
<1>6. svc \in SvcOf(n) /\ svc.chrs = <<>>
    BY <1>3, <1>4 DEF SvcOf
<1> HIDE DEF svc, s
<1>7. find_prev(svc_keys, s) \in 0..Len(svcs)
    <2>1. svc_keys \in Seq(Nat) /\ Len(svc_keys) = Len(svcs)
        BY TypesHold, SvcKeysType DEF Types
    <2>2. s \in Nat
        BY <1>3
    <2> QED BY <2>1, <2>2, FindPrev
<1>8. e + 1 \in 1..(n + 1)
    BY <1>3, <1>4
<1>9. Continues(c)
    BY <1>5, <1>8 DEF Continues, OutOfMemory
<1>10. Adds
    BY <1>5, <1>6, <1>7 DEF Adds, AddsSvc, OutOfMemory
<1> QED BY <1>1, <1>2, <1>9, <1>10

LEMMA ChrAdds ==
    ASSUME TypeInv, NEW c \in Chains, peer_chr_disced(c)
    PROVE  chain[c] # Idle /\ Continues(c) /\ Adds /\ UNCHANGED <<table, cur>>
<1> DEFINE d == Min(Reported(c))
           chr == [def |-> d, val |-> d + 1, dscs |-> <<>>]
           n == Len(table)
<1>1. chain[c].step = "chr" /\ Reported(c) # {} /\ UNCHANGED <<table, cur>>
    BY DEF peer_chr_disced
<1>2. chain[c] # Idle
    BY <1>1 DEF Idle
<1>3. d \in 1..n /\ d + 1 \in 1..n /\ n \in Nat
    BY <1>1, <1>2, ReportedIsAttr, TypesHold
<1>4. PICK start \in CurStart :
        LET i == find_prev(svc_keys, start) + 1
            keys == chr_keys(i)
            known == Holds(keys, d)
        IN  \/ ~Holds(svc_keys, start) /\ AssertFails
            \/ /\ Holds(svc_keys, start) /\ (known \/ Available("chr"))
               /\ svcs' = IF known THEN svcs
                          ELSE [svcs EXCEPT ![i].chrs = Link(@, find_prev(keys, d), chr)]
               /\ used' = IF known THEN used ELSE [used EXCEPT !.chr = @ + 1]
               /\ Taken(c, d + 2)
            \/ /\ Holds(svc_keys, start) /\ ~known /\ ~Available("chr")
               /\ OutOfMemory(c)
    BY DEF peer_chr_disced
<1>5. chr \in ChrOf(n) /\ chr.dscs = <<>>
    BY <1>3 DEF ChrOf
<1> HIDE DEF d, chr
<1> DEFINE i == find_prev(svc_keys, start) + 1
           keys == chr_keys(i)
           p == find_prev(keys, d)
<1>6. Holds(svc_keys, start) => i \in DOMAIN svcs
    BY TypesHold, CurStartFound
<1>7. \/ AssertFails \/ OutOfMemory(c)
      \/ Taken(c, d + 2) /\ UNCHANGED <<svcs, used>>
      \/ /\ Holds(svc_keys, start) /\ Taken(c, d + 2) /\ Available("chr")
         /\ svcs' = [svcs EXCEPT ![i].chrs = Link(@, p, chr)]
         /\ used' = [used EXCEPT !.chr = @ + 1]
    BY <1>4
<1> HIDE DEF i
<1>8. i \in DOMAIN svcs => p \in 0..Len(svcs[i].chrs)
    <2> SUFFICES ASSUME i \in DOMAIN svcs PROVE p \in 0..Len(svcs[i].chrs)
        OBVIOUS
    <2>1. keys \in Seq(Nat) /\ Len(keys) = Len(svcs[i].chrs)
        BY TypesHold, ChrKeysType DEF Types
    <2>2. d \in Nat
        BY <1>3
    <2> HIDE DEF keys
    <2> QED BY <2>1, <2>2, FindPrev
<1> HIDE DEF p
<1>9. d + 2 \in 1..(n + 1)
    BY <1>3
<1>10. Continues(c)
    BY <1>7, <1>9 DEF Continues, OutOfMemory, AssertFails
<1>11. Adds
    BY <1>5, <1>6, <1>7, <1>8 DEF Adds, AddsChr, LinksChr, OutOfMemory, AssertFails
<1> QED BY <1>1, <1>2, <1>10, <1>11

LEMMA DscAdds ==
    ASSUME TypeInv, NEW c \in Chains, peer_dsc_disced(c)
    PROVE  chain[c] # Idle /\ Continues(c) /\ Adds /\ UNCHANGED <<table, cur>>
<1> DEFINE h == Min(Reported(c))
           val == chain[c].val
           i == Min(svc_range(val))
           j == find_prev(chr_keys(i), val) + 1
           dscs == svcs[i].chrs[j].dscs
           known == svc_range(val) # {} /\ Holds(chr_keys(i), val)
           p == find_prev(dscs, h)
           n == Len(table)
<1>1. chain[c].step = "dsc" /\ Reported(c) # {} /\ UNCHANGED <<table, cur>>
    BY DEF peer_dsc_disced
<1>2. chain[c] # Idle
    BY <1>1 DEF Idle
<1>3. h \in 1..n /\ n \in Nat
    BY <1>1, <1>2, ReportedIsAttr, TypesHold
<1>4. val \in Nat
    BY <1>2, <1>3, Waiting DEF ProcOf
<1>5. \/ AssertFails \/ OutOfMemory(c)
      \/ Taken(c, h + 1) /\ UNCHANGED <<svcs, used>>
      \/ /\ known /\ Taken(c, h + 1) /\ Available("dsc")
         /\ svcs' = [svcs EXCEPT ![i].chrs[j].dscs = Link(@, p, h)]
         /\ used' = [used EXCEPT !.dsc = @ + 1]
    BY DEF peer_dsc_disced
<1> HIDE DEF h, val
<1>6. known => i \in DOMAIN svcs /\ j \in DOMAIN svcs[i].chrs
    BY <1>4, TypesHold, ValueFound
<1> HIDE DEF known, i, j
<1>7. i \in DOMAIN svcs /\ j \in DOMAIN svcs[i].chrs => p \in 0..Len(dscs)
    <2> SUFFICES ASSUME i \in DOMAIN svcs, j \in DOMAIN svcs[i].chrs PROVE p \in 0..Len(dscs)
        OBVIOUS
    <2>1. svcs[i].chrs[j] \in Chr
        BY TypesHold, ChrKeysType DEF Types
    <2>2. dscs \in Seq(Nat) /\ h \in Nat
        BY <1>3, <2>1 DEF Chr
    <2> HIDE DEF dscs
    <2> QED BY <2>2, FindPrev
<1> HIDE DEF p
<1>8. h + 1 \in 1..(n + 1)
    BY <1>3
<1>9. Continues(c)
    BY <1>5, <1>8 DEF Continues, OutOfMemory, AssertFails
<1>10. Adds
    BY <1>3, <1>5, <1>6, <1>7 DEF Adds, AddsDsc, LinksDsc, OutOfMemory, AssertFails
<1> QED BY <1>1, <1>2, <1>9, <1>10

(* What is listed has handles of the table.                                *)
LEMMA AddsTypes ==
    ASSUME TypeInv, Adds
    PROVE  svcs' \in Seq(SvcOf(Len(table)))
<1> DEFINE n == Len(table)
<1>1. n \in Nat /\ svcs \in Seq(SvcOf(n))
    BY TypesHold DEF TypeInv
<1>2. CASE UNCHANGED <<svcs, used>>
    BY <1>1, <1>2
<1>3. CASE AddsSvc
    BY <1>1, <1>3, InsertType DEF AddsSvc
<1>4. CASE AddsChr
    <2>0. PICK i \in DOMAIN svcs : \E p \in 0..Len(svcs[i].chrs) : \E chr \in ChrOf(n) :
            LinksChr(i, p, chr)
        BY <1>4 DEF AddsChr
    <2>1. PICK p \in 0..Len(svcs[i].chrs), chr \in ChrOf(n) : LinksChr(i, p, chr)
        BY <2>0
    <2>2. svcs[i].chrs \in Seq(ChrOf(n))
        BY <1>1, ListTypes DEF SvcOf
    <2> DEFINE list == Link(svcs[i].chrs, p, chr)
    <2>3. list \in Seq(ChrOf(n))
        BY <2>2, InsertType
    <2>4. svcs' = [svcs EXCEPT ![i].chrs = list]
        BY <2>1 DEF LinksChr
    <2> HIDE DEF list
    <2> QED BY <1>1, <2>3, <2>4, SetChrsOf
<1>5. CASE AddsDsc
    <2>0. PICK i \in DOMAIN svcs : \E j \in DOMAIN svcs[i].chrs :
            \E p \in 0..Len(svcs[i].chrs[j].dscs) : \E h \in 1..n :
                LinksDsc(i, j, p, h)
        BY <1>5 DEF AddsDsc
    <2>1. PICK j \in DOMAIN svcs[i].chrs :
            \E p \in 0..Len(svcs[i].chrs[j].dscs) : \E h \in 1..n : LinksDsc(i, j, p, h)
        BY <2>0
    <2>9. PICK p \in 0..Len(svcs[i].chrs[j].dscs), h \in 1..n : LinksDsc(i, j, p, h)
        BY <2>1
    <2>2. /\ svcs[i].chrs \in Seq(ChrOf(n)) /\ svcs[i].chrs[j] \in ChrOf(n)
          /\ j \in 1..Len(svcs[i].chrs)
        BY <1>1, ListTypes, ChrKeysType DEF SvcOf
    <2>3. svcs[i].chrs[j].dscs \in Seq(1..n)
        BY <2>2 DEF ChrOf
    <2> DEFINE dscs == Link(svcs[i].chrs[j].dscs, p, h)
               chr == [svcs[i].chrs[j] EXCEPT !.dscs = dscs]
               list == [svcs[i].chrs EXCEPT ![j] = chr]
    <2>4. dscs \in Seq(1..n)
        BY <2>3, InsertType
    <2>5. svcs' = [svcs EXCEPT ![i].chrs[j].dscs = dscs]
        BY <2>9 DEF LinksDsc
    <2> HIDE DEF dscs
    <2>6. chr \in ChrOf(n)
        BY <2>2, <2>4 DEF ChrOf
    <2>7. svcs' = [svcs EXCEPT ![i].chrs = list]
        BY <2>5
    <2> HIDE DEF chr
    <2>8. list \in Seq(ChrOf(n))
        BY <2>2, <2>6, ExceptSeq
    <2> HIDE DEF list
    <2> QED BY <1>1, <2>7, <2>8, SetChrsOf
<1> QED BY <1>2, <1>3, <1>4, <1>5 DEF Adds

LEMMA AnswerTypes ==
    ASSUME TypeInv, NEW c \in Chains,
           peer_svc_disced(c) \/ peer_chr_disced(c) \/ peer_dsc_disced(c)
    PROVE  TypeInv'
<1>1. chain[c] # Idle /\ Continues(c) /\ Adds /\ UNCHANGED <<table, cur>>
    BY SvcAdds, ChrAdds, DscAdds
<1>2. svcs' \in Seq(SvcOf(Len(table)))
    BY <1>1, AddsTypes
<1>3. CASE OutOfMemory(c)
    BY <1>1, <1>3, ErrorTypes DEF OutOfMemory
<1>4. CASE AssertFails
    <2>1. ControlTypes' /\ prev' = prev
        BY <1>1, <1>4, AssertTypes DEF AssertFails
    <2> QED BY <1>1, <1>2, <2>1 DEF TypeInv
<1>5. CASE \E next \in 1..(Len(table) + 1) : Taken(c, next)
    <2>1. ControlTypes' /\ prev' = prev
        BY <1>1, <1>5, TakenTypes
    <2> QED BY <1>1, <1>2, <2>1 DEF TypeInv
<1> QED BY <1>1, <1>3, <1>4, <1>5 DEF Continues
-----------------------------------------------------------------------------
(* The link's steps.                                                       *)

LEMMA LinkTypes ==
    ASSUME TypeInv, Connect \/ Disconnect
    PROVE  TypeInv'
<1>1. table' \in Tables \cup {<<>>} /\ Len(table') \in Nat
    <2>1. CASE Connect
        <3>1. PICK t \in Tables : table' = t
            BY <2>1 DEF Connect
        <3> QED BY <3>1, TablesAssumption, LenProperties
    <2>2. CASE Disconnect
        BY <2>2 DEF Disconnect
    <2> QED BY <2>1, <2>2
<1>2. svcs' = <<>> /\ prev' = 0 /\ cur' = [start |-> 0, freed |-> FALSE]
    BY DEF Connect, Disconnect
<1>3. svcs' \in Seq(SvcOf(Len(table'))) /\ prev' \in 0..Len(table')
      /\ cur' \in [start : 0..Len(table'), freed : BOOLEAN]
    BY <1>1, <1>2
<1>4. link' \in {"up", "down"} /\ (link' = "down" <=> table' = <<>>)
    <2>1. CASE Connect
        <3>1. PICK t \in Tables : table' = t /\ link' = "up"
            BY <2>1 DEF Connect
        <3>2. t # <<>>
            BY TablesAssumption DEF WellFormed
        <3> QED BY <3>1, <3>2
    <2>2. CASE Disconnect
        BY <2>2 DEF Disconnect
    <2> QED BY <2>1, <2>2
<1>5. chain' = [c \in Chains |-> Idle] /\ command' = command
    BY DEF Connect, Disconnect
<1>6. outcome' \in [Chains -> {"none", "unstarted", "running", "ok", "failed"}]
    BY DEF Connect, Disconnect, TypeInv, ControlTypes
<1>7. DOMAIN cccd' = DOMAIN table' /\ \A h \in DOMAIN cccd' : cccd'[h] \in Handle
    <2>1. 0 \in Handle
        BY AttrIsHandle, TypesHold
    <2>2. CASE Connect
        BY <2>1, <2>2 DEF Connect
    <2>3. CASE Disconnect
        BY <2>3 DEF Disconnect
    <2> QED BY <2>2, <2>3
<1>8. ControlTypes'
    BY <1>4, <1>5, <1>6, <1>7 DEF TypeInv, ControlTypes
<1> QED BY <1>1, <1>3, <1>8 DEF TypeInv

LEMMA DiscAllTypes ==
    ASSUME TypeInv, peer_disc_all
    PROVE  TypeInv'
<1> DEFINE n == Len(table)
<1>1. /\ svcs' = <<>> /\ prev' = 1 /\ cur' = [cur EXCEPT !.freed = cur.start # 0]
      /\ UNCHANGED <<table, link, cccd, command>> /\ link \in {"up", "closing"}
    BY DEF peer_disc_all, Undiscover
<1>2. n \in Nat /\ n > 0
    <2>1. table # <<>>
        BY <1>1 DEF TypeInv, ControlTypes
    <2> QED BY <2>1, TableType DEF TypeInv
<1>3. PICK c \in Chains :
        \/ /\ chain' = [chain EXCEPT ![c] = Proc("svc", 1, n, 0)]
           /\ outcome' = [outcome EXCEPT ![c] = "running"]
        \/ outcome' = [outcome EXCEPT ![c] = "unstarted"] /\ UNCHANGED chain
    BY DEF peer_disc_all
<1>4. Proc("svc", 1, n, 0) \in ProcOf(n)
    BY <1>2 DEF Proc, ProcOf
<1>5. chain' \in [Chains -> ProcOf(n) \cup {Idle}]
    BY <1>3, <1>4 DEF TypeInv, ControlTypes
<1>6. outcome' \in [Chains -> {"none", "unstarted", "running", "ok", "failed"}]
    BY <1>3 DEF TypeInv, ControlTypes
<1>7. ControlTypes'
    BY <1>1, <1>5, <1>6 DEF TypeInv, ControlTypes
<1>8. cur' \in [start : 0..n, freed : BOOLEAN]
    BY <1>1 DEF TypeInv
<1>9. prev' \in 0..n
    BY <1>1, <1>2
<1> QED BY <1>1, <1>7, <1>8, <1>9 DEF TypeInv

LEMMA TypesInit == Init => TypeInv
<1> SUFFICES ASSUME Init PROVE TypeInv
    OBVIOUS
<1>1. 0 \in Handle
    BY DEF Handle, MaxHandle
<1> QED BY <1>1 DEF Init, TypeInv, ControlTypes

LEMMA TypesStep ==
    ASSUME TypeInv, [Next]_vars
    PROVE  TypeInv'
<1>1. CASE Connect \/ Disconnect
    BY <1>1, LinkTypes
<1>2. CASE peer_disc_all
    BY <1>2, DiscAllTypes
<1>3. ASSUME NEW c \in Chains, ProcError(c) PROVE TypeInv'
    BY <1>3, ErrorTypes DEF ProcError
<1>4. ASSUME NEW c \in Chains, NEW starts \in BOOLEAN, Answer(c, starts) PROVE TypeInv'
    BY <1>4, AnswerTypes, DoneTypes DEF Answer
<1>5. CASE UNCHANGED vars
    BY <1>5 DEF vars, TypeInv, ControlTypes
<1> QED BY <1>1, <1>2, <1>3, <1>4, <1>5 DEF Next
-----------------------------------------------------------------------------
(* Counting the blocks of the lists.                                       *)

LEMMA PositionsAre ==
    ASSUME NEW list, NEW p
    PROVE  p \in Positions(list) <=> /\ p = <<p[1], p[2]>> /\ p[1] \in DOMAIN list
                                     /\ p[2] \in DOMAIN list[p[1]].chrs
<1>1. ASSUME p \in Positions(list)
      PROVE  p = <<p[1], p[2]>> /\ p[1] \in DOMAIN list /\ p[2] \in DOMAIN list[p[1]].chrs
    <2>1. PICK i \in DOMAIN list : p \in {i} \X DOMAIN list[i].chrs
        BY <1>1 DEF Positions
    <2> QED BY <2>1
<1>2. ASSUME p = <<p[1], p[2]>>, p[1] \in DOMAIN list, p[2] \in DOMAIN list[p[1]].chrs
      PROVE  p \in Positions(list)
    <2>1. p \in {p[1]} \X DOMAIN list[p[1]].chrs
        BY <1>2
    <2> QED BY <1>2, <2>1 DEF Positions
<1> QED BY <1>1, <1>2

LEMMA DscPositionsAre ==
    ASSUME NEW list, NEW q
    PROVE  q \in DscPositions(list) <=>
               /\ q = <<q[1], q[2]>> /\ q[1] \in Positions(list)
               /\ q[2] \in DOMAIN list[q[1][1]].chrs[q[1][2]].dscs
<1>1. ASSUME q \in DscPositions(list)
      PROVE  /\ q = <<q[1], q[2]>> /\ q[1] \in Positions(list)
             /\ q[2] \in DOMAIN list[q[1][1]].chrs[q[1][2]].dscs
    <2>1. PICK p \in Positions(list) : q \in {p} \X DOMAIN list[p[1]].chrs[p[2]].dscs
        BY <1>1 DEF DscPositions
    <2> QED BY <2>1
<1>2. ASSUME q = <<q[1], q[2]>>, q[1] \in Positions(list),
             q[2] \in DOMAIN list[q[1][1]].chrs[q[1][2]].dscs
      PROVE  q \in DscPositions(list)
    <2>1. q \in {q[1]} \X DOMAIN list[q[1][1]].chrs[q[1][2]].dscs
        BY <1>2
    <2> QED BY <1>2, <2>1 DEF DscPositions
<1> QED BY <1>1, <1>2

(* Where the element now at place k was, when one was put in at p + 1.     *)
Old(p, k) == IF k <= p THEN k ELSE k - 1

LEMMA OldIsInjective ==
    ASSUME NEW p \in Nat, NEW k \in Nat, NEW m \in Nat, k # p + 1, m # p + 1, Old(p, k) = Old(p, m)
    PROVE  k = m
BY DEF Old

(* Insertion moves the elements of a list, and Link may drop some.         *)
LEMMA Moves ==
    ASSUME NEW S, NEW list \in Seq(S), NEW p \in 0..Len(list), NEW e \in S,
           NEW l \in {Insert(list, p, e), Link(list, p, e)}
    PROVE  /\ l \in Seq(S) /\ Len(l) <= Len(list) + 1 /\ p + 1 \in DOMAIN l /\ l[p + 1] = e
           /\ \A k \in DOMAIN l : k # p + 1 => Old(p, k) \in DOMAIN list /\ l[k] = list[Old(p, k)]
<1>1. Len(list) \in Nat /\ DOMAIN list = 1..Len(list) /\ \A i \in 1..Len(list) : list[i] \in S
    BY LenProperties, ElementOfSeq
<1> DEFINE a == SubSeq(list, 1, p)
           b == SubSeq(list, p + 1, Len(list))
<1>2. a \in Seq(S) /\ Len(a) = p /\ \A i \in 1..p : a[i] = list[i]
    <2>1. \A i \in 1..p : list[i] \in S
        BY <1>1
    <2> QED BY <1>1, <2>1, SubSeqProperties
<1>3. /\ b \in Seq(S) /\ Len(b) = Len(list) - p
      /\ \A i \in 1..(Len(list) - p) : b[i] = list[p + i]
    <2>1. \A i \in (p+1)..Len(list) : list[i] \in S
        BY <1>1
    <2>2. p + 1 \in 1..(Len(list) + 1) /\ Len(list) \in p..Len(list)
        BY <1>1
    <2>3. b \in Seq(S)
        BY <1>1, <2>1, SubSeqProperties
    <2>4. Len(b) = Len(list) - (p + 1) + 1
          /\ \A i \in 1..(Len(list) - (p + 1) + 1) : b[i] = list[(p + 1) + i - 1]
        BY <2>1, <2>2, SubSeqProperties
    <2> HIDE DEF b
    <2>5. Len(list) - (p + 1) + 1 = Len(list) - p
        BY <1>1
    <2>6. ASSUME NEW i \in 1..(Len(list) - p) PROVE b[i] = list[p + i]
        <3>1. (p + 1) + i - 1 = p + i
            BY <1>1
        <3> QED BY <2>4, <2>5, <3>1
    <2> QED BY <2>3, <2>4, <2>5, <2>6
<1>4. <<e>> \in Seq(S)
    OBVIOUS
<1> HIDE DEF a, b
<1>5. CASE l = Insert(list, p, e)
    <2>1. (p + 1) - 1 = p
        BY <1>1
    <2>2. l = a \o <<e>> \o b
        BY <1>5, <2>1, Zenon DEF Insert, InsertAt, a, b
    <2>3. /\ a \o <<e>> \in Seq(S) /\ Len(a \o <<e>>) = p + 1
          /\ \A k \in 1..(p + 1) : (a \o <<e>>)[k] = IF k <= p THEN a[k] ELSE e
        BY <1>1, <1>2, <1>4, ConcatProperties
    <2> DEFINE ae == a \o <<e>>
    <2> HIDE DEF ae
    <2>4. ae \in Seq(S) /\ Len(ae) = p + 1 /\ \A k \in 1..(p + 1) : ae[k] = IF k <= p THEN a[k] ELSE e
        BY <2>3 DEF ae
    <2>5. /\ l \in Seq(S) /\ Len(l) = Len(list) + 1
          /\ \A k \in 1..(Len(list) + 1) : l[k] = IF k <= p + 1 THEN ae[k] ELSE b[k - (p + 1)]
        <3>1. l = ae \o b
            BY <2>2 DEF ae
        <3>2. /\ l \in Seq(S) /\ Len(l) = Len(ae) + Len(b)
              /\ \A k \in 1..(Len(ae) + Len(b)) : l[k] = IF k <= Len(ae) THEN ae[k] ELSE b[k - Len(ae)]
            BY <1>3, <2>4, <3>1, ConcatProperties
        <3>3. Len(ae) + Len(b) = Len(list) + 1
            BY <1>1, <1>3, <2>4
        <3> QED BY <2>4, <3>2, <3>3
    <2>6. DOMAIN l = 1..(Len(list) + 1)
        BY <2>5, LenProperties
    <2>7. l[p + 1] = e /\ p + 1 \in DOMAIN l
        BY <1>1, <2>4, <2>5, <2>6
    <2>8. ASSUME NEW k \in DOMAIN l, k # p + 1
          PROVE  Old(p, k) \in DOMAIN list /\ l[k] = list[Old(p, k)]
        <3>1. CASE k <= p
            BY <1>1, <1>2, <2>4, <2>5, <2>6, <3>1 DEF Old
        <3>2. CASE k > p + 1
            <4>1. k - (p + 1) \in 1..(Len(list) - p) /\ p + (k - (p + 1)) = k - 1 /\ k - 1 \in 1..Len(list)
                BY <1>1, <2>6, <3>2
            <4>2. l[k] = b[k - (p + 1)]
                BY <1>1, <2>5, <2>6, <3>2
            <4>3. l[k] = list[k - 1]
                BY <1>3, <4>1, <4>2
            <4>4. Old(p, k) = k - 1
                BY <1>1, <2>6, <3>2 DEF Old
            <4> QED BY <1>1, <4>1, <4>3, <4>4
        <3> QED BY <1>1, <2>6, <2>8, <3>1, <3>2
    <2>9. Len(l) <= Len(list) + 1
        BY <1>1, <2>5
    <2> QED BY <2>5, <2>7, <2>8, <2>9
<1>6. CASE l = Link(list, p, e) /\ p = 0
    <2>1. l = <<e>> \o list
        BY <1>6 DEF Link
    <2>2. /\ l \in Seq(S) /\ Len(l) = Len(list) + 1
          /\ l[1] = e /\ \A k \in 2..(Len(list) + 1) : l[k] = list[k - 1]
        BY <1>1, <1>4, <2>1, ConcatProperties
    <2>3. DOMAIN l = 1..(Len(list) + 1)
        BY <2>2, LenProperties
    <2> QED BY <1>1, <1>6, <2>2, <2>3 DEF Old
<1>7. CASE l = Link(list, p, e) /\ p # 0
    <2>1. l = Append(a, e)
        BY <1>7 DEF Link, a
    <2>2. /\ l \in Seq(S) /\ Len(l) = p + 1
          /\ l[p + 1] = e /\ \A k \in 1..p : l[k] = a[k]
        BY <1>1, <1>2, <2>1, AppendProperties
    <2>3. DOMAIN l = 1..(p + 1)
        BY <2>2, LenProperties
    <2> QED BY <1>1, <1>2, <2>2, <2>3 DEF Old
<1> QED BY <1>5, <1>6, <1>7

(* A set whose elements but one are told apart by those of a finite set.   *)
LEMMA OneMore ==
    ASSUME NEW S, NEW T, IsFiniteSet(T), NEW x, NEW f \in Injection(S \ {x}, T)
    PROVE  /\ IsFiniteSet(S) /\ Cardinality(S) \in Nat /\ Cardinality(T) \in Nat
           /\ Cardinality(S) <= Cardinality(T) + 1
           /\ x \notin S => Cardinality(S) <= Cardinality(T)
<1>1. /\ IsFiniteSet(S \ {x}) /\ Cardinality(S \ {x}) <= Cardinality(T)
    BY FS_Injection
<1>2. Cardinality(S \ {x}) \in Nat /\ Cardinality(T) \in Nat
    BY <1>1, FS_CardinalityType
<1>3. CASE x \in S
    <2>1. S = (S \ {x}) \cup {x}
        BY <1>3
    <2> DEFINE R == S \ {x}
    <2>2. IsFiniteSet(R) /\ x \notin R
        BY <1>1
    <2> HIDE DEF R
    <2>3. IsFiniteSet(R \cup {x}) /\ Cardinality(R \cup {x}) = Cardinality(R) + 1
        BY <2>2, FS_AddElement
    <2> QED BY <1>1, <1>2, <1>3, <2>1, <2>3 DEF R
<1>4. CASE x \notin S
    <2>1. S \ {x} = S
        BY <1>4, Zenon
    <2>2. Cardinality(S) <= Cardinality(T) /\ Cardinality(S) \in Nat
        BY <1>1, <1>2, <2>1
    <2> QED BY <1>1, <1>2, <2>1, <2>2
<1> QED BY <1>3, <1>4

(* The union of finitely many finite sets is finite.                       *)
LEMMA UnionFinite ==
    ASSUME NEW D, IsFiniteSet(D), NEW f, \A d \in D : IsFiniteSet(f[d])
    PROVE  IsFiniteSet(UNION {f[d] : d \in D})
<1> DEFINE R == {f[d] : d \in D}
           g == [d \in D |-> f[d]]
<1>1. g \in [D -> R] /\ \A r \in R : \E d \in D : g[d] = r
    OBVIOUS
<1>2. g \in Surjection(D, R)
    BY <1>1, Fun_IsSurj
<1>3. IsFiniteSet(R)
    <2> HIDE DEF g, R
    <2> QED BY <1>2, FS_Surjection
<1>4. \A r \in R : IsFiniteSet(r)
    OBVIOUS
<1> HIDE DEF R
<1> QED BY <1>3, <1>4, FS_UNION DEF R

LEMMA PositionsFinite ==
    ASSUME svcs \in Seq(Svc)
    PROVE  IsFiniteSet(Positions(svcs)) /\ IsFiniteSet(DscPositions(svcs))
<1>1. DOMAIN svcs = 1..Len(svcs) /\ Len(svcs) \in Nat
    BY SvcKeysType
<1>2. IsFiniteSet(DOMAIN svcs)
    BY <1>1, FS_Interval
<1>3. IsFiniteSet(Positions(svcs))
    <2> DEFINE f == [i \in DOMAIN svcs |-> {i} \X DOMAIN svcs[i].chrs]
    <2>1. ASSUME NEW i \in DOMAIN svcs PROVE IsFiniteSet({i} \X DOMAIN svcs[i].chrs)
        <3>1. IsFiniteSet(DOMAIN svcs[i].chrs)
            <4>1. DOMAIN svcs[i].chrs = 1..Len(svcs[i].chrs) /\ Len(svcs[i].chrs) \in Nat
                BY ChrKeysType
            <4> QED BY <4>1, FS_Interval
        <3>2. IsFiniteSet({i})
            BY FS_Singleton
        <3> QED BY <3>1, <3>2, FS_Product
    <2>2. \A i \in DOMAIN svcs : IsFiniteSet(f[i])
        BY <2>1
    <2>3. Positions(svcs) = UNION {f[i] : i \in DOMAIN svcs}
        BY DEF Positions
    <2> DEFINE D == DOMAIN svcs
    <2> HIDE DEF f, D
    <2>4. IsFiniteSet(UNION {f[i] : i \in D})
        BY <1>2, <2>2, UnionFinite DEF D
    <2> QED BY <2>3, <2>4 DEF D
<1>4. IsFiniteSet(DscPositions(svcs))
    <2> DEFINE P == Positions(svcs)
               f == [q \in P |-> {q} \X DOMAIN svcs[q[1]].chrs[q[2]].dscs]
    <2>1. ASSUME NEW q \in P PROVE IsFiniteSet({q} \X DOMAIN svcs[q[1]].chrs[q[2]].dscs)
        <3>1. svcs[q[1]].chrs[q[2]] \in Chr
            BY PositionsType
        <3>2. svcs[q[1]].chrs[q[2]].dscs \in Seq(Nat)
            BY <3>1 DEF Chr
        <3> DEFINE dscs == svcs[q[1]].chrs[q[2]].dscs
        <3> HIDE DEF dscs
        <3>3. DOMAIN dscs = 1..Len(dscs) /\ Len(dscs) \in Nat
            BY <3>2, LenProperties DEF dscs
        <3>4. IsFiniteSet(DOMAIN dscs)
            BY <3>3, FS_Interval
        <3>5. IsFiniteSet({q})
            BY FS_Singleton
        <3> QED BY <3>4, <3>5, FS_Product DEF dscs
    <2>2. \A q \in P : IsFiniteSet(f[q])
        BY <2>1
    <2>3. DscPositions(svcs) = UNION {f[q] : q \in P}
        BY DEF DscPositions
    <2>4. IsFiniteSet(P)
        BY <1>3
    <2> HIDE DEF f, P
    <2>5. IsFiniteSet(UNION {f[q] : q \in P})
        BY <2>2, <2>4, UnionFinite
    <2> QED BY <2>3, <2>5
<1> QED BY <1>3, <1>4

LEMMA BlocksType ==
    ASSUME svcs \in Seq(Svc)
    PROVE  Blocks(svcs) \in [svc : Nat, chr : Nat, dsc : Nat]
<1>1. Cardinality(Positions(svcs)) \in Nat /\ Cardinality(DscPositions(svcs)) \in Nat
    BY PositionsFinite, FS_CardinalityType
<1>2. Len(svcs) \in Nat
    BY SvcKeysType
<1> QED BY <1>1, <1>2 DEF Blocks

LEMMA NoBlocks == Blocks(<<>>) = [svc |-> 0, chr |-> 0, dsc |-> 0]
<1>1. Positions(<<>>) = {}
    BY DEF Positions
<1>2. DscPositions(<<>>) = {}
    BY <1>1 DEF DscPositions
<1>3. Len(<<>>) = 0
    OBVIOUS
<1> QED BY <1>1, <1>2, <1>3, FS_EmptySet DEF Blocks

(* When the characteristics but one were on the lists before, with the     *)
(* same descriptors, and that one has none, no pool has more listed than   *)
(* before but for that one.                                                *)
LEMMA MovedChrs ==
    ASSUME svcs \in Seq(Svc), NEW x, NEW f \in Injection(Positions(svcs') \ {x}, Positions(svcs)),
           x \in Positions(svcs') => svcs'[x[1]].chrs[x[2]].dscs = <<>>,
           \A q \in Positions(svcs') \ {x} :
               svcs'[q[1]].chrs[q[2]].dscs = svcs[f[q][1]].chrs[f[q][2]].dscs
    PROVE  /\ IsFiniteSet(Positions(svcs')) /\ IsFiniteSet(DscPositions(svcs'))
           /\ Cardinality(Positions(svcs')) <= Cardinality(Positions(svcs)) + 1
           /\ x \notin Positions(svcs') =>
                  Cardinality(Positions(svcs')) <= Cardinality(Positions(svcs))
           /\ Cardinality(DscPositions(svcs')) <= Cardinality(DscPositions(svcs))
<1>1. IsFiniteSet(Positions(svcs)) /\ IsFiniteSet(DscPositions(svcs))
    BY PositionsFinite
<1> DEFINE P == Positions(svcs') \ {x}
           D == DscPositions(svcs')
           E == DscPositions(svcs)
           g == [r \in D |-> <<f[r[1]], r[2]>>]
<1>2. f \in [P -> Positions(svcs)] /\ \A a, b \in P : f[a] = f[b] => a = b
    BY Fun_InjectionProperties
<1>3. ASSUME NEW r \in D PROVE r = <<r[1], r[2]>> /\ r[1] \in P /\ <<f[r[1]], r[2]>> \in E
    <2>1. /\ r = <<r[1], r[2]>> /\ r[1] \in Positions(svcs')
          /\ r[2] \in DOMAIN svcs'[r[1][1]].chrs[r[1][2]].dscs
        BY DscPositionsAre
    <2>2. r[1] # x
        BY <2>1
    <2>3. r[2] \in DOMAIN svcs[f[r[1]][1]].chrs[f[r[1]][2]].dscs /\ f[r[1]] \in Positions(svcs)
        BY <1>2, <2>1, <2>2
    <2> DEFINE y == <<f[r[1]], r[2]>>
    <2>4. y[1] = f[r[1]] /\ y[2] = r[2] /\ y = <<y[1], y[2]>>
        OBVIOUS
    <2> HIDE DEF y
    <2>5. y \in E
        BY <2>3, <2>4, DscPositionsAre
    <2> QED BY <2>1, <2>2, <2>5 DEF y
<1> HIDE DEF P, D, E
<1>4. g \in [D -> E]
    BY <1>3
<1>5. ASSUME NEW a \in D, NEW b \in D, g[a] = g[b] PROVE a = b
    <2>1. f[a[1]] = f[b[1]] /\ a[2] = b[2]
        BY <1>5
    <2> QED BY <1>2, <1>3, <2>1
<1>6. g \in Injection(D, E)
    <2> HIDE DEF g
    <2> QED BY <1>4, <1>5, Fun_IsInj
<1>7. IsFiniteSet(D) /\ Cardinality(D) <= Cardinality(E)
    <2> HIDE DEF g
    <2> QED BY <1>1, <1>6, FS_Injection DEF E
<1>8. /\ IsFiniteSet(Positions(svcs'))
      /\ Cardinality(Positions(svcs')) <= Cardinality(Positions(svcs)) + 1
      /\ x \notin Positions(svcs') => Cardinality(Positions(svcs')) <= Cardinality(Positions(svcs))
    BY <1>1, OneMore
<1> QED BY <1>7, <1>8 DEF D, E

(* A service, characteristic or descriptor more.                           *)
LEMMA SvcBlocks ==
    ASSUME TypeInv, NEW p \in 0..Len(svcs), NEW svc \in SvcOf(Len(table)), svc.chrs = <<>>,
           svcs' = Insert(svcs, p, svc)
    PROVE  /\ Len(svcs') \in Nat /\ Len(svcs') <= Len(svcs) + 1
           /\ IsFiniteSet(Positions(svcs')) /\ IsFiniteSet(DscPositions(svcs'))
           /\ Cardinality(Positions(svcs')) <= Cardinality(Positions(svcs))
           /\ Cardinality(DscPositions(svcs')) <= Cardinality(DscPositions(svcs))
<1> DEFINE n == Len(table)
           x == <<p + 1, 0>>
           P == Positions(svcs') \ {x}
           f == [q \in P |-> <<Old(p, q[1]), q[2]>>]
<1>1. n \in Nat /\ svcs \in Seq(SvcOf(n)) /\ svcs \in Seq(Svc) /\ Len(svcs) \in Nat /\ p \in Nat
    BY TypesHold, ListTypes, LenProperties DEF TypeInv
<1>2. /\ svcs' \in Seq(SvcOf(n)) /\ Len(svcs') <= Len(svcs) + 1
      /\ p + 1 \in DOMAIN svcs' /\ svcs'[p + 1] = svc
      /\ \A k \in DOMAIN svcs' : k # p + 1 => Old(p, k) \in DOMAIN svcs /\ svcs'[k] = svcs[Old(p, k)]
    BY <1>1, Moves
<1>3. DOMAIN svcs' = 1..Len(svcs') /\ Len(svcs') \in Nat
    BY <1>2, LenProperties
<1>4. ASSUME NEW q \in Positions(svcs')
      PROVE  /\ q = <<q[1], q[2]>> /\ q[1] \in Nat /\ q[1] # p + 1
             /\ svcs'[q[1]] = svcs[Old(p, q[1])] /\ <<Old(p, q[1]), q[2]>> \in Positions(svcs)
    <2>1. q = <<q[1], q[2]>> /\ q[1] \in DOMAIN svcs' /\ q[2] \in DOMAIN svcs'[q[1]].chrs
        BY PositionsAre
    <2>2. q[1] # p + 1
        BY <1>2, <2>1
    <2>3. svcs'[q[1]] = svcs[Old(p, q[1])] /\ Old(p, q[1]) \in DOMAIN svcs
        BY <1>2, <2>1, <2>2
    <2> DEFINE y == <<Old(p, q[1]), q[2]>>
    <2>4. y[1] = Old(p, q[1]) /\ y[2] = q[2] /\ y = <<y[1], y[2]>>
        OBVIOUS
    <2> HIDE DEF y
    <2>5. y \in Positions(svcs)
        BY <2>1, <2>3, <2>4, PositionsAre
    <2> QED BY <1>3, <2>1, <2>2, <2>3, <2>5 DEF y
<1>5. x \notin Positions(svcs')
    <2>1. x[1] = p + 1
        OBVIOUS
    <2> QED BY <1>4, <2>1
<1> HIDE DEF x
<1>6. f \in Injection(P, Positions(svcs))
    <2>1. f \in [P -> Positions(svcs)]
        BY <1>4
    <2>2. ASSUME NEW a \in P, NEW b \in P, f[a] = f[b] PROVE a = b
        <3>1. Old(p, a[1]) = Old(p, b[1]) /\ a[2] = b[2]
            BY <2>2
        <3>2. a[1] = b[1]
            BY <1>1, <1>4, <3>1, OldIsInjective
        <3> QED BY <1>4, <3>1, <3>2
    <2> HIDE DEF f, P
    <2> QED BY <2>1, <2>2, Fun_IsInj
<1>7. \A q \in P : svcs'[q[1]].chrs[q[2]].dscs = svcs[f[q][1]].chrs[f[q][2]].dscs
    <2> SUFFICES ASSUME NEW q \in P
                 PROVE  svcs'[q[1]].chrs[q[2]].dscs = svcs[f[q][1]].chrs[f[q][2]].dscs
        OBVIOUS
    <2>1. f[q][1] = Old(p, q[1]) /\ f[q][2] = q[2]
        OBVIOUS
    <2> QED BY <1>4, <2>1
<1> HIDE DEF f
<1> QED BY <1>1, <1>2, <1>3, <1>5, <1>6, <1>7, MovedChrs

LEMMA ChrBlocks ==
    ASSUME TypeInv, NEW i \in DOMAIN svcs, NEW p \in 0..Len(svcs[i].chrs),
           NEW chr \in ChrOf(Len(table)), chr.dscs = <<>>,
           LinksChr(i, p, chr)
    PROVE  /\ Len(svcs') = Len(svcs)
           /\ IsFiniteSet(Positions(svcs')) /\ IsFiniteSet(DscPositions(svcs'))
           /\ Cardinality(Positions(svcs')) <= Cardinality(Positions(svcs)) + 1
           /\ Cardinality(DscPositions(svcs')) <= Cardinality(DscPositions(svcs))
<1> DEFINE n == Len(table)
           x == <<i, p + 1>>
           P == Positions(svcs') \ {x}
           list == Link(svcs[i].chrs, p, chr)
           f == [q \in P |-> IF q[1] = i THEN <<i, Old(p, q[2])>> ELSE q]
<1>1. n \in Nat /\ svcs \in Seq(SvcOf(n)) /\ svcs \in Seq(Svc)
    BY TypesHold, ListTypes DEF TypeInv
<1>2. svcs[i].chrs \in Seq(ChrOf(n)) /\ Len(svcs[i].chrs) \in Nat /\ p \in Nat
    <2>1. svcs[i].chrs \in Seq(ChrOf(n))
        BY <1>1, ListTypes DEF SvcOf
    <2>2. Len(svcs[i].chrs) \in Nat
        BY <2>1, LenProperties
    <2> QED BY <2>1, <2>2
<1>3. /\ list \in Seq(ChrOf(n)) /\ p + 1 \in DOMAIN list /\ list[p + 1] = chr
      /\ \A k \in DOMAIN list : k # p + 1 => /\ Old(p, k) \in DOMAIN svcs[i].chrs
                                             /\ list[k] = svcs[i].chrs[Old(p, k)]
    <2> DEFINE chrs == svcs[i].chrs
               S == ChrOf(n)
    <2>1. chrs \in Seq(S) /\ p \in 0..Len(chrs) /\ chr \in S
        BY <1>2
    <2>2. Link(chrs, p, chr) \in {Insert(chrs, p, chr), Link(chrs, p, chr)}
        OBVIOUS
    <2> HIDE DEF S, chrs
    <2> DEFINE l == Link(chrs, p, chr)
    <2> HIDE DEF l
    <2>3. /\ l \in Seq(S) /\ p + 1 \in DOMAIN l /\ l[p + 1] = chr
          /\ \A k \in DOMAIN l : k # p + 1 => Old(p, k) \in DOMAIN chrs /\ l[k] = chrs[Old(p, k)]
        BY <2>1, <2>2, Moves DEF l
    <2> QED BY <2>3 DEF chrs, l, S
<1>4. DOMAIN list = 1..Len(list) /\ Len(list) \in Nat
    BY <1>3, LenProperties
<1>5. /\ DOMAIN svcs' = DOMAIN svcs /\ \A k \in DOMAIN svcs : k # i => svcs'[k] = svcs[k]
      /\ svcs'[i].chrs = list
    <2>1. svcs[i] \in SvcOf(n)
        BY <1>1, ListTypes
    <2> QED BY <2>1 DEF LinksChr, SvcOf
<1>6. Len(svcs') = Len(svcs)
    <2> DEFINE svc == [svcs[i] EXCEPT !.chrs = list]
    <2>1. svcs' = [svcs EXCEPT ![i] = svc]
        BY DEF LinksChr
    <2>2. svc \in SvcOf(n) /\ i \in 1..Len(svcs)
        BY <1>1, <1>3, ListTypes, LenProperties DEF SvcOf
    <2> HIDE DEF svc
    <2> QED BY <1>1, <2>1, <2>2, ExceptSeq
<1> HIDE DEF list
<1>7. ASSUME NEW q \in P, q[1] = i
      PROVE  /\ q = <<i, q[2]>> /\ q[2] \in Nat /\ q[2] # p + 1
             /\ f[q] = <<i, Old(p, q[2])>> /\ f[q] \in Positions(svcs)
             /\ svcs'[i].chrs[q[2]] = svcs[i].chrs[Old(p, q[2])]
    <2>1. q = <<i, q[2]>> /\ q[2] \in DOMAIN list
        BY <1>5, <1>7, PositionsAre
    <2>2. q[2] # p + 1
        BY <2>1
    <2>3. Old(p, q[2]) \in DOMAIN svcs[i].chrs /\ list[q[2]] = svcs[i].chrs[Old(p, q[2])]
        BY <1>3, <2>1, <2>2
    <2> DEFINE y == <<i, Old(p, q[2])>>
    <2>4. y[1] = i /\ y[2] = Old(p, q[2]) /\ y = <<y[1], y[2]>>
        OBVIOUS
    <2>5. f[q] = y
        BY <1>7
    <2> HIDE DEF y, f
    <2>6. y \in Positions(svcs)
        BY <2>3, <2>4, PositionsAre
    <2> QED BY <1>4, <1>5, <2>1, <2>2, <2>3, <2>5, <2>6 DEF y
<1>8. ASSUME NEW q \in P, q[1] # i
      PROVE  /\ q = <<q[1], q[2]>> /\ f[q] = q /\ q \in Positions(svcs)
             /\ svcs'[q[1]] = svcs[q[1]]
    <2>1. q = <<q[1], q[2]>> /\ q[1] \in DOMAIN svcs' /\ q[2] \in DOMAIN svcs'[q[1]].chrs
        BY PositionsAre
    <2>2. svcs'[q[1]] = svcs[q[1]] /\ q[1] \in DOMAIN svcs
        BY <1>5, <1>8, <2>1
    <2>3. q \in Positions(svcs)
        BY <2>1, <2>2, PositionsAre
    <2> QED BY <1>8, <2>1, <2>2, <2>3
<1>9. f \in Injection(P, Positions(svcs))
    <2>1. f \in [P -> Positions(svcs)]
        <3>1. \A q \in P : f[q] \in Positions(svcs)
            <4> HIDE DEF f, P
            <4> QED BY <1>7, <1>8
        <3> QED BY <3>1
    <2>2. ASSUME NEW a \in P, NEW b \in P, f[a] = f[b] PROVE a = b
        <3> HIDE DEF f, P
        <3>1. CASE a[1] = i /\ b[1] = i
            <4>1. Old(p, a[2]) = Old(p, b[2])
                BY <1>7, <2>2, <3>1
            <4>2. a[2] = b[2]
                BY <1>2, <1>7, <3>1, <4>1, OldIsInjective
            <4> QED BY <1>7, <3>1, <4>2
        <3>2. CASE a[1] = i /\ b[1] # i
            <4>1. f[a][1] = i
                BY <1>7, <3>2
            <4> QED BY <1>8, <2>2, <3>2, <4>1
        <3>3. CASE a[1] # i /\ b[1] = i
            <4>1. f[b][1] = i
                BY <1>7, <3>3
            <4> QED BY <1>8, <2>2, <3>3, <4>1
        <3>4. CASE a[1] # i /\ b[1] # i
            BY <1>8, <2>2, <3>4
        <3> QED BY <3>1, <3>2, <3>3, <3>4
    <2> HIDE DEF f, P
    <2> QED BY <2>1, <2>2, Fun_IsInj
<1>10. \A q \in P : svcs'[q[1]].chrs[q[2]].dscs = svcs[f[q][1]].chrs[f[q][2]].dscs
    <2> SUFFICES ASSUME NEW q \in P
                 PROVE  svcs'[q[1]].chrs[q[2]].dscs = svcs[f[q][1]].chrs[f[q][2]].dscs
        OBVIOUS
    <2> HIDE DEF f, P
    <2>1. CASE q[1] = i
        <3>1. f[q][1] = i /\ f[q][2] = Old(p, q[2])
            BY <1>7, <2>1
        <3> QED BY <1>7, <2>1, <3>1
    <2>2. CASE q[1] # i
        BY <1>8, <2>2
    <2> QED BY <2>1, <2>2
<1>11. x \in Positions(svcs') => svcs'[x[1]].chrs[x[2]].dscs = <<>>
    <2>1. x[1] = i /\ x[2] = p + 1
        OBVIOUS
    <2> QED BY <1>3, <1>5, <2>1
<1> HIDE DEF f, x
<1>12. /\ IsFiniteSet(Positions(svcs')) /\ IsFiniteSet(DscPositions(svcs'))
       /\ Cardinality(Positions(svcs')) <= Cardinality(Positions(svcs)) + 1
       /\ Cardinality(DscPositions(svcs')) <= Cardinality(DscPositions(svcs))
    BY <1>1, <1>9, <1>10, <1>11, MovedChrs
<1> QED BY <1>6, <1>12

LEMMA DscBlocks ==
    ASSUME TypeInv, NEW i \in DOMAIN svcs, NEW j \in DOMAIN svcs[i].chrs,
           NEW p \in 0..Len(svcs[i].chrs[j].dscs), NEW h \in 1..Len(table), LinksDsc(i, j, p, h)
    PROVE  /\ Len(svcs') = Len(svcs) /\ Positions(svcs') = Positions(svcs)
           /\ IsFiniteSet(Positions(svcs')) /\ IsFiniteSet(DscPositions(svcs'))
           /\ Cardinality(DscPositions(svcs')) <= Cardinality(DscPositions(svcs)) + 1
<1> DEFINE n == Len(table)
           at == <<i, j>>
           old == svcs[i].chrs[j].dscs
           l == Link(old, p, h)
           x == <<at, p + 1>>
           D == DscPositions(svcs') \ {x}
           f == [q \in D |-> IF q[1] = at THEN <<at, Old(p, q[2])>> ELSE q]
<1>1. n \in Nat /\ svcs \in Seq(SvcOf(n)) /\ svcs \in Seq(Svc)
    BY TypesHold, ListTypes DEF TypeInv
<1>2. /\ svcs[i] \in SvcOf(n) /\ svcs[i].chrs \in Seq(ChrOf(n)) /\ svcs[i].chrs[j] \in ChrOf(n)
      /\ i \in 1..Len(svcs)
    BY <1>1, ListTypes, LenProperties DEF SvcOf
<1>3. old \in Seq(1..n) /\ Len(old) \in Nat /\ p \in Nat
    <2>1. old \in Seq(1..n)
        BY <1>2 DEF ChrOf
    <2>2. Len(old) \in Nat
        BY <2>1, LenProperties
    <2> QED BY <2>1, <2>2
<1>4. /\ p + 1 \in DOMAIN l /\ DOMAIN l \subseteq Nat
      /\ \A k \in DOMAIN l : k # p + 1 => Old(p, k) \in DOMAIN old
    <2>1. Link(old, p, h) \in {Insert(old, p, h), Link(old, p, h)}
        OBVIOUS
    <2> DEFINE S == 1..n
    <2>2. old \in Seq(S) /\ p \in 0..Len(old) /\ h \in S
        BY <1>3
    <2> HIDE DEF S, old, l
    <2>3. /\ l \in Seq(S) /\ p + 1 \in DOMAIN l
          /\ \A k \in DOMAIN l : k # p + 1 => Old(p, k) \in DOMAIN old
        BY <2>1, <2>2, Moves DEF l
    <2>4. DOMAIN l = 1..Len(l) /\ Len(l) \in Nat
        BY <2>3, LenProperties
    <2> QED BY <2>3, <2>4
<1>5. /\ DOMAIN svcs' = DOMAIN svcs /\ \A k \in DOMAIN svcs : k # i => svcs'[k] = svcs[k]
      /\ DOMAIN svcs'[i].chrs = DOMAIN svcs[i].chrs
      /\ \A k \in DOMAIN svcs[i].chrs : k # j => svcs'[i].chrs[k] = svcs[i].chrs[k]
      /\ svcs'[i].chrs[j].dscs = l
    <2> HIDE DEF l
    <2>1. svcs' = [svcs EXCEPT ![i].chrs[j].dscs = l]
        BY DEF LinksDsc, l
    <2> QED BY <1>2, <2>1 DEF SvcOf, ChrOf
<1>6. Len(svcs') = Len(svcs)
    <2> HIDE DEF l
    <2> DEFINE list == [svcs[i].chrs EXCEPT ![j].dscs = l]
               svc == [svcs[i] EXCEPT !.chrs = list]
    <2>1. svcs' = [svcs EXCEPT ![i] = svc]
        BY DEF LinksDsc, l
    <2> HIDE DEF svc
    <2>2. DOMAIN svcs' = 1..Len(svcs) /\ svcs' = [k \in 1..Len(svcs) |-> svcs'[k]]
        BY <1>1, <2>1, LenProperties
    <2>3. Len(svcs) \in Nat
        BY <1>1, LenProperties
    <2> QED BY <2>2, <2>3
<1> HIDE DEF l, old
<1>7. ASSUME NEW q
      PROVE  (q \in Positions(svcs') <=> q \in Positions(svcs))
    <2>1. q[1] \in DOMAIN svcs => DOMAIN svcs'[q[1]].chrs = DOMAIN svcs[q[1]].chrs
        BY <1>5
    <2> QED BY <1>5, <2>1, PositionsAre
<1>8. Positions(svcs') = Positions(svcs)
    BY <1>7
<1>9. at \in Positions(svcs)
    <2>1. at[1] = i /\ at[2] = j /\ at = <<at[1], at[2]>>
        OBVIOUS
    <2> HIDE DEF at
    <2> QED BY <2>1, PositionsAre
<1>10. ASSUME NEW q \in DscPositions(svcs')
       PROVE  /\ q = <<q[1], q[2]>> /\ q[1] \in Positions(svcs)
              /\ q[1] # at => q \in DscPositions(svcs)
              /\ q[1] = at => q[2] \in DOMAIN l
    <2>1. /\ q = <<q[1], q[2]>> /\ q[1] \in Positions(svcs)
          /\ q[2] \in DOMAIN svcs'[q[1][1]].chrs[q[1][2]].dscs
        BY <1>8, DscPositionsAre
    <2>2. /\ q[1] = <<q[1][1], q[1][2]>> /\ q[1][1] \in DOMAIN svcs
          /\ q[1][2] \in DOMAIN svcs[q[1][1]].chrs
        BY <2>1, PositionsAre
    <2>3. CASE q[1] = at
        <3>1. q[1][1] = i /\ q[1][2] = j
            BY <2>3
        <3> QED BY <1>5, <2>1, <2>3, <3>1
    <2>4. CASE q[1] # at
        <3>1. q[1][1] # i \/ q[1][2] # j
            BY <2>2, <2>4
        <3>2. svcs'[q[1][1]].chrs[q[1][2]] = svcs[q[1][1]].chrs[q[1][2]]
            BY <1>5, <2>2, <3>1
        <3>3. q \in DscPositions(svcs)
            BY <2>1, <3>2, DscPositionsAre
        <3> QED BY <2>1, <2>4, <3>3
    <2> QED BY <2>3, <2>4
<1>11. ASSUME NEW q \in D, q[1] = at
       PROVE  /\ q = <<at, q[2]>> /\ q[2] \in Nat /\ q[2] # p + 1
              /\ f[q] = <<at, Old(p, q[2])>> /\ f[q] \in DscPositions(svcs)
    <2>1. q = <<at, q[2]>> /\ q[2] \in DOMAIN l
        BY <1>10, <1>11
    <2>2. q[2] # p + 1
        BY <2>1
    <2>3. Old(p, q[2]) \in DOMAIN old
        BY <1>4, <2>1, <2>2
    <2> DEFINE y == <<at, Old(p, q[2])>>
    <2>4. y[1] = at /\ y[2] = Old(p, q[2]) /\ y = <<y[1], y[2]>> /\ at[1] = i /\ at[2] = j
        OBVIOUS
    <2>5. f[q] = y
        BY <1>11
    <2> HIDE DEF y, f, at
    <2>6. y \in DscPositions(svcs)
        BY <1>9, <2>3, <2>4, DscPositionsAre DEF old
    <2> QED BY <1>4, <2>1, <2>2, <2>5, <2>6 DEF y
<1>12. ASSUME NEW q \in D, q[1] # at
       PROVE  f[q] = q /\ q \in DscPositions(svcs)
    BY <1>10, <1>12
<1>13. f \in Injection(D, DscPositions(svcs))
    <2>1. f \in [D -> DscPositions(svcs)]
        <3>1. \A q \in D : f[q] \in DscPositions(svcs)
            <4> HIDE DEF f, D, at
            <4> QED BY <1>11, <1>12
        <3> QED BY <3>1
    <2>2. ASSUME NEW a \in D, NEW b \in D, f[a] = f[b] PROVE a = b
        <3> HIDE DEF f, D, at
        <3>1. CASE a[1] = at /\ b[1] = at
            <4>1. Old(p, a[2]) = Old(p, b[2])
                BY <1>11, <2>2, <3>1
            <4>2. a[2] = b[2]
                BY <1>3, <1>11, <3>1, <4>1, OldIsInjective
            <4> QED BY <1>11, <3>1, <4>2
        <3>2. CASE a[1] = at /\ b[1] # at
            <4>1. f[a][1] = at
                BY <1>11, <3>2
            <4> QED BY <1>12, <2>2, <3>2, <4>1
        <3>3. CASE a[1] # at /\ b[1] = at
            <4>1. f[b][1] = at
                BY <1>11, <3>3
            <4> QED BY <1>12, <2>2, <3>3, <4>1
        <3>4. CASE a[1] # at /\ b[1] # at
            BY <1>12, <2>2, <3>4
        <3> QED BY <3>1, <3>2, <3>3, <3>4
    <2> HIDE DEF f, D
    <2> QED BY <2>1, <2>2, Fun_IsInj
<1>14. IsFiniteSet(Positions(svcs)) /\ IsFiniteSet(DscPositions(svcs))
    BY <1>1, PositionsFinite
<1>15. /\ IsFiniteSet(DscPositions(svcs'))
       /\ Cardinality(DscPositions(svcs')) <= Cardinality(DscPositions(svcs)) + 1
    <2> HIDE DEF x, f
    <2> QED BY <1>13, <1>14, OneMore
<1> QED BY <1>6, <1>8, <1>14, <1>15
-----------------------------------------------------------------------------
(* The pools.                                                              *)

PoolInv ==
    /\ used \in [svc : 0..MaxSvcs, chr : 0..MaxChrs, dsc : 0..MaxDscs]
    /\ NoDoubleFree

(* Blocks taken from the pools, at most those listed and one more of pool. *)
LEMMA UsedBlocks ==
    ASSUME TypeInv, PoolInv
    PROVE  /\ used \in [svc : Nat, chr : Nat, dsc : Nat]
           /\ Len(svcs) \in Nat /\ used.svc >= Len(svcs)
           /\ Cardinality(Positions(svcs)) \in Nat /\ used.chr >= Cardinality(Positions(svcs))
           /\ Cardinality(DscPositions(svcs)) \in Nat
           /\ used.dsc >= Cardinality(DscPositions(svcs))
<1>1. used \in [svc : Nat, chr : Nat, dsc : Nat]
    BY PoolAssumption DEF PoolInv
<1>2. svcs \in Seq(Svc)
    BY TypesHold DEF Types
<1>3. /\ Cardinality(Positions(svcs)) \in Nat /\ Cardinality(DscPositions(svcs)) \in Nat
      /\ Len(svcs) \in Nat
    BY <1>2, PositionsFinite, FS_CardinalityType, LenProperties
<1>4. \A p \in {"svc", "chr", "dsc"} : used[p] >= Blocks(svcs)[p]
    BY <1>1 DEF PoolInv, NoDoubleFree
<1> QED BY <1>1, <1>3, <1>4 DEF Blocks

LEMMA PoolsHold ==
    ASSUME used' \in [svc : 0..MaxSvcs, chr : 0..MaxChrs, dsc : 0..MaxDscs],
           used'.svc >= Len(svcs'), used'.chr >= Cardinality(Positions(svcs')),
           used'.dsc >= Cardinality(DscPositions(svcs'))
    PROVE  PoolInv'
BY DEF PoolInv, NoDoubleFree, Blocks

LEMMA AddsPools ==
    ASSUME TypeInv, PoolInv, Adds
    PROVE  PoolInv'
<1> DEFINE P == Cardinality(Positions(svcs))
           D == Cardinality(DscPositions(svcs))
           Q == Cardinality(Positions(svcs'))
           E == Cardinality(DscPositions(svcs'))
           T == [svc : 0..MaxSvcs, chr : 0..MaxChrs, dsc : 0..MaxDscs]
<1>1. used \in T /\ {MaxSvcs, MaxChrs, MaxDscs} \subseteq Nat
    BY PoolAssumption DEF PoolInv
<1>2. /\ Len(svcs) \in Nat /\ P \in Nat /\ D \in Nat
      /\ used.svc >= Len(svcs) /\ used.chr >= P /\ used.dsc >= D
    BY UsedBlocks
<1>3. CASE UNCHANGED <<svcs, used>>
    BY <1>3 DEF PoolInv, NoDoubleFree
<1>4. CASE AddsSvc
    <2>1. Available("svc") /\ used' = [used EXCEPT !.svc = @ + 1]
        BY <1>4 DEF AddsSvc
    <2>2. /\ Len(svcs') \in Nat /\ Len(svcs') <= Len(svcs) + 1
          /\ Q <= P /\ E <= D /\ Q \in Nat /\ E \in Nat
        BY <1>4, SvcBlocks, FS_CardinalityType DEF AddsSvc
    <2>3. used.svc < MaxSvcs
        BY <2>1 DEF Available, Capacity
    <2> HIDE DEF P, D, Q, E
    <2>4. used' \in T
        BY <1>1, <2>1, <2>3
    <2>5. used'.svc >= Len(svcs') /\ used'.chr >= Q /\ used'.dsc >= E
        BY <1>1, <1>2, <2>1, <2>2
    <2> QED BY <2>4, <2>5, PoolsHold DEF Q, E
<1>5. CASE AddsChr
    <2>1. Available("chr") /\ used' = [used EXCEPT !.chr = @ + 1]
        BY <1>5 DEF AddsChr
    <2>2. Len(svcs') = Len(svcs) /\ Q <= P + 1 /\ E <= D /\ Q \in Nat /\ E \in Nat
        BY <1>5, ChrBlocks, FS_CardinalityType DEF AddsChr
    <2>3. used.chr < MaxChrs
        BY <2>1 DEF Available, Capacity
    <2> HIDE DEF P, D, Q, E
    <2>4. used' \in T
        BY <1>1, <2>1, <2>3
    <2>5. used'.svc >= Len(svcs') /\ used'.chr >= Q /\ used'.dsc >= E
        BY <1>1, <1>2, <2>1, <2>2
    <2> QED BY <2>4, <2>5, PoolsHold DEF Q, E
<1>6. CASE AddsDsc
    <2>1. Available("dsc") /\ used' = [used EXCEPT !.dsc = @ + 1]
        BY <1>6 DEF AddsDsc
    <2>2. Len(svcs') = Len(svcs) /\ Q = P /\ E <= D + 1 /\ E \in Nat
        BY <1>6, DscBlocks, FS_CardinalityType DEF AddsDsc
    <2>3. used.dsc < MaxDscs
        BY <2>1 DEF Available, Capacity
    <2> HIDE DEF P, D, Q, E
    <2>4. used' \in T
        BY <1>1, <2>1, <2>3
    <2>5. used'.svc >= Len(svcs') /\ used'.chr >= Q /\ used'.dsc >= E
        BY <1>1, <1>2, <2>1, <2>2
    <2> QED BY <2>4, <2>5, PoolsHold DEF Q, E
<1> QED BY <1>3, <1>4, <1>5, <1>6 DEF Adds

(* The lists are freed, and the pools have their blocks back.              *)
LEMMA ReleasedPools ==
    ASSUME TypeInv, PoolInv, svcs' = <<>>, used' = Released
    PROVE  PoolInv' /\ (NoLeak => NoLeak')
<1> DEFINE T == [svc : 0..MaxSvcs, chr : 0..MaxChrs, dsc : 0..MaxDscs]
           b == Blocks(svcs)
<1>1. used \in T /\ {MaxSvcs, MaxChrs, MaxDscs} \subseteq Nat
    BY PoolAssumption DEF PoolInv
<1>2. b \in [svc : Nat, chr : Nat, dsc : Nat]
    BY TypesHold, BlocksType DEF Types
<1>3. \A p \in {"svc", "chr", "dsc"} : used[p] >= b[p]
    BY <1>1 DEF PoolInv, NoDoubleFree
<1> HIDE DEF b
<1>4. used' = [p \in {"svc", "chr", "dsc"} |-> used[p] - b[p]]
    BY <1>1 DEF Released, b
<1>5. used' \in T
    BY <1>1, <1>2, <1>3, <1>4
<1>6. PoolInv'
    <2>1. Blocks(svcs') = [svc |-> 0, chr |-> 0, dsc |-> 0]
        BY NoBlocks
    <2> QED BY <1>1, <1>5, <2>1 DEF PoolInv, NoDoubleFree
<1>7. ASSUME NoLeak PROVE NoLeak'
    <2>1. used = b
        BY <1>7 DEF NoLeak, b
    <2>2. used' = [svc |-> 0, chr |-> 0, dsc |-> 0]
        BY <1>2, <1>4, <2>1
    <2> QED BY <2>2, NoBlocks DEF NoLeak
<1> QED BY <1>6, <1>7

LEMMA PoolsInit == Init => PoolInv
<1> SUFFICES ASSUME Init PROVE PoolInv
    OBVIOUS
<1>1. svcs = <<>> /\ used = [svc |-> 0, chr |-> 0, dsc |-> 0] /\ {MaxSvcs, MaxChrs, MaxDscs} \subseteq Nat
    BY PoolAssumption DEF Init
<1>2. used \in [svc : 0..MaxSvcs, chr : 0..MaxChrs, dsc : 0..MaxDscs]
    BY <1>1
<1> QED BY <1>1, <1>2, NoBlocks DEF PoolInv, NoDoubleFree

(* A step of a chain that leaves the lists, or a new link.                 *)
LEMMA PoolsKept ==
    ASSUME PoolInv, used' = used, svcs' = svcs \/ svcs' = <<>>
    PROVE  PoolInv'
<1>1. CASE svcs' = svcs
    BY <1>1 DEF PoolInv, NoDoubleFree
<1>2. CASE svcs' = <<>>
    <2>1. \A p \in DOMAIN used : used[p] >= 0 /\ p \in {"svc", "chr", "dsc"}
        BY PoolAssumption DEF PoolInv
    <2> QED BY <1>2, <2>1, NoBlocks DEF PoolInv, NoDoubleFree
<1> QED BY <1>1, <1>2

LEMMA PoolsStep ==
    ASSUME TypeInv, PoolInv, [Next]_vars
    PROVE  PoolInv'
<1>1. CASE Connect
    BY <1>1, PoolsKept DEF Connect
<1>2. CASE Disconnect
    BY <1>2, ReleasedPools DEF Disconnect
<1>3. CASE peer_disc_all
    BY <1>3, ReleasedPools DEF peer_disc_all, Undiscover
<1>4. ASSUME NEW c \in Chains, ProcError(c) PROVE PoolInv'
    BY <1>4, PoolsKept DEF ProcError
<1>5. ASSUME NEW c \in Chains, NEW starts \in BOOLEAN, Answer(c, starts) PROVE PoolInv'
    <2>1. CASE peer_svc_disced(c) \/ peer_chr_disced(c) \/ peer_dsc_disced(c)
        BY <2>1, SvcAdds, ChrAdds, DscAdds, AddsPools
    <2>2. CASE peer_svc_done(c, starts) \/ peer_chr_done(c, starts) \/ peer_dsc_done(c, starts)
        BY <2>2, PoolsKept DEF peer_svc_done, peer_chr_done, peer_dsc_done
    <2> QED BY <1>5, <2>1, <2>2 DEF Answer
<1>6. CASE UNCHANGED vars
    BY <1>6, PoolsKept DEF vars
<1> QED BY <1>1, <1>2, <1>3, <1>4, <1>5, <1>6 DEF Next
-----------------------------------------------------------------------------
(* What holds of the types and the pools in every reachable state.         *)

LEMMA TypesAndPools == Spec => [](TypeInv /\ PoolInv)
<1>1. Init => TypeInv /\ PoolInv
    BY TypesInit, PoolsInit
<1>2. TypeInv /\ PoolInv /\ [Next]_vars => (TypeInv /\ PoolInv)'
    BY TypesStep, PoolsStep
<1> QED BY <1>1, <1>2, PTL DEF Spec

LEMMA TypeOKHolds ==
    ASSUME TypeInv, PoolInv
    PROVE  TypeOK
<1> DEFINE n == Len(table)
<1>1. table \in Tables \cup {<<>>} /\ ControlTypes /\ n \in Nat /\ n <= MaxHandle /\ MaxHandle \in Nat
    BY TableType DEF TypeInv, MaxHandle
<1>2. 0..n \subseteq Handle /\ 1..n \subseteq Handle /\ 1..(n + 1) \subseteq 0..(MaxHandle + 1)
    BY <1>1 DEF Handle
<1>3. svcs \in SvcList
    <2>1. svcs \in Seq(SvcOf(n))
        BY DEF TypeInv
    <2>2. Seq(1..n) \subseteq Seq(Handle)
        BY <1>2
    <2> DEFINE R == [def : Handle, val : Handle, dscs : Seq(Handle)]
    <2>3. ChrOf(n) \subseteq R
        BY <1>2, <2>2 DEF ChrOf
    <2> HIDE DEF R
    <2>4. Seq(ChrOf(n)) \subseteq ChrList
        <3>1. Seq(ChrOf(n)) \subseteq Seq(R)
            BY <2>3
        <3> QED BY <3>1 DEF ChrList, R
    <2> DEFINE S == [start : Handle, end : Handle, chrs : ChrList]
    <2>5. SvcOf(n) \subseteq S
        BY <1>2, <2>4 DEF SvcOf
    <2> HIDE DEF S
    <2>6. svcs \in Seq(S)
        BY <2>1, <2>5
    <2> QED BY <2>6 DEF SvcList, S
<1>4. prev \in Handle /\ cur \in [start : Handle, freed : BOOLEAN]
    BY <1>2 DEF TypeInv
<1>5. chain \in [Chains -> [step : {"none", "svc", "chr", "dsc"}, at : 0..(MaxHandle + 1),
                            end : Handle, val : Handle]]
    <2> DEFINE R == [step : {"none", "svc", "chr", "dsc"}, at : 0..(MaxHandle + 1),
                     end : Handle, val : Handle]
    <2>1. ProcOf(n) \subseteq R
        BY <1>2 DEF ProcOf
    <2>2. Idle \in R
        BY <1>1, <1>2 DEF Idle
    <2> HIDE DEF R
    <2>3. chain \in [Chains -> R]
        BY <1>1, <2>1, <2>2 DEF ControlTypes
    <2> QED BY <2>3 DEF R
<1>6. used \in [svc : 0..MaxSvcs, chr : 0..MaxChrs, dsc : 0..MaxDscs]
    BY DEF PoolInv
<1> QED BY <1>1, <1>3, <1>4, <1>5, <1>6 DEF TypeOK, ControlTypes

(* Every variable has its type, whether or not discoveries overlap: no     *)
(* handle leaves the range of the 16 bits it has (peer.c computes the ends *)
(* of ranges and the next handle from those it was told), and no pool is   *)
(* overdrawn (os_memblock_get).                                            *)
THEOREM TypeCorrect == Spec => []TypeOK
<1>1. TypeInv /\ PoolInv => TypeOK
    BY TypeOKHolds
<1> QED BY <1>1, TypesAndPools, PTL

(* Deleting the lists never gives a pool more blocks than were taken from  *)
(* it, whether or not discoveries overlap (peer_svc_delete, which          *)
(* Disconnect and peer_disc_all run for every service).                    *)
THEOREM PoolsNotOverfilled == Spec => []NoDoubleFree
<1>1. PoolInv => NoDoubleFree
    BY DEF PoolInv
<1> QED BY <1>1, TypesAndPools, PTL
-----------------------------------------------------------------------------
(* While discoveries do not overlap, what is listed is new and goes to the *)
(* end of its list, so that the bounds above are exact.                    *)

LEMMA Grown ==
    ASSUME NEW S, NEW T, IsFiniteSet(T), S \subseteq T, Cardinality(S) \in Nat
    PROVE  /\ Cardinality(T) <= Cardinality(S) => Cardinality(T) = Cardinality(S)
           /\ S # T /\ Cardinality(T) <= Cardinality(S) + 1
                => Cardinality(T) = Cardinality(S) + 1
<1>1. /\ Cardinality(S) <= Cardinality(T) /\ (Cardinality(T) = Cardinality(S) => S = T)
      /\ Cardinality(T) \in Nat
    BY FS_Subset, FS_CardinalityType
<1> QED BY <1>1

LEMMA ListedOnes ==
    ASSUME TypeInv
    PROVE  /\ svcs \in Seq(Svc) /\ Len(svcs) \in Nat /\ DOMAIN svcs = 1..Len(svcs)
           /\ Cardinality(Positions(svcs)) \in Nat /\ Cardinality(DscPositions(svcs)) \in Nat
<1>1. svcs \in Seq(Svc)
    BY TypesHold DEF Types
<1> QED BY <1>1, SvcKeysType, PositionsFinite, FS_CardinalityType

(* Positions that stay, when the elements keep theirs.                     *)
LEMMA PositionsStay ==
    ASSUME NEW list, NEW next,
           \A i \in DOMAIN list : i \in DOMAIN next /\ DOMAIN list[i].chrs \subseteq DOMAIN next[i].chrs
    PROVE  Positions(list) \subseteq Positions(next)
BY PositionsAre

LEMMA DscPositionsStay ==
    ASSUME NEW list, NEW next, Positions(list) \subseteq Positions(next),
           \A p \in Positions(list) : DOMAIN list[p[1]].chrs[p[2]].dscs
                                        \subseteq DOMAIN next[p[1]].chrs[p[2]].dscs
    PROVE  DscPositions(list) \subseteq DscPositions(next)
BY DscPositionsAre

LEMMA SvcExact ==
    ASSUME TypeInv, NEW svc \in SvcOf(Len(table)), svc.chrs = <<>>, svcs' = Append(svcs, svc)
    PROVE  Blocks(svcs') = [Blocks(svcs) EXCEPT !.svc = @ + 1]
<1>1. /\ svcs \in Seq(Svc) /\ Len(svcs) \in Nat /\ DOMAIN svcs = 1..Len(svcs)
      /\ Cardinality(Positions(svcs)) \in Nat /\ Cardinality(DscPositions(svcs)) \in Nat
    BY ListedOnes
<1>2. svcs' = Insert(svcs, Len(svcs), svc)
    <2>1. svcs \in Seq(SvcOf(Len(table)))
        BY DEF TypeInv
    <2> QED BY <2>1, InsertAtEnd
<1>3. /\ IsFiniteSet(Positions(svcs')) /\ IsFiniteSet(DscPositions(svcs'))
      /\ Cardinality(Positions(svcs')) <= Cardinality(Positions(svcs))
      /\ Cardinality(DscPositions(svcs')) <= Cardinality(DscPositions(svcs))
    <2>1. Len(svcs) \in 0..Len(svcs)
        BY <1>1
    <2> QED BY <1>2, <2>1, SvcBlocks
<1>4. /\ Len(svcs') = Len(svcs) + 1
      /\ \A i \in DOMAIN svcs : i \in DOMAIN svcs' /\ svcs'[i] = svcs[i]
    <2>1. svcs \in Seq(SvcOf(Len(table)))
        BY DEF TypeInv
    <2>2. /\ Len(svcs') = Len(svcs) + 1 /\ svcs' \in Seq(SvcOf(Len(table)))
          /\ \A i \in 1..Len(svcs) : svcs'[i] = svcs[i]
        BY <2>1, AppendProperties
    <2>3. DOMAIN svcs' = 1..(Len(svcs) + 1)
        BY <2>2, LenProperties
    <2> QED BY <1>1, <2>2, <2>3
<1>5. Positions(svcs) \subseteq Positions(svcs')
    BY <1>4, PositionsStay
<1>6. DscPositions(svcs) \subseteq DscPositions(svcs')
    <2>1. \A p \in Positions(svcs) : svcs'[p[1]] = svcs[p[1]]
        BY <1>1, <1>4, PositionsType
    <2> QED BY <1>5, <2>1, DscPositionsStay
<1>7. /\ Cardinality(Positions(svcs')) = Cardinality(Positions(svcs))
      /\ Cardinality(DscPositions(svcs')) = Cardinality(DscPositions(svcs))
    BY <1>1, <1>3, <1>5, <1>6, Grown
<1> QED BY <1>4, <1>7 DEF Blocks

AppendsChr(i, chr) == svcs' = [svcs EXCEPT ![i].chrs = Append(@, chr)]
AppendsDsc(i, j, h) == svcs' = [svcs EXCEPT ![i].chrs[j].dscs = Append(@, h)]

LEMMA ChrExact ==
    ASSUME TypeInv, NEW i \in DOMAIN svcs, NEW chr \in ChrOf(Len(table)), chr.dscs = <<>>,
           AppendsChr(i, chr)
    PROVE  Blocks(svcs') = [Blocks(svcs) EXCEPT !.chr = @ + 1]
<1> DEFINE chrs == svcs[i].chrs
           n == Len(table)
           list == Append(chrs, chr)
           x == <<i, Len(chrs) + 1>>
<1>1. /\ svcs \in Seq(Svc) /\ Len(svcs) \in Nat /\ DOMAIN svcs = 1..Len(svcs)
      /\ Cardinality(Positions(svcs)) \in Nat /\ Cardinality(DscPositions(svcs)) \in Nat
    BY ListedOnes
<1>2. chrs \in Seq(ChrOf(n)) /\ Len(chrs) \in Nat /\ DOMAIN chrs = 1..Len(chrs)
      /\ chr \in Chr /\ chrs \in Seq(Chr)
    <2>1. n \in Nat /\ svcs \in Seq(SvcOf(n))
        BY TypesHold DEF TypeInv
    <2>2. chrs \in Seq(ChrOf(n))
        BY <2>1, ListTypes DEF SvcOf
    <2>3. chr \in Chr
        <3>1. chr.def \in Nat /\ chr.val \in Nat \ {0} /\ chr.def \in Nat \ {0} /\ chr.dscs \in Seq(Nat)
            BY <2>1 DEF ChrOf
        <3> QED BY <3>1 DEF ChrOf, Chr
    <2> QED BY <1>1, <2>2, <2>3, ChrKeysType
<1>3. list \in Seq(Chr) /\ Len(list) = Len(chrs) + 1 /\ DOMAIN list = 1..(Len(chrs) + 1)
      /\ \A j \in DOMAIN chrs : list[j] = chrs[j]
    <2>1. /\ list \in Seq(Chr) /\ Len(list) = Len(chrs) + 1
          /\ \A j \in 1..Len(chrs) : list[j] = chrs[j]
        BY <1>2, AppendProperties
    <2> HIDE DEF list
    <2> QED BY <1>2, <2>1, LenProperties
<1>4. LinksChr(i, Len(chrs), chr)
    <2>1. Link(chrs, Len(chrs), chr) = list
        BY <1>2, InsertAtEnd
    <2> QED BY <2>1 DEF LinksChr, AppendsChr
<1>5. /\ Len(svcs') = Len(svcs)
      /\ IsFiniteSet(Positions(svcs')) /\ IsFiniteSet(DscPositions(svcs'))
      /\ Cardinality(Positions(svcs')) <= Cardinality(Positions(svcs)) + 1
      /\ Cardinality(DscPositions(svcs')) <= Cardinality(DscPositions(svcs))
    <2>1. Len(chrs) \in 0..Len(chrs)
        BY <1>2
    <2> QED BY <1>4, <2>1, ChrBlocks
<1>6. svcs' = [svcs EXCEPT ![i].chrs = list]
    BY DEF AppendsChr
<1> HIDE DEF list, chrs
<1>7. /\ DOMAIN svcs' = DOMAIN svcs
      /\ \A k \in DOMAIN svcs : k # i => svcs'[k].chrs = svcs[k].chrs
      /\ svcs'[i].chrs = list
    BY <1>1, <1>3, <1>6, SetChrsEffect
<1>8. Positions(svcs) \subseteq Positions(svcs')
    <2>1. \A k \in DOMAIN svcs : DOMAIN svcs[k].chrs \subseteq DOMAIN svcs'[k].chrs
        BY <1>2, <1>3, <1>7 DEF chrs
    <2> QED BY <1>7, <2>1, PositionsStay
<1>9. DscPositions(svcs) \subseteq DscPositions(svcs')
    <2>1. \A p \in Positions(svcs) : svcs'[p[1]].chrs[p[2]] = svcs[p[1]].chrs[p[2]]
        BY <1>1, <1>3, <1>7, PositionsType DEF chrs
    <2> QED BY <1>8, <2>1, DscPositionsStay
<1>10. x \in Positions(svcs') /\ x \notin Positions(svcs)
    <2>1. x[1] = i /\ x[2] = Len(chrs) + 1 /\ x = <<x[1], x[2]>>
        OBVIOUS
    <2> HIDE DEF x
    <2>2. x[2] \in DOMAIN svcs'[x[1]].chrs
        BY <1>2, <1>3, <1>7, <2>1
    <2>3. x \in Positions(svcs')
        BY <1>7, <2>1, <2>2, PositionsAre
    <2>4. x[2] \notin DOMAIN svcs[x[1]].chrs
        BY <1>2, <2>1 DEF chrs
    <2> QED BY <2>3, <2>4, PositionsAre
<1>11. /\ Cardinality(Positions(svcs')) = Cardinality(Positions(svcs)) + 1
       /\ Cardinality(DscPositions(svcs')) = Cardinality(DscPositions(svcs))
    BY <1>1, <1>5, <1>8, <1>9, <1>10, Grown
<1> QED BY <1>5, <1>11 DEF Blocks

LEMMA DscExact ==
    ASSUME TypeInv, NEW i \in DOMAIN svcs, NEW j \in DOMAIN svcs[i].chrs, NEW h \in 1..Len(table),
           AppendsDsc(i, j, h)
    PROVE  Blocks(svcs') = [Blocks(svcs) EXCEPT !.dsc = @ + 1]
<1> DEFINE old == svcs[i].chrs[j].dscs
           list == Append(old, h)
           x == <<<<i, j>>, Len(old) + 1>>
<1>1. /\ svcs \in Seq(Svc) /\ Len(svcs) \in Nat /\ DOMAIN svcs = 1..Len(svcs)
      /\ Cardinality(Positions(svcs)) \in Nat /\ Cardinality(DscPositions(svcs)) \in Nat
    BY ListedOnes
<1>2. old \in Seq(Nat) /\ Len(old) \in Nat /\ DOMAIN old = 1..Len(old) /\ h \in Nat
    <2>1. svcs[i].chrs[j] \in Chr
        BY <1>1, ChrKeysType
    <2>2. old \in Seq(Nat)
        BY <2>1 DEF Chr
    <2>3. h \in Nat
        BY TypesHold
    <2> HIDE DEF old
    <2> QED BY <2>2, <2>3, LenProperties
<1>3. /\ list \in Seq(Nat) /\ DOMAIN list = 1..(Len(old) + 1)
    <2> HIDE DEF old
    <2>1. list \in Seq(Nat) /\ Len(list) = Len(old) + 1
        BY <1>2, AppendProperties
    <2> HIDE DEF list
    <2> QED BY <2>1, LenProperties
<1>4. LinksDsc(i, j, Len(old), h)
    <2>1. Link(old, Len(old), h) = list
        <3> HIDE DEF old
        <3> QED BY <1>2, InsertAtEnd
    <2> QED BY <2>1 DEF LinksDsc, AppendsDsc
<1>5. /\ Len(svcs') = Len(svcs) /\ Positions(svcs') = Positions(svcs)
      /\ IsFiniteSet(DscPositions(svcs'))
      /\ Cardinality(DscPositions(svcs')) <= Cardinality(DscPositions(svcs)) + 1
    <2>1. Len(old) \in 0..Len(old)
        BY <1>2
    <2> QED BY <1>4, <2>1, DscBlocks
<1>6. svcs' = [svcs EXCEPT ![i].chrs[j].dscs = list]
    BY DEF AppendsDsc
<1> HIDE DEF list, old
<1>7. OnlyDscs(i, j, list)
    BY <1>1, <1>3, <1>6, SetDscsEffect
<1>8. ASSUME NEW p \in Positions(svcs)
      PROVE  /\ p # <<i, j>> => svcs'[p[1]].chrs[p[2]].dscs = svcs[p[1]].chrs[p[2]].dscs
             /\ p = <<i, j>> => svcs'[p[1]].chrs[p[2]].dscs = list
    <2>1. p = <<p[1], p[2]>> /\ p[1] \in DOMAIN svcs /\ p[2] \in DOMAIN svcs[p[1]].chrs
        BY PositionsAre
    <2>2. p = <<i, j>> => p[1] = i /\ p[2] = j
        OBVIOUS
    <2> QED BY <1>7, <2>1, <2>2 DEF OnlyDscs
<1>9. <<i, j>> \in Positions(svcs)
    <2> DEFINE at == <<i, j>>
    <2>1. at[1] = i /\ at[2] = j /\ at = <<at[1], at[2]>>
        OBVIOUS
    <2> HIDE DEF at
    <2>2. at \in Positions(svcs)
        BY <2>1, PositionsAre
    <2> QED BY <2>2 DEF at
<1>10. DscPositions(svcs) \subseteq DscPositions(svcs')
    <2>1. ASSUME NEW p \in Positions(svcs)
          PROVE  DOMAIN svcs[p[1]].chrs[p[2]].dscs \subseteq DOMAIN svcs'[p[1]].chrs[p[2]].dscs
        <3>1. CASE p = <<i, j>>
            <4>1. p[1] = i /\ p[2] = j
                BY <3>1
            <4>2. svcs[p[1]].chrs[p[2]].dscs = old
                BY <4>1 DEF old
            <4>3. svcs'[p[1]].chrs[p[2]].dscs = list
                BY <1>8, <3>1
            <4>4. DOMAIN old \subseteq DOMAIN list
                BY <1>2, <1>3
            <4> QED BY <4>2, <4>3, <4>4
        <3>2. CASE p # <<i, j>>
            BY <1>8, <3>2
        <3> QED BY <3>1, <3>2
    <2> QED BY <1>5, <2>1, DscPositionsStay
<1>11. x \in DscPositions(svcs') /\ x \notin DscPositions(svcs)
    <2> DEFINE at == <<i, j>>
    <2>1. x[1] = at /\ x[2] = Len(old) + 1 /\ x = <<x[1], x[2]>> /\ at[1] = i /\ at[2] = j
        OBVIOUS
    <2> HIDE DEF x
    <2>2. x[2] \in DOMAIN svcs'[x[1][1]].chrs[x[1][2]].dscs /\ x[1] \in Positions(svcs')
        <3>1. svcs'[x[1][1]].chrs[x[1][2]].dscs = list
            BY <1>8, <1>9, <2>1 DEF at
        <3>2. x[2] \in DOMAIN list
            BY <1>2, <1>3, <2>1
        <3>3. x[1] \in Positions(svcs')
            BY <1>5, <1>9, <2>1 DEF at
        <3> QED BY <3>1, <3>2, <3>3
    <2>3. x \in DscPositions(svcs')
        BY <2>1, <2>2, DscPositionsAre
    <2>4. x[2] \notin DOMAIN svcs[x[1][1]].chrs[x[1][2]].dscs
        BY <1>2, <2>1 DEF old
    <2> QED BY <2>3, <2>4, DscPositionsAre
<1>12. Cardinality(DscPositions(svcs')) = Cardinality(DscPositions(svcs)) + 1
    BY <1>1, <1>5, <1>10, <1>11, Grown
<1> QED BY <1>5, <1>12 DEF Blocks

LEMMA AnswerLeaks ==
    ASSUME TypeInv, ListsInv, NoLeak, NEW c \in Chains,
           peer_svc_disced(c) \/ peer_chr_disced(c) \/ peer_dsc_disced(c)
    PROVE  NoLeak'
<1> DEFINE n == Len(table)
           m == Min(Reported(c))
<1>0. chain[c] # Idle /\ Reported(c) # {}
    BY SvcAdds, ChrAdds, DscAdds DEF peer_svc_disced, peer_chr_disced, peer_dsc_disced
<1>1. m \in 1..n /\ (chain[c].step = "chr" => m + 1 \in 1..n) /\ n \in Nat
    BY <1>0, ReportedIsAttr, TypesHold
<1>2. CASE OutOfMemory(c)
    BY <1>2 DEF OutOfMemory, NoLeak
<1>3. CASE peer_svc_disced(c) /\ ~ OutOfMemory(c)
    <2> DEFINE svc == [start |-> m, end |-> SvcEnd(table, m), chrs |-> <<>>]
    <2>1. svcs' = Append(svcs, svc) /\ used' = [used EXCEPT !.svc = @ + 1] /\ m \in Services(table)
        BY <1>3, SvcAnswer
    <2>2. svc \in SvcOf(n) /\ svc.chrs = <<>>
        <3>1. DOMAIN table = 1..n /\ table \in Seq(AttrTypes)
            BY TableType DEF TypeInv
        <3>2. SvcEnd(table, m) \in m..n
            BY <1>1, <3>1, SvcEndType
        <3> HIDE DEF m
        <3>3. SvcEnd(table, m) \in 1..n
            BY <1>1, <3>2
        <3> QED BY <1>1, <3>3 DEF SvcOf
    <2> HIDE DEF svc
    <2> QED BY <2>1, <2>2, SvcExact DEF NoLeak
<1>4. CASE peer_chr_disced(c) /\ ~ OutOfMemory(c)
    <2> DEFINE chr == [def |-> m, val |-> m + 1, dscs |-> <<>>]
    <2>1. /\ \E i \in DOMAIN svcs : svcs' = [svcs EXCEPT ![i].chrs = Append(@, chr)]
          /\ used' = [used EXCEPT !.chr = @ + 1]
        BY <1>4, ChrAnswer
    <2>2. chr \in ChrOf(n) /\ chr.dscs = <<>>
        BY <1>1, <1>4 DEF ChrOf, peer_chr_disced
    <2> HIDE DEF chr
    <2> QED BY <2>1, <2>2, ChrExact DEF NoLeak, AppendsChr
<1>5. CASE peer_dsc_disced(c) /\ ~ OutOfMemory(c)
    <2>1. /\ \E i \in DOMAIN svcs : \E j \in DOMAIN svcs[i].chrs :
               svcs' = [svcs EXCEPT ![i].chrs[j].dscs = Append(@, m)]
          /\ used' = [used EXCEPT !.dsc = @ + 1]
        BY <1>5, DscAnswer
    <2> HIDE DEF m
    <2> QED BY <1>1, <2>1, DscExact DEF NoLeak, AppendsDsc
<1> QED BY <1>2, <1>3, <1>4, <1>5

LEMMA NoLeakStep ==
    ASSUME Overlap = FALSE, TypeInv, PoolInv, ListsInv, NoLeak, [Next]_vars
    PROVE  NoLeak'
<1>1. CASE Connect
    <2>1. svcs' = <<>> /\ used' = used /\ link = "down"
        BY <1>1 DEF Connect
    <2>2. svcs = <<>>
        <3>1. table = <<>> /\ svcs \in Seq(SvcOf(Len(table)))
            BY <2>1 DEF TypeInv, ControlTypes
        <3>2. \A i \in DOMAIN svcs : svcs[i].start \in {}
            BY <3>1, ListTypes DEF SvcOf
        <3>3. DOMAIN svcs = {} /\ DOMAIN svcs = 1..Len(svcs) /\ Len(svcs) \in Nat
            BY <3>1, <3>2, ListedOnes
        <3> QED BY <3>1, <3>3, EmptySeq
    <2> QED BY <2>1, <2>2 DEF NoLeak
<1>2. CASE Disconnect
    BY <1>2, ReleasedPools DEF Disconnect
<1>3. CASE peer_disc_all
    BY <1>3, ReleasedPools DEF peer_disc_all, Undiscover
<1>4. ASSUME NEW c \in Chains, ProcError(c) PROVE NoLeak'
    BY <1>4 DEF ProcError, NoLeak
<1>5. ASSUME NEW c \in Chains, NEW starts \in BOOLEAN, Answer(c, starts) PROVE NoLeak'
    <2>1. CASE peer_svc_disced(c) \/ peer_chr_disced(c) \/ peer_dsc_disced(c)
        BY <2>1, AnswerLeaks
    <2>2. CASE peer_svc_done(c, starts) \/ peer_chr_done(c, starts) \/ peer_dsc_done(c, starts)
        BY <2>2 DEF peer_svc_done, peer_chr_done, peer_dsc_done, NoLeak
    <2> QED BY <1>5, <2>1, <2>2 DEF Answer
<1>6. CASE UNCHANGED vars
    BY <1>6 DEF vars, NoLeak
<1> QED BY <1>1, <1>2, <1>3, <1>4, <1>5, <1>6 DEF Next

(* While discoveries do not overlap, every block taken from a pool is on   *)
(* the peer's lists, from which peer_delete and peer_disc_all give it back *)
(* (peer_svc_add, peer_chr_add, peer_dsc_add; with overlapping discoveries *)
(* SLIST_NEXT(prev, next) = e unlinks what follows, and blocks leak).      *)
THEOREM NothingLeaks ==
    ASSUME Overlap = FALSE
    PROVE  Spec => []NoLeak
<1>1. Overlap = FALSE
    OBVIOUS
<1>2. Init => ListsInv /\ TypeInv /\ PoolInv /\ NoLeak
    <2>1. Init => NoLeak
        BY NoBlocks DEF Init, NoLeak
    <2> QED BY <2>1, ListsInit, TypesInit, PoolsInit
<1>3. ListsInv /\ TypeInv /\ PoolInv /\ NoLeak /\ [Next]_vars
        => (ListsInv /\ TypeInv /\ PoolInv /\ NoLeak)'
    BY <1>1, ListsStep, TypesStep, PoolsStep, NoLeakStep
<1> QED BY <1>2, <1>3, PTL DEF Spec
=============================================================================
