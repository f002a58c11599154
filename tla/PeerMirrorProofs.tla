-------------------------- MODULE PeerMirrorProofs --------------------------
(***************************************************************************)
(* What discovery has found, for any attribute tables, pools and bounds,   *)
(* as long as discoveries do not overlap: a reported success means that    *)
(* the peer's lists are the camera's table, and peer.c implements          *)
(* DiscoveryService, but for its liveness.                                 *)
(*                                                                         *)
(* MirrorInv is inductive on top of ListsInv.  It says how far a discovery *)
(* has come: everything behind the place its procedure has reached is      *)
(* listed, and nothing in front of it.                                     *)
(***************************************************************************)
EXTENDS PeerDiscoveryProofs, FiniteSetTheorems, FunctionTheorems

-----------------------------------------------------------------------------
(* Sorted sets.                                                            *)

(* The first elements of a rising list are counted by their positions.     *)
LEMMA CountFirst ==
    ASSUME NEW s \in Seq(Nat), Rising(s), NEW n \in 0..Len(s)
    PROVE  Cardinality({s[k] : k \in 1..n}) = n
<1> DEFINE T == {s[k] : k \in 1..n}
           f == [k \in 1..n |-> s[k]]
<1>1. Len(s) \in Nat /\ DOMAIN s = 1..Len(s) /\ \A k \in 1..Len(s) : s[k] \in Nat
    BY LenProperties, ElementOfSeq
<1>2. n \in Nat /\ 1..n \subseteq 1..Len(s)
    BY <1>1
<1>3. f \in [1..n -> T]
    OBVIOUS
<1>4. ASSUME NEW a \in 1..n, NEW b \in 1..n, f[a] = f[b] PROVE a = b
    <2>1. s[a] = s[b] /\ s[a] \in Nat /\ a \in DOMAIN s /\ b \in DOMAIN s
        BY <1>1, <1>2, <1>4
    <2>2. ~ (a < b) /\ ~ (b < a)
        BY <2>1 DEF Rising
    <2> QED BY <2>2
<1>5. \A x \in T : \E k \in 1..n : f[k] = x
    OBVIOUS
<1> HIDE DEF f, T
<1>6. f \in Bijection(1..n, T)
    BY <1>3, <1>4, <1>5, Fun_IsBij
<1>7. ExistsBijection(1..n, T)
    BY <1>6 DEF ExistsBijection
<1> QED BY <1>2, <1>7, FS_CountingElements DEF T

(* A rising list is its elements, sorted.                                  *)
LEMMA SortedIs ==
    ASSUME NEW s \in Seq(Nat), Rising(s), NEW S, S = {s[k] : k \in DOMAIN s}
    PROVE  Sorted(S) = s
<1>1. Len(s) \in Nat /\ DOMAIN s = 1..Len(s) /\ \A k \in 1..Len(s) : s[k] \in Nat
    BY LenProperties, ElementOfSeq
<1>2. Cardinality(S) = Len(s)
    <2>1. Len(s) \in 0..Len(s)
        BY <1>1
    <2>2. Cardinality({s[k] : k \in 1..Len(s)}) = Len(s)
        BY <2>1, CountFirst
    <2>3. S = {s[k] : k \in 1..Len(s)}
        BY <1>1
    <2> QED BY <2>2, <2>3
<1>3. ASSUME NEW i \in 1..Len(s) PROVE Cardinality({y \in S : y <= s[i]}) = i
    <2>1. {y \in S : y <= s[i]} = {s[k] : k \in 1..i}
        <3>1. ASSUME NEW k \in 1..Len(s) PROVE s[k] <= s[i] <=> k <= i
            <4>1. k < i => s[k] < s[i]
                BY <1>1 DEF Rising
            <4>2. i < k => s[i] < s[k]
                BY <1>1 DEF Rising
            <4> QED BY <1>1, <4>1, <4>2
        <3>2. \A y \in S : y <= s[i] => y \in {s[k] : k \in 1..i}
            BY <1>1, <3>1
        <3>3. ASSUME NEW k \in 1..i PROVE s[k] \in S /\ s[k] <= s[i]
            <4>1. k \in 1..Len(s) /\ k <= i
                BY <1>1
            <4>2. s[k] \in S
                BY <1>1, <4>1
            <4> QED BY <3>1, <4>1, <4>2
        <3> QED BY <3>2, <3>3
    <2>2. i \in 0..Len(s)
        BY <1>1
    <2>3. Cardinality({s[k] : k \in 1..i}) = i
        BY <2>2, CountFirst
    <2> QED BY <2>1, <2>3
<1>4. ASSUME NEW i \in 1..Len(s)
      PROVE  (CHOOSE x \in S : Cardinality({y \in S : y <= x}) = i) = s[i]
    <2>1. s[i] \in S
        BY <1>1
    <2>2. ASSUME NEW x \in S, Cardinality({y \in S : y <= x}) = i PROVE x = s[i]
        <3>1. PICK k \in 1..Len(s) : x = s[k]
            BY <1>1
        <3>2. k = i
            BY <1>3, <2>2, <3>1
        <3> QED BY <3>1, <3>2
    <2> QED BY <1>3, <2>1, <2>2
<1>5. Sorted(S) = [i \in 1..Len(s) |-> s[i]]
    BY <1>2, <1>4 DEF Sorted
<1>6. s = [i \in 1..Len(s) |-> s[i]]
    BY <1>1
<1> QED BY <1>5, <1>6
-----------------------------------------------------------------------------
(* What is found.                                                          *)

SvcsFound == \A s \in Services(table) : \E i \in DOMAIN svcs : svcs[i].start = s

ChrsFound(i) ==
    \A d \in Chrs(table, svcs[i].start) : \E j \in DOMAIN svcs[i].chrs : svcs[i].chrs[j].def = d

DscHandles(i, j) ==
    {h \in (svcs[i].chrs[j].def + 2)..ChrEnd(table, svcs[i].start, svcs[i].chrs[j].def) : table[h] # "gap"}

DscsFound(i, j) ==
    \A h \in DscHandles(i, j) :
        \E k \in DOMAIN svcs[i].chrs[j].dscs : svcs[i].chrs[j].dscs[k] = h

DscsListed ==
    \A i \in DOMAIN svcs : \A j \in DOMAIN svcs[i].chrs :
        \A k \in DOMAIN svcs[i].chrs[j].dscs : svcs[i].chrs[j].dscs[k] \in DscHandles(i, j)

(* A characteristic ends before the next one of its service.               *)
LEMMA ChrEndIs ==
    ASSUME NEW t \in Seq(AttrTypes), NEW s \in Services(t), NEW d \in Chrs(t, s)
    PROVE  /\ d \in Nat /\ SvcEnd(t, s) \in Nat
           /\ ChrEnd(t, s, d) \in d..SvcEnd(t, s)
           /\ \A x \in Chrs(t, s) : x <= d \/ x > ChrEnd(t, s, d)
           /\ \A e \in d..SvcEnd(t, s) :
                (\A x \in Chrs(t, s) : x <= d \/ x > e) => e <= ChrEnd(t, s, d)
<1> DEFINE E == {e \in d..SvcEnd(t, s) : Chrs(t, s) \cap ((d + 1)..e) = {}}
<1>1. s \in DOMAIN t /\ DOMAIN t = 1..Len(t) /\ Len(t) \in Nat
    BY LenProperties DEF Services
<1>2. SvcEnd(t, s) \in s..Len(t)
    BY <1>1, SvcEndIs
<1>3. d \in s..SvcEnd(t, s) /\ SvcEnd(t, s) \in Nat /\ d \in Nat
    BY <1>1, <1>2 DEF Chrs
<1>4. \A x \in Chrs(t, s) : x \in Nat
    BY <1>1, <1>2 DEF Chrs
<1>5. E \subseteq 0..SvcEnd(t, s) /\ d \in E
    BY <1>3
<1>6. Max(E) \in E /\ \A e \in E : Max(E) >= e
    <2> HIDE DEF E
    <2> QED BY <1>3, <1>5, MaxIsIn
<1>7. ChrEnd(t, s, d) = Max(E)
    BY DEF ChrEnd
<1>8. ChrEnd(t, s, d) \in d..SvcEnd(t, s) /\ Chrs(t, s) \cap ((d + 1)..ChrEnd(t, s, d)) = {}
    BY <1>6, <1>7
<1>9. \A x \in Chrs(t, s) : x <= d \/ x > ChrEnd(t, s, d)
    BY <1>3, <1>4, <1>8
<1>10. ASSUME NEW e \in d..SvcEnd(t, s), \A x \in Chrs(t, s) : x <= d \/ x > e
       PROVE  e <= ChrEnd(t, s, d)
    <2>1. e \in E
        BY <1>3, <1>4, <1>10
    <2> HIDE DEF E
    <2> QED BY <1>3, <1>5, <1>6, <1>7, <2>1
<1> QED BY <1>3, <1>8, <1>9, <1>10

(* The definition handles of a service's characteristics, in list order.   *)
chr_defs(i) == [j \in DOMAIN svcs[i].chrs |-> svcs[i].chrs[j].def]

LEMMA DefsRise ==
    ASSUME Types, ListsInOrder, NEW i \in DOMAIN svcs
    PROVE  /\ chr_defs(i) \in Seq(Nat) /\ Rising(chr_defs(i))
           /\ DOMAIN chr_defs(i) = DOMAIN svcs[i].chrs
           /\ DOMAIN svcs[i].chrs = 1..Len(svcs[i].chrs) /\ Len(svcs[i].chrs) \in Nat
           /\ \A j \in DOMAIN svcs[i].chrs : /\ svcs[i].chrs[j] \in Chr
                                             /\ svcs[i].chrs[j].def \in Nat
                                             /\ svcs[i].chrs[j].val = svcs[i].chrs[j].def + 1
                                             /\ chr_defs(i)[j] = svcs[i].chrs[j].def
<1>1. /\ svcs[i].chrs \in Seq(Chr) /\ Len(svcs[i].chrs) \in Nat
      /\ DOMAIN svcs[i].chrs = 1..Len(svcs[i].chrs)
      /\ \A j \in 1..Len(svcs[i].chrs) : svcs[i].chrs[j] \in Chr
    BY ChrKeysType DEF Types
<1>2. \A j \in DOMAIN svcs[i].chrs : svcs[i].chrs[j].def \in Nat
    BY <1>1 DEF Chr
<1>3. \A j \in DOMAIN svcs[i].chrs : svcs[i].chrs[j].val = svcs[i].chrs[j].def + 1
    BY DEF ListsInOrder, ChrsInOrder
<1>4. chr_defs(i) \in Seq(Nat)
    <2>1. chr_defs(i) \in [1..Len(svcs[i].chrs) -> Nat]
        BY <1>1, <1>2 DEF chr_defs
    <2> QED BY <1>1, <2>1, SeqDef
<1>5. Rising(chr_defs(i))
    <2> SUFFICES ASSUME NEW j \in DOMAIN svcs[i].chrs, NEW k \in DOMAIN svcs[i].chrs, j < k
                 PROVE  svcs[i].chrs[j].def < svcs[i].chrs[k].def
        BY DEF Rising, chr_defs
    <2>1. svcs[i].chrs[j].val < svcs[i].chrs[k].val
        BY DEF ListsInOrder, ChrsInOrder, chr_keys, Rising
    <2> QED BY <1>2, <1>3, <2>1
<1> QED BY <1>1, <1>2, <1>3, <1>4, <1>5 DEF chr_defs

(* Once all characteristics of a service are listed, the range in which    *)
(* peer_disc_dscs looks for descriptors is the characteristic's.           *)
LEMMA EndHandle ==
    ASSUME Types, table \in Tables \cup {<<>>}, ListsInOrder,
           NEW i \in DOMAIN svcs, ChrsFound(i), NEW j \in DOMAIN svcs[i].chrs
    PROVE  chr_end_handle(svcs[i], j) = ChrEnd(table, svcs[i].start, svcs[i].chrs[j].def)
<1> DEFINE s == svcs[i].start
           d == svcs[i].chrs[j].def
           e == chr_end_handle(svcs[i], j)
           len == Len(svcs[i].chrs)
<1>1. s \in Services(table) /\ svcs[i].end = SvcEnd(table, s) /\ table \in Seq(AttrTypes)
    BY TableIs DEF ListsInOrder, SvcsInOrder
<1>2. \A k \in DOMAIN svcs[i].chrs : svcs[i].chrs[k].def \in Chrs(table, s) /\ svcs[i].chrs[k].def \in Nat
    BY DefsRise DEF ListsInOrder, ChrsInOrder
<1>3. /\ d \in Nat /\ SvcEnd(table, s) \in Nat
      /\ ChrEnd(table, s, d) \in d..SvcEnd(table, s)
      /\ \A x \in Chrs(table, s) : x <= d \/ x > ChrEnd(table, s, d)
      /\ \A f \in d..SvcEnd(table, s) :
           (\A x \in Chrs(table, s) : x <= d \/ x > f) => f <= ChrEnd(table, s, d)
    BY <1>1, <1>2, ChrEndIs
<1>4. j \in 1..len /\ len \in Nat /\ DOMAIN svcs[i].chrs = 1..len
    BY DefsRise
<1>5. \A a, b \in 1..len : a < b => svcs[i].chrs[a].def < svcs[i].chrs[b].def
    BY DefsRise DEF Rising, chr_defs
<1>6. \A x \in Chrs(table, s) : \E k \in 1..len : svcs[i].chrs[k].def = x
    BY <1>4 DEF ChrsFound
<1>7. CASE j < len
    <2> DEFINE next == svcs[i].chrs[j + 1].def
    <2>1. j + 1 \in 1..len /\ next \in Chrs(table, s) /\ next \in Nat /\ d < next
        BY <1>2, <1>4, <1>5, <1>7
    <2>2. next <= SvcEnd(table, s)
        <3>1. next \in s..SvcEnd(table, s)
            BY <2>1 DEF Chrs
        <3>2. s \in Nat
            BY <1>1, TableIs
        <3> HIDE DEF s, next
        <3> QED BY <1>3, <2>1, <3>1, <3>2
    <2>3. ASSUME NEW x \in Chrs(table, s) PROVE x <= d \/ x > next - 1
        <3>1. PICK k \in 1..len : svcs[i].chrs[k].def = x
            BY <1>6
        <3>2. CASE k <= j
            <4>1. k = j \/ k < j
                BY <1>4, <3>2
            <4> QED BY <1>2, <1>3, <1>4, <1>5, <3>1, <4>1
        <3>3. CASE k > j
            <4>1. k = j + 1 \/ j + 1 < k
                BY <1>4, <3>3
            <4> QED BY <1>2, <1>4, <1>5, <2>1, <3>1, <4>1
        <3> QED BY <1>4, <3>2, <3>3
    <2>4. e = next - 1
        BY <1>7 DEF chr_end_handle
    <2> HIDE DEF d, e, s, next
    <2>5. next - 1 <= ChrEnd(table, s, d)
        BY <1>3, <2>1, <2>2, <2>3
    <2>6. next > ChrEnd(table, s, d)
        BY <1>3, <2>1
    <2> QED BY <1>3, <2>1, <2>4, <2>5, <2>6 DEF d, e, s
<1>8. CASE j = len
    <2>1. \A x \in Chrs(table, s) : x <= d
        <3> SUFFICES ASSUME NEW x \in Chrs(table, s) PROVE x <= d
            OBVIOUS
        <3>1. PICK k \in 1..len : svcs[i].chrs[k].def = x
            BY <1>6
        <3>2. k = j \/ k < j
            BY <1>4, <1>8
        <3> QED BY <1>2, <1>3, <1>4, <1>5, <3>1, <3>2
    <2>2. e = SvcEnd(table, s)
        BY <1>1, <1>4, <1>8 DEF chr_end_handle
    <2> HIDE DEF d, e, s
    <2>3. SvcEnd(table, s) <= ChrEnd(table, s, d)
        BY <1>3, <2>1
    <2> QED BY <1>3, <2>2, <2>3 DEF d, e, s
<1> QED BY <1>4, <1>7, <1>8
-----------------------------------------------------------------------------
(* The invariant.                                                          *)

NoDscs == \A i \in DOMAIN svcs : \A j \in DOMAIN svcs[i].chrs : svcs[i].chrs[j].dscs = <<>>

(* While services are sought, all in front of the place reached are        *)
(* listed, without characteristics yet.                                    *)
SvcProgress(c) ==
    /\ prev = 1 /\ chain[c].end = Len(table)
    /\ \A s \in Services(table) : s < chain[c].at => \E i \in DOMAIN svcs : svcs[i].start = s
    /\ \A i \in DOMAIN svcs : svcs[i].chrs = <<>>

(* While the characteristics of one service are sought, those in front of  *)
(* the place reached are listed; other services have all or none listed.   *)
ChrProgress(c) ==
    /\ prev = 1 /\ SvcsFound /\ NoDscs
    /\ \A i \in DOMAIN svcs :
         IF svcs[i].start = cur.start
         THEN \A d \in Chrs(table, svcs[i].start) :
                d < chain[c].at => \E j \in DOMAIN svcs[i].chrs : svcs[i].chrs[j].def = d
         ELSE svcs[i].chrs = <<>> \/ ChrsFound(i)

(* Characteristics declared before v have all their descriptors listed,    *)
(* those behind it none.                                                   *)
DscsUpTo(i, j, v) == IF svcs[i].chrs[j].def < v THEN DscsFound(i, j) ELSE svcs[i].chrs[j].dscs = <<>>

(* While descriptors are sought, the cursor is the value handle of their   *)
(* characteristic: what is in front of it has been searched.               *)
DscProgress(c) ==
    /\ prev = chain[c].val /\ SvcsFound
    /\ \A i \in DOMAIN svcs : ChrsFound(i)
    /\ \A i \in DOMAIN svcs : \A j \in DOMAIN svcs[i].chrs :
         IF svcs[i].chrs[j].val = chain[c].val
         THEN /\ chain[c].end = ChrEnd(table, svcs[i].start, svcs[i].chrs[j].def)
              /\ chain[c].at > svcs[i].chrs[j].val
              /\ \A h \in DscHandles(i, j) :
                   h < chain[c].at => \E k \in DOMAIN svcs[i].chrs[j].dscs : svcs[i].chrs[j].dscs[k] = h
         ELSE DscsUpTo(i, j, prev)

Progress(c) ==
    /\ chain[c].step = "svc" => SvcProgress(c)
    /\ chain[c].step = "chr" => ChrProgress(c)
    /\ chain[c].step = "dsc" => DscProgress(c)

(* Discoveries begin one after the other, and a running one is the latest. *)
OutcomesInOrder ==
    /\ \A c, d \in Chains : c < d /\ outcome[c] = "none" => outcome[d] = "none"
    /\ \A c, d \in Chains : c < d /\ outcome[c] = "running" => outcome[d] = "none"
    /\ link = "down" => \A c \in Chains : outcome[c] # "running"

ProgressInv == DscsListed /\ \A c \in Chains : Progress(c)

MirrorInv ==
    /\ ListsInv
    /\ ProgressInv
    /\ OutcomesInOrder
    /\ MirrorOnComplete
-----------------------------------------------------------------------------
(* What is listed and complete is the mirror of the table.                 *)

LEMMA ChrIsMirror ==
    ASSUME Types, ListsInOrder, DscsListed,
           NEW i \in DOMAIN svcs, NEW j \in DOMAIN svcs[i].chrs, DscsFound(i, j)
    PROVE  svcs[i].chrs[j] = MirrorChr(table, svcs[i].start, svcs[i].chrs[j].def)
<1> DEFINE chr == svcs[i].chrs[j]
<1>1. chr \in Chr /\ chr.val = chr.def + 1
    BY DefsRise
<1>2. chr.dscs \in Seq(Nat) /\ Rising(chr.dscs)
    BY <1>1 DEF Chr, ListsInOrder, ChrsInOrder
<1>3. DscHandles(i, j) = {chr.dscs[k] : k \in DOMAIN chr.dscs}
    BY DEF DscsListed, DscsFound
<1>4. Sorted(DscHandles(i, j)) = chr.dscs
    <2> DEFINE dscs == chr.dscs
               S == DscHandles(i, j)
    <2>1. dscs \in Seq(Nat) /\ Rising(dscs) /\ S = {dscs[k] : k \in DOMAIN dscs}
        BY <1>2, <1>3
    <2> HIDE DEF dscs, S
    <2>2. Sorted(S) = dscs
        BY <2>1, SortedIs
    <2> QED BY <2>2 DEF dscs, S
<1>5. chr = [def |-> chr.def, val |-> chr.val, dscs |-> chr.dscs]
    <2> HIDE DEF chr
    <2> QED BY <1>1 DEF Chr
<1>6. MirrorChr(table, svcs[i].start, chr.def)
        = [def |-> chr.def, val |-> chr.def + 1, dscs |-> Sorted(DscHandles(i, j))]
    BY DEF MirrorChr, DscHandles
<1> HIDE DEF chr
<1>7. chr = MirrorChr(table, svcs[i].start, chr.def)
    BY <1>1, <1>4, <1>5, <1>6
<1> QED BY <1>7 DEF chr

LEMMA SvcIsMirror ==
    ASSUME Types, ListsInOrder, DscsListed, NEW i \in DOMAIN svcs, ChrsFound(i),
           \A j \in DOMAIN svcs[i].chrs : DscsFound(i, j)
    PROVE  svcs[i] = MirrorSvc(table, svcs[i].start)
<1> DEFINE svc == svcs[i]
           ds == chr_defs(i)
<1>1. svc \in Svc /\ svc.end = SvcEnd(table, svc.start)
    BY SvcKeysType DEF Types, ListsInOrder, SvcsInOrder
<1>2. /\ ds \in Seq(Nat) /\ Rising(ds) /\ DOMAIN ds = DOMAIN svc.chrs
      /\ \A j \in DOMAIN svc.chrs : ds[j] = svc.chrs[j].def
    BY DefsRise
<1>3. Chrs(table, svc.start) = {ds[j] : j \in DOMAIN ds}
    <2>1. \A j \in DOMAIN svc.chrs : svc.chrs[j].def \in Chrs(table, svc.start)
        BY DEF ListsInOrder, ChrsInOrder
    <2>2. \A d \in Chrs(table, svc.start) : \E j \in DOMAIN svc.chrs : svc.chrs[j].def = d
        BY DEF ChrsFound
    <2> HIDE DEF svc, ds
    <2> QED BY <1>2, <2>1, <2>2
<1>4. Sorted(Chrs(table, svc.start)) = ds
    <2> HIDE DEF svc, ds
    <2> QED BY <1>2, <1>3, SortedIs
<1>5. \A j \in DOMAIN ds : svc.chrs[j] = MirrorChr(table, svc.start, ds[j])
    BY <1>2, ChrIsMirror
<1>6. svc.chrs = [j \in DOMAIN ds |-> MirrorChr(table, svc.start, ds[j])]
    <2>1. svc.chrs \in Seq(Chr) /\ DOMAIN svc.chrs = 1..Len(svc.chrs)
        BY ChrKeysType DEF Types
    <2> HIDE DEF svc, ds
    <2>2. svc.chrs = [j \in DOMAIN svc.chrs |-> svc.chrs[j]]
        BY <2>1
    <2> QED BY <1>2, <1>5, <2>2
<1> HIDE DEF svc, ds
<1>7. svc = [start |-> svc.start, end |-> svc.end, chrs |-> svc.chrs]
    BY <1>1 DEF Svc
<1>8. svc = MirrorSvc(table, svc.start)
    BY <1>1, <1>4, <1>6, <1>7 DEF MirrorSvc
<1> QED BY <1>8 DEF svc

LEMMA FoundIsMirror ==
    ASSUME Types, table \in Tables \cup {<<>>}, ListsInOrder, DscsListed, SvcsFound,
           \A i \in DOMAIN svcs : ChrsFound(i) /\ \A j \in DOMAIN svcs[i].chrs : DscsFound(i, j)
    PROVE  svcs = Mirror(table)
<1>1. /\ svc_keys \in Seq(Nat) /\ Rising(svc_keys) /\ DOMAIN svc_keys = DOMAIN svcs
      /\ DOMAIN svcs = 1..Len(svcs) /\ svcs \in Seq(Svc)
      /\ \A i \in DOMAIN svcs : svc_keys[i] = svcs[i].start
    BY SvcKeysType, KeysRise DEF Types, svc_keys
<1>2. Services(table) = {svc_keys[i] : i \in DOMAIN svc_keys}
    BY <1>1 DEF SvcsFound, ListsInOrder, SvcsInOrder
<1>3. Sorted(Services(table)) = svc_keys
    BY <1>1, <1>2, SortedIs
<1>4. \A i \in DOMAIN svcs : svcs[i] = MirrorSvc(table, svc_keys[i])
    BY <1>1, SvcIsMirror
<1>5. svcs = [i \in DOMAIN svcs |-> svcs[i]]
    BY <1>1
<1> QED BY <1>1, <1>3, <1>4, <1>5 DEF Mirror
-----------------------------------------------------------------------------
(* Answers.                                                                *)

(* Only the procedure of the running discovery comes along.                *)
LEMMA OneProgresses ==
    ASSUME NEW c \in Chains, ListsInv, chain[c] # Idle, DscsListed', Progress(c)',
           NEW p, chain' = [chain EXCEPT ![c] = p]
    PROVE  ProgressInv'
<1>1. ASSUME NEW d \in Chains PROVE Progress(d)'
    <2>1. CASE d = c
        BY <2>1
    <2>2. CASE d # c
        <3>1. chain[d] = Idle
            BY <2>2 DEF ListsInv, DrivenInv
        <3>2. chain'[d] = Idle
            BY <2>2, <3>1 DEF ListsInv, DrivenInv, Types
        <3> QED BY <3>2 DEF Progress, Idle
    <2> QED BY <2>1, <2>2
<1> QED BY <1>1 DEF ProgressInv

LEMMA EndsProgress ==
    ASSUME NEW c \in Chains, ListsInv, ProgressInv, chain[c] # Idle,
           Fail(c) \/ Succeed(c), UNCHANGED <<table, svcs>>
    PROVE  ProgressInv'
<1>1. chain' = [chain EXCEPT ![c] = Idle]
    BY DEF Fail, Succeed
<1>2. chain'[c] = Idle
    BY <1>1 DEF ListsInv, DrivenInv, Types
<1>3. Progress(c)'
    BY <1>2 DEF Progress, Idle
<1>4. DscsListed'
    BY DEF ProgressInv, DscsListed, DscHandles
<1> QED BY <1>1, <1>3, <1>4, OneProgresses

(* Services are known by their start handles, characteristics by their     *)
(* value handles.                                                          *)
LEMMA OnePlace ==
    ASSUME Types, table \in Tables \cup {<<>>}, ListsInOrder
    PROVE  /\ \A i, k \in DOMAIN svcs : svcs[i].start = svcs[k].start => i = k
           /\ \A i, k \in DOMAIN svcs : \A j \in DOMAIN svcs[i].chrs : \A l \in DOMAIN svcs[k].chrs :
                svcs[i].chrs[j].val = svcs[k].chrs[l].val => i = k /\ j = l
<1>1. ASSUME NEW i \in DOMAIN svcs, NEW k \in DOMAIN svcs, svcs[i].start = svcs[k].start
      PROVE  i = k
    <2>1. /\ svc_keys[i] = svcs[i].start /\ svc_keys[k] = svcs[k].start /\ svcs[i].start \in Nat
          /\ DOMAIN svc_keys = DOMAIN svcs /\ i \in Nat /\ k \in Nat
        BY SvcKeysType DEF Types, svc_keys, Svc
    <2>2. ~ (i < k) /\ ~ (k < i)
        BY <1>1, <2>1, KeysRise DEF Rising
    <2> QED BY <2>1, <2>2
<1>2. ASSUME NEW i \in DOMAIN svcs, NEW k \in DOMAIN svcs,
             NEW j \in DOMAIN svcs[i].chrs, NEW l \in DOMAIN svcs[k].chrs,
             svcs[i].chrs[j].val = svcs[k].chrs[l].val
      PROVE  i = k /\ j = l
    <2>1. {i} = {k}
        BY <1>2, KeysRise
    <2>2. i = k
        BY <2>1
    <2>3. l \in DOMAIN svcs[i].chrs /\ svcs[i].chrs[j].val = svcs[i].chrs[l].val
        BY <1>2, <2>2
    <2>4. /\ DOMAIN svcs[i].chrs = 1..Len(svcs[i].chrs) /\ Len(svcs[i].chrs) \in Nat
          /\ \A m \in DOMAIN svcs[i].chrs : chr_keys(i)[m] = svcs[i].chrs[m].val /\ svcs[i].chrs[m].val \in Nat
        BY ChrKeysType DEF Types, Chr
    <2>5. \A m, n \in DOMAIN svcs[i].chrs : m < n => svcs[i].chrs[m].val < svcs[i].chrs[n].val
        BY DEF ListsInOrder, ChrsInOrder, Rising, chr_keys
    <2>6. ~ (j < l) /\ ~ (l < j)
        BY <2>3, <2>4, <2>5
    <2>7. j = l
        BY <2>3, <2>4, <2>6
    <2> QED BY <2>2, <2>7
<1> QED BY <1>1, <1>2

LEMMA SvcProgresses ==
    ASSUME NEW c \in Chains, ListsInv, ProgressInv, peer_svc_disced(c)
    PROVE  ProgressInv'
<1> DEFINE s == Min(Reported(c))
           svc == [start |-> s, end |-> SvcEnd(table, s), chrs |-> <<>>]
<1>1. /\ chain[c].step = "svc" /\ chain[c] # Idle /\ table' = table
      /\ Types /\ svcs \in Seq(Svc) /\ chain[c] \in Step /\ Reported(c) # {}
      /\ table \in Tables \cup {<<>>}
    BY DEF peer_svc_disced, Idle, Types, ListsInv, DrivenInv
<1>2. /\ s \in Nat /\ svc \in Svc /\ s \in Services(table) /\ s >= chain[c].at
      /\ OutOfMemory(c) \/ (svcs' = Append(svcs, svc) /\ Taken(c, svc.end + 1))
    BY SvcAnswer
<1>3. SvcProgress(c)
    BY <1>1 DEF ProgressInv, Progress
<1>4. \A x \in Services(table) : x >= chain[c].at => x \in Nat /\ s <= x
    <2> SUFFICES ASSUME NEW x \in Services(table), x >= chain[c].at PROVE x \in Nat /\ s <= x
        OBVIOUS
    <2>1. x \in 1..Len(table) /\ Len(table) \in Nat
        BY <1>1, TableIs
    <2>2. x \in Reported(c)
        BY <1>1, <1>3, <2>1 DEF Reported, SvcProgress, Step
    <2> QED BY <1>1, <2>1, <2>2, ReportedType
<1>5. /\ svc.start = s /\ svc.end = SvcEnd(table, s) /\ svc.chrs = <<>>
      /\ svc.end \in Nat /\ s <= svc.end
      /\ \A h \in (s + 1)..svc.end : h \notin Services(table)
    <2>1. s \in DOMAIN table /\ table \in Seq(AttrTypes)
        BY <1>1, <1>2, TableIs
    <2>2. SvcEnd(table, s) \in s..Len(table) /\ SvcEnd(table, s) \in Nat /\ Len(table) \in Nat
        BY <1>1, <1>2, TableIs
    <2> HIDE DEF s
    <2> QED BY <1>2, <2>1, <2>2, SvcEndIs
<1> HIDE DEF s, svc
<1>6. CASE OutOfMemory(c)
    <2>1. Fail(c) /\ svcs' = svcs
        BY <1>6 DEF OutOfMemory
    <2> QED BY <1>1, <2>1, EndsProgress
<1>7. CASE svcs' = Append(svcs, svc) /\ Taken(c, svc.end + 1)
    <2>1. /\ DOMAIN svcs' = 1..Len(svcs) + 1 /\ DOMAIN svcs = 1..Len(svcs) /\ Len(svcs) \in Nat
          /\ \A i \in 1..Len(svcs) : svcs'[i] = svcs[i]
          /\ svcs'[Len(svcs) + 1] = svc
        BY <1>1, <1>2, <1>7, AddSvcEffect
    <2>2. ASSUME NEW i \in DOMAIN svcs' PROVE svcs'[i].chrs = <<>>
        <3>1. CASE i = Len(svcs) + 1
            BY <1>5, <2>1, <3>1
        <3>2. CASE i # Len(svcs) + 1
            BY <1>3, <2>1, <3>2 DEF SvcProgress
        <3> QED BY <3>1, <3>2
    <2>3. DscsListed'
        BY <2>2 DEF DscsListed
    <2>4. chain' = [chain EXCEPT ![c] = [chain[c] EXCEPT !.at = svc.end + 1]] /\ prev' = prev
        BY <1>7 DEF Taken
    <2>5. chain'[c].step = "svc" /\ chain'[c].at = svc.end + 1 /\ chain'[c].end = chain[c].end
        BY <1>1, <2>4 DEF Types, Step
    <2>6. ASSUME NEW x \in Services(table), x < svc.end + 1
          PROVE  \E i \in DOMAIN svcs' : svcs'[i].start = x
        <3>1. x \in Nat /\ chain[c].at \in Nat
            BY <1>1, TableIs DEF Step
        <3>2. CASE x < chain[c].at
            <4>1. PICK i \in DOMAIN svcs : svcs[i].start = x
                BY <1>3, <3>2 DEF SvcProgress
            <4> QED BY <2>1, <4>1
        <3>3. CASE x >= chain[c].at
            <4>1. s <= x
                BY <1>4, <3>3
            <4>2. ~ (s + 1 <= x)
                BY <1>2, <1>5, <2>6, <3>1
            <4>3. x = s
                BY <1>2, <3>1, <4>1, <4>2
            <4>4. svcs'[Len(svcs) + 1].start = x /\ Len(svcs) + 1 \in DOMAIN svcs'
                BY <1>5, <2>1, <4>3
            <4> QED BY <4>4
        <3> QED BY <3>1, <3>2, <3>3
    <2>7. SvcProgress(c)'
        BY <1>1, <1>3, <2>2, <2>4, <2>5, <2>6 DEF SvcProgress
    <2>8. Progress(c)'
        BY <2>5, <2>7 DEF Progress
    <2> QED BY <1>1, <2>3, <2>4, <2>8, OneProgresses
<1> QED BY <1>2, <1>6, <1>7

LEMMA ChrProgresses ==
    ASSUME NEW c \in Chains, ListsInv, ProgressInv, peer_chr_disced(c)
    PROVE  ProgressInv'
<1> DEFINE d == Min(Reported(c))
           chr == [def |-> d, val |-> d + 1, dscs |-> <<>>]
<1>1. /\ chain[c].step = "chr" /\ chain[c] # Idle /\ table' = table /\ cur' = cur
      /\ Types /\ svcs \in Seq(Svc) /\ chain[c] \in Step /\ Reported(c) # {}
      /\ table \in Tables \cup {<<>>} /\ ListsInOrder
    BY DEF peer_chr_disced, Idle, Types, ListsInv, DrivenInv
<1>2. /\ d \in Nat /\ chr \in Chr
      /\ \/ OutOfMemory(c)
         \/ /\ \E i \in DOMAIN svcs :
                 /\ svcs[i].start = cur.start /\ d \in Chrs(table, svcs[i].start)
                 /\ svcs[i].end = chain[c].end
                 /\ \A j \in DOMAIN svcs[i].chrs : svcs[i].chrs[j].val < d
                 /\ svcs' = [svcs EXCEPT ![i].chrs = Append(@, chr)]
            /\ Taken(c, d + 2)
    BY ChrAnswer
<1>3. chr.def = d /\ chr.dscs = <<>>
    OBVIOUS
<1>4. ChrProgress(c)
    BY <1>1 DEF ProgressInv, Progress
<1>5. \A h \in Reported(c) : d <= h
    BY <1>1, ReportedType
<1> HIDE DEF d, chr
<1>6. CASE OutOfMemory(c)
    <2>1. Fail(c) /\ svcs' = svcs
        BY <1>6 DEF OutOfMemory
    <2> QED BY <1>1, <2>1, EndsProgress
<1>7. ASSUME NEW i \in DOMAIN svcs,
             svcs[i].start = cur.start, d \in Chrs(table, svcs[i].start),
             svcs[i].end = chain[c].end,
             svcs' = [svcs EXCEPT ![i].chrs = Append(svcs[i].chrs, chr)],
             Taken(c, d + 2)
      PROVE  ProgressInv'
    <2> DEFINE chrs == svcs[i].chrs
               new == Append(chrs, chr)
    <2>1. chrs \in Seq(Chr) /\ DOMAIN chrs = 1..Len(chrs) /\ Len(chrs) \in Nat
        BY <1>1, ChrKeysType
    <2> HIDE DEF chrs
    <2>2. /\ new \in Seq(Chr) /\ DOMAIN new = 1..Len(chrs) + 1
          /\ \A j \in 1..Len(chrs) : new[j] = chrs[j]
          /\ new[Len(chrs) + 1] = chr
        <3>1. new \in Seq(Chr) /\ Len(new) = Len(chrs) + 1
            BY <1>2, <2>1, AppendProperties
        <3> QED BY <1>2, <2>1, <3>1, AppendProperties, LenProperties
    <2> HIDE DEF new
    <2>3. svcs' = [svcs EXCEPT ![i].chrs = new]
        BY <1>7 DEF new, chrs
    <2>4. /\ svcs' \in Seq(Svc) /\ DOMAIN svcs' = DOMAIN svcs
          /\ \A k \in DOMAIN svcs : /\ svcs'[k].start = svcs[k].start
                                    /\ svcs'[k].end = svcs[k].end
                                    /\ k # i => svcs'[k].chrs = svcs[k].chrs
          /\ svcs'[i].chrs = new
        BY <1>1, <2>2, <2>3, SetChrsEffect
    <2>5. NoDscs'
        <3> SUFFICES ASSUME NEW k \in DOMAIN svcs', NEW j \in DOMAIN svcs'[k].chrs
                     PROVE  svcs'[k].chrs[j].dscs = <<>>
            BY DEF NoDscs
        <3>1. CASE k # i
            BY <1>4, <2>4, <3>1 DEF ChrProgress, NoDscs
        <3>2. CASE k = i /\ j = Len(chrs) + 1
            BY <1>3, <2>2, <2>4, <3>2
        <3>3. CASE k = i /\ j # Len(chrs) + 1
            <4>1. j \in DOMAIN svcs[i].chrs /\ new[j] = svcs[i].chrs[j]
                BY <2>1, <2>2, <2>4, <3>3 DEF chrs
            <4> QED BY <1>4, <2>4, <3>3, <4>1 DEF ChrProgress, NoDscs
        <3> QED BY <3>1, <3>2, <3>3
    <2>6. DscsListed'
        BY <2>5 DEF DscsListed, NoDscs
    <2>7. chain' = [chain EXCEPT ![c] = [chain[c] EXCEPT !.at = d + 2]] /\ prev' = prev
        BY <1>7 DEF Taken
    <2>8. chain'[c].step = "chr" /\ chain'[c].at = d + 2
        BY <1>1, <2>7 DEF Types, Step
    <2>9. SvcsFound'
        BY <1>1, <1>4, <2>4 DEF ChrProgress, SvcsFound
    <2>10. ASSUME NEW x \in Chrs(table, svcs[i].start), x < d + 2
           PROVE  \E j \in DOMAIN new : new[j].def = x
        <3>1. /\ svcs[i].start \in Services(table) /\ svcs[i].end = SvcEnd(table, svcs[i].start)
              /\ table \in Seq(AttrTypes) /\ WellFormed(table)
              /\ DOMAIN table = 1..Len(table) /\ Len(table) \in Nat
              /\ svcs[i].start \in Nat /\ SvcEnd(table, svcs[i].start) \in svcs[i].start..Len(table)
            BY <1>1, TableIs DEF ListsInOrder, SvcsInOrder
        <3>2. x \in Nat /\ x <= svcs[i].end /\ table[x] \in ChrTypes /\ chain[c].at \in Nat
            BY <1>1, <3>1 DEF Chrs, Step
        <3>3. CASE x < chain[c].at
            <4>1. PICK j \in DOMAIN chrs : chrs[j].def = x
                BY <1>4, <1>7, <3>3 DEF ChrProgress, chrs
            <4>2. new[j].def = x /\ j \in DOMAIN new
                BY <2>1, <2>2, <4>1
            <4> QED BY <4>2
        <3>4. CASE x >= chain[c].at
            <4>1. x \in Reported(c)
                BY <1>1, <1>7, <3>2, <3>4 DEF Reported, Step
            <4>2. d <= x
                BY <1>5, <4>1
            <4>3. x # d + 1
                <5>1. d \in svcs[i].start..SvcEnd(table, svcs[i].start) /\ table[d] \in ChrTypes
                    BY <1>7 DEF Chrs
                <5>2. d \in 1..Len(table) /\ d < Len(table)
                    <6>1. d \in 1..Len(table)
                        <7>1. svcs[i].start \in 1..Len(table)
                            BY <3>1 DEF Services
                        <7> QED BY <1>2, <3>1, <5>1, <7>1
                    <6>2. d # Len(table)
                        BY <3>1, <5>1 DEF WellFormed
                    <6>3. Len(table) \in Nat
                        BY <3>1
                    <6> QED BY <6>1, <6>2, <6>3
                <5>3. d + 1 \in 2..Len(table) /\ (d + 1) - 1 = d
                    BY <3>1, <5>2
                <5>4. table[d + 1] = "val"
                    BY <3>1, <5>1, <5>3 DEF WellFormed
                <5> QED BY <3>2, <5>4 DEF ChrTypes
            <4>4. x = d
                BY <1>2, <2>10, <3>2, <4>2, <4>3
            <4>5. new[Len(chrs) + 1].def = x /\ Len(chrs) + 1 \in DOMAIN new
                BY <1>3, <2>1, <2>2, <4>4
            <4> QED BY <4>5
        <3> QED BY <3>2, <3>3, <3>4
    <2>11. ChrProgress(c)'
        <3> SUFFICES ASSUME NEW k \in DOMAIN svcs'
                     PROVE  (IF svcs[k].start = cur.start
                             THEN \A x \in Chrs(table, svcs[k].start) :
                                    x < chain[c].at => \E j \in DOMAIN svcs[k].chrs : svcs[k].chrs[j].def = x
                             ELSE svcs[k].chrs = <<>> \/ ChrsFound(k))'
            BY <1>4, <2>5, <2>7, <2>9 DEF ChrProgress
        <3>1. CASE k = i
            BY <1>1, <1>7, <2>4, <2>8, <2>10, <3>1
        <3>2. CASE k # i
            <4>1. svcs[k].start # cur.start
                BY <1>1, <1>7, <2>4, <3>2, OnePlace
            <4>2. k \in DOMAIN svcs /\ (svcs[k].chrs = <<>> \/ ChrsFound(k))
                BY <1>4, <2>4, <4>1 DEF ChrProgress
            <4>3. svcs'[k].start = svcs[k].start /\ svcs'[k].chrs = svcs[k].chrs
                BY <2>4, <3>2, <4>2
            <4>4. ChrsFound(k)' <=> ChrsFound(k)
                BY <1>1, <4>3 DEF ChrsFound
            <4> QED BY <1>1, <4>1, <4>2, <4>3, <4>4
        <3> QED BY <3>1, <3>2
    <2>12. Progress(c)'
        BY <2>8, <2>11 DEF Progress
    <2> QED BY <1>1, <2>6, <2>7, <2>12, OneProgresses
<1> QED BY <1>2, <1>6, <1>7

LEMMA DscProgresses ==
    ASSUME NEW c \in Chains, ListsInv, ProgressInv, peer_dsc_disced(c)
    PROVE  ProgressInv'
<1> DEFINE h == Min(Reported(c))
<1>1. /\ chain[c].step = "dsc" /\ chain[c] # Idle /\ table' = table
      /\ Types /\ svcs \in Seq(Svc) /\ chain[c] \in Step /\ Reported(c) # {}
      /\ table \in Tables \cup {<<>>} /\ ListsInOrder
    BY DEF peer_dsc_disced, Idle, Types, ListsInv, DrivenInv
<1>2. /\ h \in Nat
      /\ \/ OutOfMemory(c)
         \/ /\ \E i \in DOMAIN svcs : \E j \in DOMAIN svcs[i].chrs :
                 /\ svcs[i].chrs[j].val = chain[c].val
                 /\ \A k \in DOMAIN svcs[i].chrs[j].dscs : svcs[i].chrs[j].dscs[k] < h
                 /\ svcs' = [svcs EXCEPT ![i].chrs[j].dscs = Append(@, h)]
            /\ Taken(c, h + 1)
    BY DscAnswer
<1>3. DscProgress(c)
    BY <1>1 DEF ProgressInv, Progress
<1>4. h \in Reported(c) /\ \A x \in Reported(c) : h <= x
    BY <1>1, ReportedType
<1> HIDE DEF h
<1>5. CASE OutOfMemory(c)
    <2>1. Fail(c) /\ svcs' = svcs
        BY <1>5 DEF OutOfMemory
    <2> QED BY <1>1, <2>1, EndsProgress
<1>6. ASSUME NEW i \in DOMAIN svcs, NEW j \in DOMAIN svcs[i].chrs,
             svcs[i].chrs[j].val = chain[c].val,
             svcs' = [svcs EXCEPT ![i].chrs[j].dscs = Append(svcs[i].chrs[j].dscs, h)],
             Taken(c, h + 1)
      PROVE  ProgressInv'
    <2> DEFINE dscs == svcs[i].chrs[j].dscs
               new == Append(dscs, h)
    <2>1. dscs \in Seq(Nat) /\ DOMAIN dscs = 1..Len(dscs) /\ Len(dscs) \in Nat
        <3>1. dscs \in Seq(Nat)
            BY <1>1, ChrKeysType DEF Chr
        <3> HIDE DEF dscs
        <3> QED BY <3>1, LenProperties
    <2> HIDE DEF dscs
    <2>2. /\ new \in Seq(Nat) /\ DOMAIN new = 1..Len(dscs) + 1
          /\ \A k \in 1..Len(dscs) : new[k] = dscs[k]
          /\ new[Len(dscs) + 1] = h
        <3>1. new \in Seq(Nat) /\ Len(new) = Len(dscs) + 1
            BY <1>2, <2>1, AppendProperties
        <3> QED BY <1>2, <2>1, <3>1, AppendProperties, LenProperties
    <2> HIDE DEF new
    <2>3. svcs' = [svcs EXCEPT ![i].chrs[j].dscs = new]
        BY <1>6 DEF new, dscs
    <2>4. OnlyDscs(i, j, new)
        BY <1>1, <2>2, <2>3, SetDscsEffect
    <2> USE DEF OnlyDscs
    <2>5. ASSUME NEW k \in DOMAIN svcs', NEW l \in DOMAIN svcs'[k].chrs
          PROVE  /\ k \in DOMAIN svcs /\ l \in DOMAIN svcs[k].chrs
                 /\ svcs'[k].start = svcs[k].start
                 /\ svcs'[k].chrs[l].def = svcs[k].chrs[l].def
                 /\ svcs'[k].chrs[l].val = svcs[k].chrs[l].val
                 /\ DscHandles(k, l)' = DscHandles(k, l)
                 /\ <<k, l>> # <<i, j>> => svcs'[k].chrs[l].dscs = svcs[k].chrs[l].dscs
        <3>1. k \in DOMAIN svcs /\ l \in DOMAIN svcs[k].chrs
            BY <2>4
        <3>2. svcs'[k].start = svcs[k].start /\ svcs'[k].chrs[l].def = svcs[k].chrs[l].def
            BY <2>4, <3>1
        <3>3. DscHandles(k, l)' = DscHandles(k, l)
            BY <1>1, <3>2 DEF DscHandles
        <3> QED BY <2>4, <3>1, <3>2, <3>3
    <2>6. svcs'[i].chrs[j].dscs = new /\ i \in DOMAIN svcs' /\ j \in DOMAIN svcs'[i].chrs
        BY <2>4
    <2> HIDE DEF OnlyDscs
    <2>7. /\ chain[c].end = ChrEnd(table, svcs[i].start, svcs[i].chrs[j].def)
          /\ chain[c].at > svcs[i].chrs[j].val
          /\ \A x \in DscHandles(i, j) : x < chain[c].at => \E k \in DOMAIN dscs : dscs[k] = x
          /\ svcs[i].chrs[j].val = svcs[i].chrs[j].def + 1 /\ svcs[i].chrs[j].def \in Nat
          /\ chain[c].at \in Nat /\ chain[c].end \in Int
        BY <1>1, <1>3, <1>6, DefsRise DEF DscProgress, dscs, Step
    <2>8. \A x \in DscHandles(i, j) : x \in Int /\ x <= chain[c].end /\ table[x] # "gap"
        BY <2>7 DEF DscHandles
    <2>9. h \in DscHandles(i, j) /\ h >= chain[c].at
        <3>1. h \in chain[c].at..chain[c].end /\ table[h] # "gap"
            BY <1>1, <1>4 DEF Reported
        <3> QED BY <2>7, <3>1 DEF DscHandles
    <2>10. DscsListed'
        <3> SUFFICES ASSUME NEW k \in DOMAIN svcs', NEW l \in DOMAIN svcs'[k].chrs,
                            NEW m \in DOMAIN svcs'[k].chrs[l].dscs
                     PROVE  svcs'[k].chrs[l].dscs[m] \in DscHandles(k, l)
            BY <2>5 DEF DscsListed
        <3>1. CASE <<k, l>> # <<i, j>>
            BY <2>5, <3>1 DEF ProgressInv, DscsListed
        <3>2. CASE <<k, l>> = <<i, j>> /\ m = Len(dscs) + 1
            BY <2>2, <2>6, <2>9, <3>2
        <3>3. CASE <<k, l>> = <<i, j>> /\ m # Len(dscs) + 1
            <4>1. m \in DOMAIN dscs /\ new[m] = dscs[m]
                BY <2>1, <2>2, <2>6, <3>3
            <4> QED BY <2>5, <2>6, <3>3, <4>1 DEF ProgressInv, DscsListed, dscs
        <3> QED BY <3>1, <3>2, <3>3
    <2>11. chain' = [chain EXCEPT ![c] = [chain[c] EXCEPT !.at = h + 1]] /\ prev' = prev
        BY <1>6 DEF Taken
    <2>12. /\ chain'[c].step = "dsc" /\ chain'[c].at = h + 1
           /\ chain'[c].end = chain[c].end /\ chain'[c].val = chain[c].val
        BY <1>1, <2>11 DEF Types, Step
    <2>13. ASSUME NEW x \in DscHandles(i, j), x < h + 1
           PROVE  \E k \in DOMAIN new : new[k] = x
        <3>1. CASE x < chain[c].at
            <4>1. PICK k \in DOMAIN dscs : dscs[k] = x
                BY <2>7, <3>1
            <4>2. new[k] = x /\ k \in DOMAIN new
                BY <2>1, <2>2, <4>1
            <4> QED BY <4>2
        <3>2. CASE x >= chain[c].at
            <4>1. x \in Reported(c)
                BY <1>1, <2>7, <2>8, <3>2 DEF Reported
            <4>2. x = h
                BY <1>2, <1>4, <2>8, <2>13, <4>1
            <4>3. new[Len(dscs) + 1] = x /\ Len(dscs) + 1 \in DOMAIN new
                BY <2>1, <2>2, <4>2
            <4> QED BY <4>3
        <3> QED BY <2>7, <2>8, <3>1, <3>2
    <2>14. \A k \in DOMAIN svcs' : ChrsFound(k)'
        <3> SUFFICES ASSUME NEW k \in DOMAIN svcs', NEW x \in Chrs(table, svcs'[k].start)
                     PROVE  \E l \in DOMAIN svcs'[k].chrs : svcs'[k].chrs[l].def = x
            BY <1>1 DEF ChrsFound
        <3>1. k \in DOMAIN svcs /\ svcs'[k].start = svcs[k].start
            BY <2>4 DEF OnlyDscs
        <3>2. PICK l \in DOMAIN svcs[k].chrs : svcs[k].chrs[l].def = x
            BY <1>3, <3>1 DEF DscProgress, ChrsFound
        <3>3. l \in DOMAIN svcs'[k].chrs /\ svcs'[k].chrs[l].def = x
            BY <2>4, <3>1, <3>2 DEF OnlyDscs
        <3> QED BY <3>3
    <2>15. SvcsFound'
        <3>1. DOMAIN svcs' = DOMAIN svcs /\ \A k \in DOMAIN svcs : svcs'[k].start = svcs[k].start
            BY <2>4 DEF OnlyDscs
        <3> QED BY <1>1, <1>3, <3>1 DEF DscProgress, SvcsFound
    <2>16. DscProgress(c)'
        <3> SUFFICES ASSUME NEW k \in DOMAIN svcs', NEW l \in DOMAIN svcs'[k].chrs
                     PROVE  (IF svcs[k].chrs[l].val = chain[c].val
                             THEN /\ chain[c].end = ChrEnd(table, svcs[k].start, svcs[k].chrs[l].def)
                                  /\ chain[c].at > svcs[k].chrs[l].val
                                  /\ \A x \in DscHandles(k, l) :
                                       x < chain[c].at => \E m \in DOMAIN svcs[k].chrs[l].dscs :
                                                            svcs[k].chrs[l].dscs[m] = x
                             ELSE DscsUpTo(k, l, prev))'
            BY <1>3, <2>11, <2>12, <2>14, <2>15 DEF DscProgress
        <3>1. CASE <<k, l>> = <<i, j>>
            <4>1. /\ svcs'[i].chrs[j].val = chain'[c].val
                  /\ chain'[c].end = ChrEnd(table', svcs'[i].start, svcs'[i].chrs[j].def)
                BY <1>1, <1>6, <2>5, <2>6, <2>7, <2>12
            <4>2. chain'[c].at > svcs'[i].chrs[j].val
                BY <1>2, <2>5, <2>6, <2>7, <2>9, <2>12
            <4>3. \A x \in DscHandles(i, j)' :
                    x < chain'[c].at => \E m \in DOMAIN svcs'[i].chrs[j].dscs : svcs'[i].chrs[j].dscs[m] = x
                BY <2>5, <2>6, <2>12, <2>13
            <4> QED BY <3>1, <4>1, <4>2, <4>3
        <3>2. CASE <<k, l>> # <<i, j>>
            <4>1. svcs[k].chrs[l].val # chain[c].val
                BY <1>1, <1>6, <2>5, <3>2, OnePlace
            <4>2. DscsUpTo(k, l, prev)
                BY <1>3, <2>5, <4>1 DEF DscProgress
            <4>3. DscsUpTo(k, l, prev)'
                BY <2>5, <2>11, <3>2, <4>2 DEF DscsUpTo, DscsFound
            <4> QED BY <2>5, <2>12, <4>1, <4>3
        <3> QED BY <3>1, <3>2
    <2>17. Progress(c)'
        BY <2>12, <2>16 DEF Progress
    <2> QED BY <1>1, <2>10, <2>11, <2>17, OneProgresses
<1> QED BY <1>2, <1>5, <1>6
-----------------------------------------------------------------------------
(* The next procedure.                                                     *)

AllFound ==
    /\ SvcsFound
    /\ \A i \in DOMAIN svcs : ChrsFound(i) /\ \A j \in DOMAIN svcs[i].chrs : DscsFound(i, j)

(* What a callback does to its discovery: it fails, succeeds with all that *)
(* there is, or goes on.                                                   *)
Reports(c) ==
    /\ table' = table
    /\ \/ Fail(c)
       \/ Succeed(c) /\ AllFound /\ UNCHANGED svcs
       \/ UNCHANGED <<outcome, link>>

(* A characteristic that peer_disc_dscs takes for empty has no descriptor. *)
LEMMA EmptyChr ==
    ASSUME Types, table \in Tables \cup {<<>>}, ListsInOrder,
           NEW i \in DOMAIN svcs, ChrsFound(i), NEW j \in DOMAIN svcs[i].chrs,
           chr_is_empty(svcs[i], j)
    PROVE  DscsFound(i, j)
<1> DEFINE d == svcs[i].chrs[j].def
           s == svcs[i].start
<1>1. svcs[i].chrs[j].val = d + 1 /\ d \in Nat
    BY DefsRise
<1>2. ChrEnd(table, s, d) <= d + 1
    BY <1>1, EndHandle DEF chr_is_empty
<1>3. ChrEnd(table, s, d) \in Int
    <2>1. s \in Services(table) /\ table \in Seq(AttrTypes) /\ d \in Chrs(table, s)
        BY TableIs DEF ListsInOrder, SvcsInOrder, ChrsInOrder
    <2> HIDE DEF s, d
    <2>2. ChrEnd(table, s, d) \in d..SvcEnd(table, s) /\ SvcEnd(table, s) \in Nat /\ d \in Nat
        BY <2>1, ChrEndIs
    <2> QED BY <2>2
<1>4. DscHandles(i, j) = {}
    BY <1>1, <1>2, <1>3 DEF DscHandles
<1> QED BY <1>4 DEF DscsFound

(* Characteristics follow one another in the order of the lists.           *)
LEMMA PlacesRise ==
    ASSUME Types, table \in Tables \cup {<<>>}, ListsInOrder,
           NEW i \in DOMAIN svcs, NEW j \in DOMAIN svcs[i].chrs,
           NEW k \in DOMAIN svcs, NEW l \in DOMAIN svcs[k].chrs,
           i < k \/ (i = k /\ j < l)
    PROVE  svcs[i].chrs[j].def < svcs[k].chrs[l].def
<1>1. /\ svcs[i].chrs[j].def \in Nat /\ svcs[k].chrs[l].def \in Nat
      /\ svcs[i].chrs[j].val = svcs[i].chrs[j].def + 1
    BY DefsRise
<1>2. CASE i = k /\ j < l
    <2>1. l \in DOMAIN svcs[i].chrs
        BY <1>2
    <2>2. svcs[i].chrs[j].def < svcs[i].chrs[l].def
        BY <1>2, <2>1, DefsRise DEF Rising
    <2> QED BY <1>2, <2>2
<1>3. CASE i < k
    <2>1. svcs[i].chrs[j].val <= svcs[i].end /\ svcs[k].start < svcs[k].chrs[l].def
        BY KeysRise
    <2>2. svcs[i].end < svcs[k].start
        BY <1>3 DEF ListsInOrder, SvcsInOrder
    <2>3. svcs[i].end \in Nat /\ svcs[k].start \in Nat
        BY SvcKeysType DEF Types, Svc
    <2> QED BY <1>1, <2>1, <2>2, <2>3
<1> QED BY <1>2, <1>3

LEMMA DscsProgressNext ==
    ASSUME NEW c \in Chains, NEW starts \in BOOLEAN, ListsInv, ProgressInv, chain[c] # Idle,
           peer_disc_dscs(c, starts), UNCHANGED <<table, svcs>>, SvcsFound,
           \A i \in DOMAIN svcs : ChrsFound(i),
           \A i \in DOMAIN svcs : \A j \in DOMAIN svcs[i].chrs : DscsUpTo(i, j, prev)
    PROVE  ProgressInv' /\ Reports(c)
<1>1. /\ svcs \in Seq(Svc) /\ Types /\ table \in Tables \cup {<<>>} /\ ListsInOrder
      /\ prev \in Nat
    BY DEF ListsInv, DrivenInv, Types
<1>2. \A i \in DOMAIN svcs : \A j \in DOMAIN svcs[i].chrs :
        /\ <<i, j>> \in Positions(svcs)
        /\ svcs[i].chrs[j].def \in Nat /\ svcs[i].chrs[j].val = svcs[i].chrs[j].def + 1
    BY <1>1, DefsRise DEF Positions
<1>3. CASE undiscovered_chrs = {}
    <2>1. Succeed(c)
        BY <1>3 DEF peer_disc_dscs
    <2>2. ASSUME NEW i \in DOMAIN svcs, NEW j \in DOMAIN svcs[i].chrs PROVE DscsFound(i, j)
        <3>1. CASE svcs[i].chrs[j].def < prev
            BY <3>1 DEF DscsUpTo
        <3>2. CASE ~ (svcs[i].chrs[j].def < prev)
            <4>1. svcs[i].chrs[j].dscs = <<>>
                <5>1. DscsUpTo(i, j, prev)
                    OBVIOUS
                <5> QED BY <3>2, <5>1 DEF DscsUpTo
            <4>2. svcs[i].chrs[j].def \in Nat
                BY <1>2
            <4>3. prev <= svcs[i].chrs[j].def
                BY <1>1, <3>2, <4>2
            <4>4. chr_is_empty(svcs[i], j)
                <5> SUFFICES ASSUME ~ chr_is_empty(svcs[i], j) PROVE <<i, j>> \in undiscovered_chrs
                    BY <1>3
                <5> QED BY <1>2, <4>1, <4>3 DEF undiscovered_chrs
            <4> QED BY <1>1, <4>4, EmptyChr
        <3> QED BY <3>1, <3>2
    <2>3. AllFound
        BY <2>2 DEF AllFound
    <2>4. ProgressInv'
        BY <2>1, EndsProgress
    <2> QED BY <2>1, <2>3, <2>4 DEF Reports
<1>4. CASE Fail(c)
    BY <1>4, EndsProgress DEF Reports
<1>5. CASE undiscovered_chrs # {} /\ ~Fail(c)
    <2> DEFINE at == First(undiscovered_chrs)
    <2>1. undiscovered_chrs \subseteq Positions(svcs) /\ undiscovered_chrs \subseteq Nat \X Nat
        BY <1>1, PositionsType DEF undiscovered_chrs
    <2>2. /\ at \in undiscovered_chrs
          /\ \A q \in undiscovered_chrs : at[1] < q[1] \/ (at[1] = q[1] /\ at[2] <= q[2])
        BY <1>5, <2>1, FirstIsIn
    <2> DEFINE i == at[1]
               j == at[2]
               chr == svcs[i].chrs[j]
               p == Proc("dsc", chr.val + 1, chr_end_handle(svcs[i], j), chr.val)
    <2>3. i \in DOMAIN svcs /\ j \in DOMAIN svcs[i].chrs /\ prev <= chr.def
        BY <1>1, <2>1, <2>2, PositionsType DEF undiscovered_chrs
    <2>4. chain' = [chain EXCEPT ![c] = p] /\ UNCHANGED <<outcome, link>> /\ prev' = chr.val
        BY <1>5 DEF peer_disc_dscs, Start
    <2>5. p.step = "dsc" /\ p.val = chr.val /\ p.at = chr.val + 1 /\ p.end = chr_end_handle(svcs[i], j)
        BY DEF Proc
    <2>6. ASSUME NEW k \in DOMAIN svcs, NEW l \in DOMAIN svcs[k].chrs,
                 ~ chr_is_empty(svcs[k], l), svcs[k].chrs[l].dscs = <<>>, prev <= svcs[k].chrs[l].def
          PROVE  i < k \/ (i = k /\ j <= l)
        <3>1. <<k, l>> \in undiscovered_chrs
            BY <1>2, <2>6 DEF undiscovered_chrs
        <3> HIDE DEF at
        <3> QED BY <2>2, <3>1
    <2> HIDE DEF p, at, i, j, chr
    <2>7. chr.def \in Nat /\ chr.val = chr.def + 1 /\ chr = svcs[i].chrs[j]
        BY <1>2, <2>3 DEF chr
    <2>8. chain'[c] = p
        BY <1>1, <2>4 DEF Types
    <2>9. ASSUME NEW k \in DOMAIN svcs, NEW l \in DOMAIN svcs[k].chrs, svcs[k].chrs[l].val = chr.val
          PROVE  p.end = ChrEnd(table, svcs[k].start, svcs[k].chrs[l].def)
                 /\ \A h \in DscHandles(k, l) : ~ (h < chr.val + 1)
        <3>1. k = i /\ l = j
            BY <1>1, <2>3, <2>7, <2>9, OnePlace
        <3>2. chr_end_handle(svcs[i], j) = ChrEnd(table, svcs[i].start, svcs[i].chrs[j].def)
            BY <1>1, <2>3, EndHandle
        <3>3. \A h \in DscHandles(i, j) : ~ (h < chr.val + 1)
            <4>1. chr.def = svcs[i].chrs[j].def
                BY <2>7
            <4> QED BY <2>7, <4>1 DEF DscHandles
        <3> QED BY <2>5, <3>1, <3>2, <3>3
    <2>10. ASSUME NEW k \in DOMAIN svcs, NEW l \in DOMAIN svcs[k].chrs, svcs[k].chrs[l].val # chr.val
           PROVE  DscsUpTo(k, l, chr.val)
        <3> DEFINE d == svcs[k].chrs[l].def
        <3>1. d \in Nat /\ svcs[k].chrs[l].val = d + 1 /\ d # chr.def
            BY <1>2, <2>7, <2>10
        <3>2. CASE d < prev
            <4>1. DscsFound(k, l)
                BY <3>2 DEF DscsUpTo
            <4>2. d < chr.val
                BY <1>1, <2>3, <2>7, <3>1, <3>2 DEF chr
            <4> QED BY <4>1, <4>2 DEF DscsUpTo
        <3>3. CASE ~ (d < prev) /\ d < chr.val
            <4>1. svcs[k].chrs[l].dscs = <<>> /\ prev <= d
                BY <1>1, <3>1, <3>3 DEF DscsUpTo
            <4>2. d < chr.def
                BY <2>7, <3>1, <3>3
            <4>3. chr_is_empty(svcs[k], l)
                <5> SUFFICES ASSUME ~ chr_is_empty(svcs[k], l) PROVE FALSE
                    OBVIOUS
                <5>1. i < k \/ (i = k /\ j <= l)
                    BY <2>6, <4>1
                <5>2. ~ (i = k /\ j = l)
                    BY <2>7, <4>2, <3>1
                <5>3. i < k \/ (i = k /\ j < l)
                    <6>1. j \in Nat /\ l \in Nat
                        BY <1>1, <2>3, ChrKeysType
                    <6> QED BY <5>1, <5>2, <6>1
                <5>4. chr.def < d
                    BY <1>1, <2>3, <2>7, <5>3, PlacesRise
                <5> QED BY <2>7, <3>1, <4>2, <5>4
            <4>4. DscsFound(k, l)
                BY <1>1, <4>3, EmptyChr
            <4> QED BY <3>3, <4>4 DEF DscsUpTo
        <3>4. CASE ~ (d < chr.val)
            <4>1. ~ (d < prev)
                BY <1>1, <2>3, <2>7, <3>1, <3>4 DEF chr
            <4> QED BY <3>4, <4>1 DEF DscsUpTo
        <3> QED BY <3>2, <3>3, <3>4
    <2>11. DscProgress(c)'
        <3>1. SvcsFound' /\ \A k \in DOMAIN svcs' : ChrsFound(k)'
            BY DEF SvcsFound, ChrsFound
        <3> SUFFICES ASSUME NEW k \in DOMAIN svcs', NEW l \in DOMAIN svcs'[k].chrs
                     PROVE  (IF svcs[k].chrs[l].val = chain[c].val
                             THEN /\ chain[c].end = ChrEnd(table, svcs[k].start, svcs[k].chrs[l].def)
                                  /\ chain[c].at > svcs[k].chrs[l].val
                                  /\ \A x \in DscHandles(k, l) :
                                       x < chain[c].at => \E m \in DOMAIN svcs[k].chrs[l].dscs :
                                                            svcs[k].chrs[l].dscs[m] = x
                             ELSE DscsUpTo(k, l, prev))'
            BY <2>4, <2>5, <2>8, <3>1 DEF DscProgress
        <3>2. k \in DOMAIN svcs /\ l \in DOMAIN svcs[k].chrs /\ svcs'[k].chrs[l] = svcs[k].chrs[l]
            OBVIOUS
        <3>3. CASE svcs[k].chrs[l].val = chr.val
            <4>1. chr.val + 1 > svcs[k].chrs[l].val
                BY <2>7, <3>3
            <4>2. DscHandles(k, l)' = DscHandles(k, l)
                BY DEF DscHandles
            <4> QED BY <2>5, <2>8, <2>9, <3>2, <3>3, <4>1, <4>2
        <3>4. CASE svcs[k].chrs[l].val # chr.val
            <4>1. DscsUpTo(k, l, chr.val)
                BY <2>10, <3>2, <3>4
            <4>2. DscsUpTo(k, l, prev)'
                BY <2>4, <4>1 DEF DscsUpTo, DscsFound, DscHandles
            <4> QED BY <2>5, <2>8, <3>2, <3>4, <4>2
        <3> QED BY <3>3, <3>4
    <2>12. Progress(c)'
        BY <2>5, <2>8, <2>11 DEF Progress
    <2>13. DscsListed'
        BY DEF ProgressInv, DscsListed, DscHandles
    <2> QED BY <2>4, <2>12, <2>13, OneProgresses DEF Reports
<1> QED BY <1>3, <1>4, <1>5

LEMMA ChrsProgressNext ==
    ASSUME NEW c \in Chains, NEW starts \in BOOLEAN, ListsInv, ProgressInv, chain[c] # Idle,
           peer_disc_chrs(c, starts), UNCHANGED <<table, svcs>>, prev = 1, SvcsFound, NoDscs,
           \A i \in DOMAIN svcs : svcs[i].chrs = <<>> \/ ChrsFound(i)
    PROVE  ProgressInv' /\ Reports(c)
<1>1. /\ svcs \in Seq(Svc) /\ Types /\ table \in Tables \cup {<<>>} /\ ListsInOrder
    BY DEF ListsInv, DrivenInv, Types
<1>2. ASSUME NEW i \in DOMAIN svcs
      PROVE  /\ svcs[i].start \in Nat /\ svcs[i].end \in Nat
             /\ \A d \in Chrs(table, svcs[i].start) : d \in Nat /\ svcs[i].start < d /\ d + 1 <= svcs[i].end
    <2>1. svcs[i].start \in Services(table) /\ svcs[i].end = SvcEnd(table, svcs[i].start)
        BY <1>1 DEF ListsInOrder, SvcsInOrder
    <2>2. table \in Seq(AttrTypes) /\ WellFormed(table)
        BY <1>1, <2>1, TableIs
    <2>3. svcs[i].start \in Nat /\ svcs[i].end \in Nat
        BY <1>1, SvcKeysType DEF Svc
    <2> QED BY <2>1, <2>2, <2>3, ValueInService
<1>3. CASE undiscovered_svcs = {}
    <2>1. ASSUME NEW i \in DOMAIN svcs PROVE ChrsFound(i)
        <3>1. CASE svcs[i].chrs = <<>>
            <4>1. peer_svc_is_empty(svcs[i])
                BY <1>3, <3>1 DEF undiscovered_svcs
            <4>2. svcs[i].end <= svcs[i].start
                BY <4>1 DEF peer_svc_is_empty
            <4>3. ASSUME NEW d \in Chrs(table, svcs[i].start) PROVE FALSE
                <5>1. d \in Nat /\ svcs[i].start < d /\ d + 1 <= svcs[i].end
                    BY <1>2
                <5>2. svcs[i].start \in Nat /\ svcs[i].end \in Nat
                    BY <1>2
                <5> QED BY <4>2, <5>1, <5>2
            <4> QED BY <4>3 DEF ChrsFound
        <3>2. CASE ChrsFound(i)
            BY <3>2
        <3> QED BY <3>1, <3>2
    <2>2. ASSUME NEW i \in DOMAIN svcs, NEW j \in DOMAIN svcs[i].chrs PROVE DscsUpTo(i, j, prev)
        <3>1. svcs[i].chrs[j].def \in Chrs(table, svcs[i].start)
            BY <1>1 DEF ListsInOrder, ChrsInOrder
        <3>2. /\ svcs[i].chrs[j].def \in Nat /\ svcs[i].start \in Nat
              /\ svcs[i].start < svcs[i].chrs[j].def
            BY <1>2, <3>1
        <3>3. ~ (svcs[i].chrs[j].def < 1)
            BY <3>2
        <3> QED BY <3>3 DEF DscsUpTo, NoDscs
    <2>3. peer_disc_dscs(c, starts)
        BY <1>3 DEF peer_disc_chrs
    <2> QED BY <2>1, <2>2, <2>3, DscsProgressNext
<1>4. CASE Fail(c)
    BY <1>4, EndsProgress DEF Reports
<1>5. CASE undiscovered_svcs # {} /\ ~Fail(c)
    <2> DEFINE i == Min(undiscovered_svcs)
               p == Proc("chr", svcs[i].start, svcs[i].end, 0)
    <2>1. i \in DOMAIN svcs
        <3>1. undiscovered_svcs \subseteq DOMAIN svcs /\ DOMAIN svcs \subseteq Nat
            BY <1>1, SvcKeysType DEF undiscovered_svcs
        <3>2. undiscovered_svcs \subseteq Nat
            BY <3>1
        <3> QED BY <1>5, <3>1, <3>2, MinIsIn
    <2>2. /\ chain' = [chain EXCEPT ![c] = p] /\ UNCHANGED <<outcome, link, prev>>
          /\ cur' = [start |-> svcs[i].start, freed |-> FALSE]
        BY <1>5 DEF peer_disc_chrs, Start
    <2>3. p.step = "chr" /\ p.at = svcs[i].start
        BY DEF Proc
    <2> HIDE DEF p, i
    <2>4. chain'[c] = p /\ cur'.start = svcs[i].start
        BY <1>1, <2>2 DEF Types
    <2>5. ChrProgress(c)'
        <3>1. SvcsFound' /\ NoDscs'
            BY DEF SvcsFound, NoDscs
        <3> SUFFICES ASSUME NEW k \in DOMAIN svcs'
                     PROVE  (IF svcs[k].start = cur.start
                             THEN \A x \in Chrs(table, svcs[k].start) :
                                    x < chain[c].at => \E j \in DOMAIN svcs[k].chrs : svcs[k].chrs[j].def = x
                             ELSE svcs[k].chrs = <<>> \/ ChrsFound(k))'
            BY <2>2, <3>1 DEF ChrProgress
        <3>2. CASE svcs[k].start = cur'.start
            <4>1. \A x \in Chrs(table, svcs[k].start) : ~ (x < chain'[c].at)
                BY <1>2, <2>1, <2>3, <2>4, <3>2
            <4> QED BY <3>2, <4>1
        <3>3. CASE svcs[k].start # cur'.start
            BY <3>3 DEF ChrsFound
        <3> QED BY <3>2, <3>3
    <2>6. Progress(c)'
        BY <2>3, <2>4, <2>5 DEF Progress
    <2>7. DscsListed'
        BY DEF ProgressInv, DscsListed, DscHandles
    <2> QED BY <2>2, <2>6, <2>7, OneProgresses DEF Reports
<1> QED BY <1>3, <1>4, <1>5

(* A procedure that has nothing left to report has found all there is.     *)
LEMMA SvcDoneProgresses ==
    ASSUME NEW c \in Chains, NEW starts \in BOOLEAN, ListsInv, ProgressInv, peer_svc_done(c, starts)
    PROVE  ProgressInv' /\ Reports(c)
<1>1. /\ chain[c].step = "svc" /\ chain[c] # Idle /\ Types /\ chain[c] \in Step /\ Reported(c) = {}
      /\ table \in Tables \cup {<<>>}
    BY DEF peer_svc_done, Idle, ListsInv, DrivenInv, Types
<1>2. SvcProgress(c)
    BY <1>1 DEF ProgressInv, Progress
<1>3. SvcsFound
    <2> SUFFICES ASSUME NEW s \in Services(table), chain[c].at <= s PROVE FALSE
        <3>1. chain[c].at \in Nat /\ \A s \in Services(table) : s \in Nat
            BY <1>1, TableIs DEF Step
        <3>2. \A s \in Services(table) : s < chain[c].at
            BY <3>1
        <3> QED BY <1>2, <3>2 DEF SvcsFound, SvcProgress
    <2>1. s \in 1..Len(table) /\ Len(table) \in Nat
        BY <1>1, TableIs
    <2>2. s \in Reported(c)
        BY <1>1, <1>2, <2>1 DEF Reported, SvcProgress, Step
    <2> QED BY <1>1, <2>2
<1>4. /\ NoDscs /\ prev = 1
      /\ \A i \in DOMAIN svcs : svcs[i].chrs = <<>> \/ ChrsFound(i)
    BY <1>2 DEF SvcProgress, NoDscs
<1>5. peer_disc_chrs(c, starts) /\ UNCHANGED <<table, svcs>>
    BY <1>4 DEF peer_svc_done
<1> QED BY <1>1, <1>3, <1>4, <1>5, ChrsProgressNext

(* What is left of a service once nothing in it is to be reported: none.   *)
LEMMA ServiceIsFound ==
    ASSUME NEW c \in Chains, ListsInv, ProgressInv, chain[c].step = "chr", Reported(c) = {},
           NEW i \in DOMAIN svcs, svcs[i].start = cur.start
    PROVE  ChrsFound(i)
<1>1. /\ Types /\ chain[c] \in Step
      /\ table \in Tables \cup {<<>>} /\ ListsInOrder
    BY DEF ListsInv, DrivenInv, Types
<1>2. ChrProgress(c) /\ ChrPlace(c)
    BY DEF ProgressInv, Progress, ListsInv, InPlace
<1>3. svcs[i].end = chain[c].end
    BY <1>1, <1>2, OnePlace DEF ChrPlace
<1>4. svcs[i].start \in Services(table) /\ svcs[i].end = SvcEnd(table, svcs[i].start)
    BY <1>1 DEF ListsInOrder, SvcsInOrder
<1>5. svcs[i].start \in Nat /\ svcs[i].end \in Nat /\ chain[c].at \in Nat
    BY <1>1, <1>4, TableIs DEF Step
<1>6. ASSUME NEW d \in Chrs(table, svcs[i].start) PROVE d < chain[c].at
    <2>1. d \in svcs[i].start..svcs[i].end /\ table[d] \in ChrTypes
        BY <1>4 DEF Chrs
    <2>2. d \notin Reported(c)
        OBVIOUS
    <2> QED BY <1>1, <1>3, <1>5, <2>1, <2>2 DEF Reported
<1> QED BY <1>2, <1>6 DEF ChrProgress, ChrsFound

LEMMA ChrDoneProgresses ==
    ASSUME NEW c \in Chains, NEW starts \in BOOLEAN, ListsInv, ProgressInv, peer_chr_done(c, starts)
    PROVE  ProgressInv' /\ Reports(c)
<1>1. /\ chain[c].step = "chr" /\ chain[c] # Idle /\ Types /\ chain[c] \in Step /\ Reported(c) = {}
      /\ table \in Tables \cup {<<>>} /\ ListsInOrder
    BY DEF peer_chr_done, Idle, ListsInv, DrivenInv, Types
<1>2. ChrProgress(c) /\ ChrPlace(c)
    BY <1>1 DEF ProgressInv, Progress, ListsInv, InPlace
<1>3. \A i \in DOMAIN svcs : svcs[i].start = cur.start => ChrsFound(i)
    BY <1>1, ServiceIsFound
<1>4. /\ SvcsFound /\ NoDscs /\ prev = 1
      /\ \A i \in DOMAIN svcs : svcs[i].chrs = <<>> \/ ChrsFound(i)
    BY <1>2, <1>3 DEF ChrProgress
<1>5. peer_disc_chrs(c, starts) /\ UNCHANGED <<table, svcs>>
    BY <1>4 DEF peer_chr_done
<1> QED BY <1>1, <1>4, <1>5, ChrsProgressNext

LEMMA DscDoneProgresses ==
    ASSUME NEW c \in Chains, NEW starts \in BOOLEAN, ListsInv, ProgressInv, peer_dsc_done(c, starts)
    PROVE  ProgressInv' /\ Reports(c)
<1>1. /\ chain[c].step = "dsc" /\ chain[c] # Idle /\ Types /\ chain[c] \in Step /\ Reported(c) = {}
      /\ table \in Tables \cup {<<>>} /\ ListsInOrder
    BY DEF peer_dsc_done, Idle, ListsInv, DrivenInv, Types
<1>2. DscProgress(c)
    BY <1>1 DEF ProgressInv, Progress
<1>3. ASSUME NEW i \in DOMAIN svcs, NEW j \in DOMAIN svcs[i].chrs PROVE DscsUpTo(i, j, prev)
    <2>1. CASE svcs[i].chrs[j].val # chain[c].val
        BY <1>2, <2>1 DEF DscProgress
    <2>2. CASE svcs[i].chrs[j].val = chain[c].val
        <3>1. /\ chain[c].end = ChrEnd(table, svcs[i].start, svcs[i].chrs[j].def)
              /\ \A h \in DscHandles(i, j) :
                   h < chain[c].at => \E k \in DOMAIN svcs[i].chrs[j].dscs : svcs[i].chrs[j].dscs[k] = h
            BY <1>2, <2>2 DEF DscProgress
        <3>2. /\ svcs[i].chrs[j].def \in Nat /\ svcs[i].chrs[j].val = svcs[i].chrs[j].def + 1
              /\ chain[c].at \in Nat /\ chain[c].end \in Int
            BY <1>1, DefsRise DEF Step
        <3>3. ASSUME NEW h \in DscHandles(i, j) PROVE h < chain[c].at
            <4>1. h \in Int /\ h <= chain[c].end /\ table[h] # "gap"
                BY <3>1, <3>2 DEF DscHandles
            <4>2. h \notin Reported(c)
                BY <1>1
            <4> QED BY <1>1, <3>2, <4>1, <4>2 DEF Reported
        <3>4. DscsFound(i, j)
            BY <3>1, <3>3 DEF DscsFound
        <3>5. svcs[i].chrs[j].def < prev
            BY <1>2, <2>2, <3>2 DEF DscProgress
        <3> QED BY <3>4, <3>5 DEF DscsUpTo
    <2> QED BY <2>1, <2>2
<1>4. prev > 0
    BY <1>1 DEF ListsInv, DrivenInv, RunningIsDriven, NoAssertFailure
<1>5. peer_disc_dscs(c, starts) /\ UNCHANGED <<table, svcs>>
    BY <1>4 DEF peer_dsc_done
<1>6. SvcsFound /\ \A i \in DOMAIN svcs : ChrsFound(i)
    BY <1>2 DEF DscProgress
<1> QED BY <1>1, <1>3, <1>5, <1>6, DscsProgressNext
-----------------------------------------------------------------------------
(* All steps of a discovery, and those that begin and end it.              *)

LEMMA AnswerProgresses ==
    ASSUME NEW c \in Chains, NEW starts \in BOOLEAN, ListsInv, ProgressInv,
           Answer(c, starts) \/ ProcError(c)
    PROVE  ProgressInv' /\ Reports(c) /\ chain[c] # Idle
<1>1. CASE peer_svc_disced(c)
    <2>1. OutOfMemory(c) \/ UNCHANGED <<outcome, link>>
        BY <1>1, SvcAnswer DEF Taken
    <2>2. chain[c].step = "svc" /\ table' = table
        BY <1>1 DEF peer_svc_disced
    <2>3. ProgressInv'
        BY <1>1, SvcProgresses
    <2>4. chain[c] # Idle
        BY <2>2 DEF Idle
    <2> QED BY <2>1, <2>2, <2>3, <2>4 DEF Reports, OutOfMemory
<1>2. CASE peer_chr_disced(c)
    <2>1. OutOfMemory(c) \/ UNCHANGED <<outcome, link>>
        BY <1>2, ChrAnswer DEF Taken
    <2>2. chain[c].step = "chr" /\ table' = table
        BY <1>2 DEF peer_chr_disced
    <2>3. ProgressInv'
        BY <1>2, ChrProgresses
    <2>4. chain[c] # Idle
        BY <2>2 DEF Idle
    <2> QED BY <2>1, <2>2, <2>3, <2>4 DEF Reports, OutOfMemory
<1>3. CASE peer_dsc_disced(c)
    <2>1. OutOfMemory(c) \/ UNCHANGED <<outcome, link>>
        BY <1>3, DscAnswer DEF Taken
    <2>2. chain[c].step = "dsc" /\ table' = table
        BY <1>3 DEF peer_dsc_disced
    <2>3. ProgressInv'
        BY <1>3, DscProgresses
    <2>4. chain[c] # Idle
        BY <2>2 DEF Idle
    <2> QED BY <2>1, <2>2, <2>3, <2>4 DEF Reports, OutOfMemory
<1>4. CASE peer_svc_done(c, starts)
    BY <1>4, SvcDoneProgresses DEF peer_svc_done, Idle
<1>5. CASE peer_chr_done(c, starts)
    BY <1>5, ChrDoneProgresses DEF peer_chr_done, Idle
<1>6. CASE peer_dsc_done(c, starts)
    BY <1>6, DscDoneProgresses DEF peer_dsc_done, Idle
<1>7. CASE ProcError(c)
    BY <1>7, EndsProgress DEF ProcError, Reports
<1> QED BY <1>1, <1>2, <1>3, <1>4, <1>5, <1>6, <1>7 DEF Answer

LEMMA FreshProgresses ==
    ASSUME Overlap = FALSE, ListsInv, Connect \/ Disconnect \/ peer_disc_all
    PROVE  ProgressInv'
<1>1. svcs' = <<>> /\ DOMAIN svcs' = {}
    BY DEF Connect, Disconnect, peer_disc_all, Undiscover
<1>2. DscsListed'
    BY <1>1 DEF DscsListed
<1>3. CASE Connect \/ Disconnect
    <2>1. \A c \in Chains : chain'[c].step = "none"
        BY <1>3 DEF Connect, Disconnect, Idle
    <2> QED BY <1>2, <2>1 DEF ProgressInv, Progress
<1>4. CASE peer_disc_all
    <2>1. \A d \in Chains : chain[d] = Idle
        BY <1>4 DEF peer_disc_all, Running, ListsInv, DrivenInv
    <2>2. PICK d \in Chains :
            chain' = [chain EXCEPT ![d] = Proc("svc", 1, Len(table), 0)] \/ chain' = chain
        BY <1>4 DEF peer_disc_all
    <2>3. prev' = 1 /\ table' = table
        BY <1>4 DEF peer_disc_all, Undiscover
    <2>4. ASSUME NEW c \in Chains PROVE chain'[c] = Idle \/ chain'[c] = Proc("svc", 1, Len(table), 0)
        BY <2>1, <2>2 DEF ListsInv, DrivenInv, Types
    <2>5. \A s \in Services(table) : ~ (s < 1)
        <3>1. DOMAIN table = 1..Len(table) /\ Len(table) \in Nat
            BY LenProperties DEF ListsInv, DrivenInv, Types
        <3> QED BY <3>1 DEF Services
    <2>6. ASSUME NEW c \in Chains PROVE Progress(c)'
        <3>1. CASE chain'[c] = Idle
            BY <3>1 DEF Progress, Idle
        <3>2. CASE chain'[c] = Proc("svc", 1, Len(table), 0)
            <4>1. chain'[c].step = "svc" /\ chain'[c].end = Len(table) /\ chain'[c].at = 1
                BY <3>2 DEF Proc
            <4>2. SvcProgress(c)'
                BY <1>1, <2>3, <2>5, <4>1 DEF SvcProgress
            <4> QED BY <4>1, <4>2 DEF Progress
        <3> QED BY <2>4, <3>1, <3>2
    <2> QED BY <1>2, <2>6 DEF ProgressInv
<1> QED BY <1>3, <1>4
-----------------------------------------------------------------------------
(* What is reported.                                                       *)

(* The latest discovery is the last one that is not "none".                *)
LEMMA LatestIs ==
    ASSUME NEW o, NEW c \in Chains, o[c] # "none", \A d \in Chains : d > c => o[d] = "none"
    PROVE  \A e \in Chains :
             (o[e] # "none" /\ \A d \in Chains : d > e => o[d] = "none") <=> e = c
<1>1. \A e \in Chains : e \in Nat
    BY PoolAssumption DEF Chains
<1>2. ASSUME NEW e \in Chains, o[e] # "none", \A d \in Chains : d > e => o[d] = "none"
      PROVE  e = c
    <2>1. ~ (e > c) /\ ~ (c > e)
        BY <1>2
    <2> QED BY <1>1, <2>1
<1> QED BY <1>2

LEMMA RunningReports ==
    ASSUME NEW c \in Chains, ListsInv, ProgressInv, OutcomesInOrder, chain[c] # Idle, Reports(c)
    PROVE  OutcomesInOrder' /\ MirrorOnComplete' /\ (Discovered' => Succeed(c) /\ AllFound)
<1>0. AllFound => svcs = Mirror(table)
    BY FoundIsMirror DEF AllFound, ListsInv, DrivenInv, ProgressInv
<1>1. /\ outcome[c] = "running" /\ link # "down"
      /\ \A d \in Chains : d # c => outcome[d] # "running"
      /\ \A d \in Chains : d > c => outcome[d] = "none"
    BY DEF ListsInv, DrivenInv, OutcomesInOrder
<1>2. /\ link' # "down" /\ table' = table
      /\ \A d \in Chains : d # c => outcome'[d] = outcome[d]
      /\ \/ outcome'[c] \in {"failed", "running"}
         \/ outcome'[c] = "ok" /\ svcs' = Mirror(table) /\ Succeed(c) /\ AllFound
    BY <1>0, <1>1 DEF Reports, Fail, Succeed, ListsInv, DrivenInv, Types
<1>3. \A d \in Chains : outcome'[d] = "none" <=> outcome[d] = "none"
    BY <1>1, <1>2
<1>4. \A d \in Chains : outcome'[d] = "running" => d = c
    BY <1>1, <1>2
<1>5. OutcomesInOrder'
    BY <1>1, <1>2, <1>3, <1>4 DEF OutcomesInOrder
<1>6. \A e \in Chains : Started(e)' <=> e = c
    <2>1. outcome'[c] # "none" /\ \A d \in Chains : d > c => outcome'[d] = "none"
        BY <1>1, <1>3
    <2> QED BY <2>1, LatestIs DEF Started
<1>7. MirrorOnComplete' /\ (Discovered' => Succeed(c) /\ AllFound)
    BY <1>2, <1>6 DEF MirrorOnComplete, Discovered
<1> QED BY <1>5, <1>7

LEMMA FreshReports ==
    ASSUME Overlap = FALSE, ListsInv, OutcomesInOrder, Connect \/ Disconnect \/ peer_disc_all
    PROVE  OutcomesInOrder' /\ ~Discovered'
<1>1. CASE Connect
    <2>1. link' = "up" /\ \A c \in Chains : outcome'[c] = "none"
        BY <1>1 DEF Connect
    <2> QED BY <2>1 DEF OutcomesInOrder, Discovered
<1>2. CASE Disconnect
    <2>1. link' = "down" /\ \A c \in Chains : outcome'[c] = IF chain[c] # Idle THEN "failed" ELSE outcome[c]
        BY <1>2 DEF Disconnect
    <2>2. \A c \in Chains : chain[c] # Idle <=> outcome[c] = "running"
        BY <1>2 DEF Disconnect, ListsInv, DrivenInv, RunningIsDriven
    <2>3. \A c \in Chains : outcome'[c] # "running" /\ (outcome'[c] = "none" <=> outcome[c] = "none")
        BY <2>1, <2>2
    <2> QED BY <2>1, <2>3 DEF OutcomesInOrder, Discovered
<1>3. CASE peer_disc_all
    <2>1. \A d \in Chains : outcome[d] # "running"
        BY <1>3 DEF peer_disc_all, Running
    <2>2. PICK c \in Chains :
            /\ outcome[c] = "none" /\ \A d \in 1..(c-1) : outcome[d] # "none"
            /\ \/ outcome' = [outcome EXCEPT ![c] = "running"]
               \/ outcome' = [outcome EXCEPT ![c] = "unstarted"]
        BY <1>3 DEF peer_disc_all
    <2>3. link' # "down"
        BY <1>3 DEF peer_disc_all
    <2>4. /\ outcome'[c] \in {"running", "unstarted"}
          /\ \A d \in Chains : d # c => outcome'[d] = outcome[d]
        BY <2>2 DEF ListsInv, DrivenInv, Types
    <2>5. \A d \in Chains : d > c => outcome'[d] = "none"
        <3>1. \A d \in Chains : d > c => outcome[d] = "none"
            BY <2>2 DEF OutcomesInOrder
        <3>2. ~ (c > c)
            BY PoolAssumption DEF Chains
        <3> QED BY <2>4, <3>1, <3>2
    <2>6. \A d \in Chains : d < c => outcome'[d] # "none"
        <3>1. \A d \in Chains : d < c => d \in 1..(c - 1) /\ d # c
            BY PoolAssumption DEF Chains
        <3> QED BY <2>2, <2>4, <3>1
    <2>7. \A d \in Chains : d < c \/ d = c \/ d > c
        BY PoolAssumption DEF Chains
    <2>8. OutcomesInOrder'
        <3>1. ASSUME NEW a \in Chains, NEW b \in Chains, a < b, outcome'[a] = "none"
              PROVE  outcome'[b] = "none"
            <4>1. a > c
                BY <2>4, <2>6, <2>7, <3>1
            <4>2. b > c
                BY <3>1, <4>1, PoolAssumption DEF Chains
            <4> QED BY <2>5, <4>2
        <3>2. ASSUME NEW a \in Chains, NEW b \in Chains, a < b, outcome'[a] = "running"
              PROVE  outcome'[b] = "none"
            <4>1. a = c
                BY <2>1, <2>4, <3>2
            <4> QED BY <2>5, <3>2, <4>1
        <3> QED BY <2>3, <3>1, <3>2 DEF OutcomesInOrder
    <2>9. \A e \in Chains : Started(e)' <=> e = c
        <3>1. outcome'[c] # "none"
            BY <2>4
        <3> QED BY <2>5, <3>1, LatestIs DEF Started
    <2>10. ~Discovered'
        BY <2>4, <2>9 DEF Discovered
    <2> QED BY <2>8, <2>10
<1> QED BY <1>1, <1>2, <1>3

LEMMA MirrorInit == Init => MirrorInv
<1> SUFFICES ASSUME Init PROVE MirrorInv
    OBVIOUS
<1>1. ListsInv
    BY ListsInit
<1>2. /\ svcs = <<>> /\ link = "down"
      /\ \A c \in Chains : chain[c].step = "none" /\ outcome[c] = "none"
    BY DEF Init, Idle
<1>3. ProgressInv
    BY <1>2 DEF ProgressInv, DscsListed, Progress
<1>4. OutcomesInOrder /\ MirrorOnComplete
    BY <1>2 DEF OutcomesInOrder, MirrorOnComplete, Discovered
<1> QED BY <1>1, <1>3, <1>4 DEF MirrorInv

LEMMA MirrorStep ==
    ASSUME Overlap = FALSE, MirrorInv, [Next]_vars
    PROVE  MirrorInv'
<1>1. ListsInv' /\ ListsInv /\ ProgressInv /\ OutcomesInOrder
    BY ListsStep DEF MirrorInv
<1>2. CASE Connect \/ Disconnect \/ peer_disc_all
    BY <1>1, <1>2, FreshProgresses, FreshReports DEF MirrorInv, MirrorOnComplete
<1>3. ASSUME NEW c \in Chains, NEW starts \in BOOLEAN, Answer(c, starts) \/ ProcError(c)
      PROVE  MirrorInv'
    <2>1. ProgressInv' /\ Reports(c) /\ chain[c] # Idle
        BY <1>1, <1>3, AnswerProgresses
    <2> QED BY <1>1, <2>1, RunningReports DEF MirrorInv
<1>4. CASE UNCHANGED vars
    <2>1. ProgressInv'
        BY <1>1, <1>4 DEF vars, ProgressInv, DscsListed, DscHandles, Progress, SvcProgress, ChrProgress,
                          DscProgress, SvcsFound, ChrsFound, NoDscs, DscsUpTo, DscsFound
    <2>2. OutcomesInOrder' /\ MirrorOnComplete'
        BY <1>4 DEF vars, MirrorInv, OutcomesInOrder, MirrorOnComplete, Discovered, Started
    <2> QED BY <1>1, <2>1, <2>2 DEF MirrorInv
<1> QED BY <1>2, <1>3, <1>4 DEF Next

(* As long as discoveries do not overlap, a discovery that is reported as  *)
(* a success has found everything: the peer's lists are the camera's       *)
(* table, for every table a GATT server can have.                          *)
THEOREM SuccessIsComplete ==
    ASSUME Overlap = FALSE
    PROVE  Spec => []MirrorOnComplete
<1>1. Overlap = FALSE
    OBVIOUS
<1>2. MirrorInv /\ [Next]_vars => MirrorInv'
    BY <1>1, MirrorStep
<1>3. MirrorInv => MirrorOnComplete
    BY DEF MirrorInv
<1> QED BY MirrorInit, <1>2, <1>3, PTL DEF Spec
-----------------------------------------------------------------------------
(* The refinement.                                                         *)

(* What the abstract service is told while discovery c is the latest.      *)
LEMMA PhaseIs ==
    ASSUME NEW c \in Chains, outcome[c] # "none", \A d \in Chains : d > c => outcome[d] = "none",
           link # "down"
    PROVE  Phase = outcome[c]
<1>1. \A e \in Chains : Started(e) <=> e = c
    BY LatestIs DEF Started
<1>2. (CHOOSE e \in Chains : Started(e)) = c
    BY <1>1
<1> QED BY <1>2 DEF Phase

LEMMA PhaseIsNext ==
    ASSUME NEW c \in Chains, outcome'[c] # "none", \A d \in Chains : d > c => outcome'[d] = "none",
           link' # "down"
    PROVE  Phase' = outcome'[c]
<1>1. \A e \in Chains : Started(e)' <=> e = c
    BY LatestIs DEF Started
<1>2. (CHOOSE e \in Chains : Started(e)') = c
    BY <1>1
<1> QED BY <1>2 DEF Phase

(* Some discovery is the latest, once one began.                           *)
LEMMA LastOne ==
    ASSUME OutcomesInOrder, NEW b \in Chains, outcome[b] # "none"
    PROVE  \E c \in Chains : outcome[c] # "none" /\ \A d \in Chains : d > c => outcome[d] = "none"
<1> DEFINE S == {c \in Chains : outcome[c] # "none"}
<1>1. S \subseteq 0..MaxChains /\ S # {} /\ MaxChains \in Nat
    BY PoolAssumption DEF Chains
<1>2. Max(S) \in S /\ \A d \in S : Max(S) >= d
    <2> HIDE DEF S
    <2> QED BY <1>1, MaxIsIn
<1>3. \A d \in Chains : d > Max(S) => d \notin S
    <2> HIDE DEF S
    <2>0. Max(S) \in S /\ S \subseteq 0..MaxChains
        BY <1>1, <1>2
    <2>1. Max(S) \in Nat
        <3>1. Max(S) \in 0..MaxChains
            BY <2>0, Zenon
        <3> QED BY <1>1, <3>1
    <2>2. \A d \in Chains : d \in Nat
        BY DEF Chains
    <2> QED BY <1>1, <1>2, <2>1, <2>2
<1> HIDE DEF S
<1>4. PICK m \in S : \A d \in Chains : d > m => d \notin S
    BY <1>2, <1>3
<1> QED BY <1>4 DEF S

(* Both modules mirror a table in the same way.                            *)
LEMMA SameMirror == \A t : Service!Mirror(t) = Mirror(t)
<1>1. \A S : Service!Sorted(S) = Sorted(S)
    BY DEF Sorted, Service!Sorted, Cardinality, Service!Cardinality
<1>2. \A t : Service!Services(t) = Services(t)
    BY DEF Services, SvcTypes, Service!Services, Service!SvcTypes
<1>3. \A t, s : Service!SvcEnd(t, s) = SvcEnd(t, s)
    BY <1>2 DEF SvcEnd, Service!SvcEnd, Max, Service!Max
<1>4. \A t, s : Service!Chrs(t, s) = Chrs(t, s)
    BY <1>3 DEF Chrs, ChrTypes, Service!Chrs, Service!ChrTypes
<1>5. \A t, s, d : Service!ChrEnd(t, s, d) = ChrEnd(t, s, d)
    BY <1>3, <1>4 DEF ChrEnd, Service!ChrEnd, Max, Service!Max
<1>6. \A t, s, d : Service!MirrorChr(t, s, d) = MirrorChr(t, s, d)
    BY <1>1, <1>5 DEF MirrorChr, Service!MirrorChr
<1>7. \A t, s : Service!MirrorSvc(t, s) = MirrorSvc(t, s)
    BY <1>1, <1>3, <1>4, <1>6 DEF MirrorSvc, Service!MirrorSvc
<1> QED BY <1>1, <1>2, <1>7 DEF Mirror, Service!Mirror

LEMMA AnswerImplements ==
    ASSUME NEW c \in Chains, MirrorInv, chain[c] # Idle, Reports(c)
    PROVE  [Service!Next]_(Service!vars)
<1>1. /\ outcome[c] = "running" /\ link # "down"
      /\ \A d \in Chains : d > c => outcome[d] = "none"
    BY DEF MirrorInv, ListsInv, DrivenInv, OutcomesInOrder
<1>2. Phase = "running"
    BY <1>1, PhaseIs
<1>0. AllFound => svcs = Mirror(table)
    BY FoundIsMirror DEF AllFound, MirrorInv, ListsInv, DrivenInv, ProgressInv
<1>3. /\ link' # "down" /\ table' = table
      /\ \/ outcome'[c] = "failed"
         \/ outcome'[c] = "ok" /\ svcs' = Mirror(table)
         \/ outcome'[c] = "running"
    BY <1>0, <1>1 DEF Reports, Fail, Succeed, MirrorInv, ListsInv, DrivenInv, Types
<1>4. Phase' = outcome'[c]
    <2>1. \A d \in Chains : d > c => outcome'[d] = "none"
        <3>1. ~ (c > c)
            BY PoolAssumption DEF Chains
        <3> QED BY <1>1, <3>1 DEF Reports, Fail, Succeed, MirrorInv, ListsInv, DrivenInv, Types
    <2>2. outcome'[c] # "none"
        BY <1>3
    <2> QED BY <1>3, <2>1, <2>2, PhaseIsNext
<1>5. CASE outcome'[c] = "failed"
    BY <1>2, <1>3, <1>4, <1>5 DEF Service!Next, Service!Fail
<1>6. CASE outcome'[c] = "ok" /\ svcs' = Mirror(table)
    BY <1>2, <1>3, <1>4, <1>6, SameMirror DEF Service!Next, Service!Complete
<1>7. CASE outcome'[c] = "running"
    BY <1>2, <1>3, <1>4, <1>7 DEF Service!vars
<1> QED BY <1>3, <1>5, <1>6, <1>7

LEMMA LinkImplements ==
    ASSUME MirrorInv, Connect \/ Disconnect
    PROVE  Service!Next
<1>1. CASE Connect
    <2>1. Phase = "down"
        BY <1>1 DEF Connect, Phase
    <2>2. Phase' = "idle" /\ table' \in Tables
        BY <1>1 DEF Connect, Phase
    <2> QED BY <2>1, <2>2 DEF Service!Next, Service!Connect
<1>2. CASE Disconnect
    <2>1. Phase' = "down" /\ table' = <<>>
        BY <1>2 DEF Disconnect, Phase
    <2>2. Phase # "down"
        <3>1. link # "down"
            BY <1>2 DEF Disconnect
        <3>2. \A c \in Chains : outcome[c] # "down"
            BY DEF MirrorInv, ListsInv, DrivenInv, Types
        <3>3. CASE \A c \in Chains : outcome[c] = "none"
            BY <3>1, <3>3 DEF Phase
        <3>4. CASE \E c \in Chains : outcome[c] # "none"
            <4>1. PICK c \in Chains : outcome[c] # "none" /\ \A d \in Chains : d > c => outcome[d] = "none"
                BY <3>4, LastOne DEF MirrorInv
            <4> QED BY <3>1, <3>2, <4>1, PhaseIs
        <3> QED BY <3>3, <3>4
    <2> QED BY <2>1, <2>2 DEF Service!Next, Service!Disconnect
<1> QED BY <1>1, <1>2

LEMMA BeginImplements ==
    ASSUME Overlap = FALSE, MirrorInv, peer_disc_all
    PROVE  Service!Next
<1>1. link # "down" /\ link' = link /\ table' = table
    BY DEF peer_disc_all
<1>2. \A d \in Chains : outcome[d] \notin {"running", "down"}
    BY DEF peer_disc_all, Running, MirrorInv, ListsInv, DrivenInv, Types
<1>3. Phase \notin {"down", "running"}
    <2>1. CASE \A c \in Chains : outcome[c] = "none"
        BY <1>1, <2>1 DEF Phase
    <2>2. CASE \E c \in Chains : outcome[c] # "none"
        <3>1. PICK c \in Chains : outcome[c] # "none" /\ \A d \in Chains : d > c => outcome[d] = "none"
            BY <2>2, LastOne DEF MirrorInv
        <3>2. Phase = outcome[c]
            BY <1>1, <3>1, PhaseIs
        <3> QED BY <1>2, <3>2
    <2> QED BY <2>1, <2>2
<1>4. PICK c \in Chains :
        /\ outcome[c] = "none"
        /\ \/ outcome' = [outcome EXCEPT ![c] = "running"]
           \/ outcome' = [outcome EXCEPT ![c] = "unstarted"]
    BY DEF peer_disc_all
<1>5. /\ outcome'[c] \in {"running", "unstarted"}
      /\ \A d \in Chains : d # c => outcome'[d] = outcome[d]
    BY <1>4 DEF MirrorInv, ListsInv, DrivenInv, Types
<1>6. \A d \in Chains : d > c => outcome'[d] = "none"
    <2>1. \A d \in Chains : d > c => outcome[d] = "none"
        BY <1>4 DEF MirrorInv, OutcomesInOrder
    <2>2. ~ (c > c)
        BY PoolAssumption DEF Chains
    <2> QED BY <1>5, <2>1, <2>2
<1>7. Phase' = outcome'[c]
    BY <1>1, <1>5, <1>6, PhaseIsNext
<1> QED BY <1>1, <1>3, <1>5, <1>7 DEF Service!Next, Service!Begin

(* As long as discoveries do not overlap, peer.c implements the abstract   *)
(* discovery service: every step of it is a step of the service or none.   *)
(* That the service's reports do come is left to TLC (ImplementsService).  *)
THEOREM StepsImplementService ==
    ASSUME Overlap = FALSE
    PROVE  Spec => Service!Init /\ [][Service!Next]_(Service!vars)
<1>1. Overlap = FALSE
    OBVIOUS
<1>2. Init => Service!Init
    BY DEF Init, Service!Init, Phase
<1>3. MirrorInv /\ [Next]_vars => MirrorInv'
    BY <1>1, MirrorStep
<1>4. MirrorInv /\ [Next]_vars => [Service!Next]_(Service!vars)
    <2> SUFFICES ASSUME MirrorInv, [Next]_vars PROVE [Service!Next]_(Service!vars)
        OBVIOUS
    <2>1. CASE Connect \/ Disconnect
        BY <2>1, LinkImplements
    <2>2. CASE peer_disc_all
        BY <1>1, <2>2, BeginImplements
    <2>3. ASSUME NEW c \in Chains, NEW starts \in BOOLEAN, Answer(c, starts) \/ ProcError(c)
          PROVE  [Service!Next]_(Service!vars)
        <3>1. Reports(c) /\ chain[c] # Idle
            BY <2>3, AnswerProgresses DEF MirrorInv
        <3> QED BY <3>1, AnswerImplements
    <2>4. CASE UNCHANGED vars
        BY <2>4 DEF vars, Phase, Started, Service!vars
    <2> QED BY <2>1, <2>2, <2>3, <2>4 DEF Next
<1> QED BY MirrorInit, <1>2, <1>3, <1>4, PTL DEF Spec
=============================================================================
