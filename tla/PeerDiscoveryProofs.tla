------------------------ MODULE PeerDiscoveryProofs -------------------------
(***************************************************************************)
(* Proofs about PeerDiscovery, for any attribute tables, pools and bounds, *)
(* as long as discoveries do not overlap: a discovery is driven until it   *)
(* is reported, and the lists it builds stay in the order of their         *)
(* handles, so every search finds what it looks for, no assert is reached, *)
(* and nothing is listed twice.                                            *)
(*                                                                         *)
(* RunningIsDriven is not inductive: that a chain goes on with a cursor    *)
(* above 0 needs the value handles on the lists to be above 0, and that no *)
(* other chain clears the cursor needs that at most one runs.  DrivenInv   *)
(* adds both, with the types of the lists the next procedure comes from.   *)
(*                                                                         *)
(* ListsInv is inductive on top of DrivenInv.  It says of the lists that   *)
(* they name attributes of the table in rising order, and of the procedure *)
(* that waits that its range begins behind what its list already holds.    *)
(***************************************************************************)
EXTENDS PeerDiscovery, SequenceTheorems, WellFoundedInduction, TLAPS

-----------------------------------------------------------------------------
(* Existence of what the definitions choose.                               *)

(* A non-empty set of naturals has a smallest element.                     *)
LEMMA SmallestNat ==
    ASSUME NEW S, S \subseteq Nat, S # {}
    PROVE  \E x \in S : \A y \in S : x <= y
<1>1. PICK x \in S : \A y \in S : ~ (<<y, x>> \in OpToRel(<, Nat))
    BY WFMin, NatLessThanWellFounded
<1>2. \A y \in S : ~ (y < x)
    BY <1>1 DEF OpToRel
<1> QED BY <1>2

LEMMA MinIsIn ==
    ASSUME NEW S, S \subseteq Nat, S # {}
    PROVE  Min(S) \in S /\ \A y \in S : Min(S) <= y
BY SmallestNat DEF Min

(* A non-empty set of naturals below a bound has a largest element.        *)
LEMMA MaxIsIn ==
    ASSUME NEW S, NEW n \in Nat, S \subseteq 0..n, S # {}
    PROVE  Max(S) \in S /\ \A y \in S : Max(S) >= y
<1> DEFINE T == {n - x : x \in S}
<1>1. T \subseteq Nat /\ T # {}
    <2>1. \A x \in S : x \in Int /\ n - x \in Nat
        OBVIOUS
    <2> QED BY <2>1
<1>2. PICK t \in T : \A u \in T : t <= u
    BY <1>1, SmallestNat
<1>3. PICK x \in S : t = n - x
    OBVIOUS
<1>4. \A y \in S : x >= y
    BY <1>2, <1>3
<1> QED BY <1>4 DEF Max

(* A list of keys has a place for every handle.                            *)
LEMMA FindPrev ==
    ASSUME NEW keys \in Seq(Nat), NEW h \in Nat
    PROVE  /\ find_prev(keys, h) \in 0..Len(keys)
           /\ \A j \in 1..find_prev(keys, h) : keys[j] < h
           /\ find_prev(keys, h) < Len(keys) => keys[find_prev(keys, h) + 1] >= h
<1> DEFINE P == {p \in 0..Len(keys) : p < Len(keys) => keys[p+1] >= h}
<1>1. P \subseteq Nat /\ Len(keys) \in P
    BY LenProperties
<1>2. PICK p \in P : \A q \in P : p <= q
    BY <1>1, SmallestNat
<1>3. \A j \in 1..p : keys[j] < h
    <2> SUFFICES ASSUME NEW j \in 1..p, ~ (keys[j] < h) PROVE FALSE
        OBVIOUS
    <2>1. j \in 1..Len(keys) /\ keys[j] \in Nat
        BY <1>1, LenProperties, ElementOfSeq
    <2>2. j - 1 \in P
        BY <2>1, <1>1, LenProperties
    <2> HIDE DEF P
    <2>3. p <= j - 1
        BY <1>2, <2>2
    <2>4. p \in Nat
        BY <1>1
    <2> QED BY <2>3, <2>4
<1> QED BY <1>2, <1>3 DEF find_prev

(* The first of some positions is one of them, and before all others.      *)
LEMMA FirstIsIn ==
    ASSUME NEW P, P \subseteq Nat \X Nat, P # {}
    PROVE  /\ First(P) \in P
           /\ \A q \in P : First(P)[1] < q[1] \/ (First(P)[1] = q[1] /\ First(P)[2] <= q[2])
<1> DEFINE I == {p[1] : p \in P}
<1>1. \E i \in I : \A k \in I : i <= k
    <2>1. I \subseteq Nat /\ I # {}
        OBVIOUS
    <2> HIDE DEF I
    <2> QED BY <2>1, SmallestNat
<1>2. PICK i \in I : \A k \in I : i <= k
    BY <1>1
<1> DEFINE Q == {p[2] : p \in {q \in P : q[1] = i}}
<1>3. \E j \in Q : \A k \in Q : j <= k
    <2>1. Q \subseteq Nat /\ Q # {}
        BY <1>2
    <2> HIDE DEF Q
    <2> QED BY <2>1, SmallestNat
<1>4. PICK j \in Q : \A k \in Q : j <= k
    BY <1>3
<1>5. PICK p \in P : p[1] = i /\ p[2] = j
    BY <1>4
<1>6. \A q \in P : p[1] < q[1] \/ (p[1] = q[1] /\ p[2] <= q[2])
    BY <1>2, <1>4, <1>5
<1> QED BY <1>6 DEF First

(* A service ends at or after its declaration, within the table.           *)
LEMMA SvcEndType ==
    ASSUME NEW t \in Seq(AttrTypes), NEW s \in DOMAIN t
    PROVE  SvcEnd(t, s) \in s..Len(t)
<1> DEFINE E == {e \in s..Len(t) : \A h \in (s+1)..e : h \notin Services(t)}
<1>1. s \in 1..Len(t) /\ Len(t) \in Nat
    BY LenProperties
<1>2. E \subseteq 0..Len(t) /\ s \in E
    BY <1>1
<1>3. Max(E) \in E
    BY <1>1, <1>2, MaxIsIn
<1> QED BY <1>3 DEF SvcEnd
-----------------------------------------------------------------------------
(* The lists.                                                              *)

Chr == [def : Nat, val : Nat \ {0}, dscs : Seq(Nat)]
Svc == [start : Nat, end : Nat, chrs : Seq(Chr)]

(* Both ways to insert into a list give a list.                            *)
LEMMA InsertType ==
    ASSUME NEW S, NEW list \in Seq(S), NEW p \in 0..Len(list), NEW e \in S
    PROVE  Insert(list, p, e) \in Seq(S) /\ Link(list, p, e) \in Seq(S)
<1>1. Len(list) \in Nat /\ \A i \in 1..Len(list) : list[i] \in S
    BY LenProperties, ElementOfSeq
<1>2. SubSeq(list, 1, p) \in Seq(S) /\ SubSeq(list, p + 1, Len(list)) \in Seq(S)
    <2>1. \A i \in 1..p : list[i] \in S
        BY <1>1
    <2>2. \A i \in (p+1)..Len(list) : list[i] \in S
        BY <1>1
    <2> QED BY <1>1, <2>1, <2>2, SubSeqProperties
<1>3. <<e>> \in Seq(S)
    OBVIOUS
<1>4. Insert(list, p, e) = SubSeq(list, 1, p) \o <<e>> \o SubSeq(list, p + 1, Len(list))
    <2>1. (p + 1) - 1 = p
        BY <1>1
    <2> QED BY <2>1, Zenon DEF Insert, InsertAt
<1>5. Insert(list, p, e) \in Seq(S)
    BY <1>2, <1>3, <1>4, ConcatProperties
<1>6. Link(list, p, e) \in Seq(S)
    BY <1>2, <1>3, ConcatProperties, AppendProperties DEF Link
<1> QED BY <1>5, <1>6

(* The keys of a list of services and of a list of characteristics.        *)
LEMMA SvcKeysType ==
    ASSUME svcs \in Seq(Svc)
    PROVE  /\ svc_keys \in Seq(Nat) /\ Len(svc_keys) = Len(svcs)
           /\ DOMAIN svcs = 1..Len(svcs) /\ Len(svcs) \in Nat
           /\ \A i \in 1..Len(svcs) : svcs[i] \in Svc /\ svc_keys[i] = svcs[i].start
<1>1. DOMAIN svcs = 1..Len(svcs) /\ Len(svcs) \in Nat /\ \A i \in 1..Len(svcs) : svcs[i] \in Svc
    BY LenProperties, ElementOfSeq
<1>2. svc_keys \in [1..Len(svcs) -> Nat]
    BY <1>1 DEF svc_keys, Svc
<1>3. svc_keys \in Seq(Nat)
    BY <1>1, <1>2, SeqDef
<1>4. Len(svc_keys) = Len(svcs)
    BY <1>1, <1>2, <1>3, LenProperties
<1> QED BY <1>1, <1>3, <1>4 DEF svc_keys

LEMMA ChrKeysType ==
    ASSUME svcs \in Seq(Svc), NEW i \in DOMAIN svcs
    PROVE  /\ chr_keys(i) \in Seq(Nat) /\ Len(chr_keys(i)) = Len(svcs[i].chrs)
           /\ svcs[i].chrs \in Seq(Chr) /\ Len(svcs[i].chrs) \in Nat
           /\ DOMAIN svcs[i].chrs = 1..Len(svcs[i].chrs)
           /\ \A j \in 1..Len(svcs[i].chrs) :
                svcs[i].chrs[j] \in Chr /\ chr_keys(i)[j] = svcs[i].chrs[j].val
<1> DEFINE chrs == svcs[i].chrs
<1>1. chrs \in Seq(Chr)
    BY SvcKeysType DEF Svc
<1> HIDE DEF chrs
<1>2. DOMAIN chrs = 1..Len(chrs) /\ Len(chrs) \in Nat /\ \A j \in 1..Len(chrs) : chrs[j] \in Chr
    BY <1>1, LenProperties, ElementOfSeq
<1>3. chr_keys(i) = [j \in 1..Len(chrs) |-> chrs[j].val]
    BY <1>2 DEF chr_keys, chrs
<1>4. chr_keys(i) \in [1..Len(chrs) -> Nat]
    BY <1>2, <1>3 DEF Chr
<1>5. chr_keys(i) \in Seq(Nat)
    BY <1>2, <1>4, SeqDef
<1>6. Len(chr_keys(i)) = Len(chrs)
    BY <1>2, <1>4, <1>5, LenProperties
<1> QED BY <1>1, <1>2, <1>3, <1>5, <1>6 DEF chrs
-----------------------------------------------------------------------------
(* Who drives a discovery.                                                 *)

Step == [step : {"none", "svc", "chr", "dsc"}, at : Nat, end : Int, val : Nat]

(* The types the control needs; PeerPoolsProofs bounds them.               *)
Types ==
    /\ table \in Seq(AttrTypes)
    /\ svcs \in Seq(Svc)
    /\ prev \in Nat
    /\ cur \in [start : Nat, freed : BOOLEAN]
    /\ chain \in [Chains -> Step]
    /\ outcome \in [Chains -> {"none", "unstarted", "running", "ok", "failed"}]

(* A procedure waits for answers on behalf of running discoveries only and *)
(* of none once the program stopped; at most one runs, and it is driven.   *)
DrivenInv ==
    /\ Types
    /\ \A c \in Chains : chain[c] # Idle => outcome[c] = "running"
    /\ \A c, d \in Chains : outcome[c] = "running" /\ outcome[d] = "running" => c = d
    /\ link = "aborted" => \A c \in Chains : chain[c] = Idle
    /\ RunningIsDriven

(* What a callback of a running discovery does to its chain: it ends it,   *)
(* moves it on without clearing the cursor, or stops the program.          *)
MovesOn(c) ==
    \/ Fail(c) \/ Succeed(c) \/ AssertFails
    \/ /\ \E p \in Step : p.step # "none" /\ chain' = [chain EXCEPT ![c] = p]
       /\ prev' > 0
       /\ UNCHANGED <<outcome, link>>

LEMMA MovesOnKeepsDriven ==
    ASSUME NEW c \in Chains, DrivenInv, chain[c] # Idle, MovesOn(c),
           table' \in Seq(AttrTypes), svcs' \in Seq(Svc), prev' \in Nat,
           cur' \in [start : Nat, freed : BOOLEAN]
    PROVE  DrivenInv'
<1> USE DEF DrivenInv, Types
<1>1. Idle \in Step /\ outcome[c] = "running" /\ link # "aborted"
    BY DEF Idle, Step
<1>2. CASE Fail(c) \/ Succeed(c)
    <2>1. /\ chain' = [chain EXCEPT ![c] = Idle]
          /\ outcome' = [outcome EXCEPT ![c] = "failed"] \/ outcome' = [outcome EXCEPT ![c] = "ok"]
          /\ link' # "aborted"
        BY <1>1, <1>2 DEF Fail, Succeed
    <2>2. \A d \in Chains : outcome'[d] # "running" /\ chain'[d] = Idle
        BY <1>1, <2>1
    <2> QED BY <1>1, <2>1, <2>2 DEF RunningIsDriven
<1>3. CASE AssertFails
    BY <1>1, <1>3 DEF AssertFails, RunningIsDriven
<1>4. CASE /\ \E p \in Step : p.step # "none" /\ chain' = [chain EXCEPT ![c] = p]
           /\ prev' > 0
           /\ UNCHANGED <<outcome, link>>
    <2>1. PICK p \in Step : p.step # "none" /\ chain' = [chain EXCEPT ![c] = p]
        BY <1>4
    <2>2. p # Idle
        BY <2>1 DEF Idle
    <2>3. chain'[c] # Idle /\ \A d \in Chains \ {c} : chain'[d] = Idle /\ outcome[d] # "running"
        BY <1>1, <2>1, <2>2
    <2> QED BY <1>1, <1>4, <2>1, <2>3 DEF RunningIsDriven
<1> QED BY <1>2, <1>3, <1>4 DEF MovesOn

(* The attributes a procedure still reports are handles of its range.      *)
LEMMA ReportedType ==
    ASSUME Types, NEW c \in Chains, Reported(c) # {}
    PROVE  /\ Reported(c) \subseteq Nat
           /\ Min(Reported(c)) \in Reported(c)
           /\ \A h \in Reported(c) : Min(Reported(c)) <= h
<1>1. Reported(c) \subseteq chain[c].at..chain[c].end
    BY DEF Reported
<1>2. chain[c].at \in Nat /\ chain[c].end \in Int
    BY DEF Types, Step
<1>3. Reported(c) \subseteq Nat
    BY <1>1, <1>2
<1> QED BY <1>3, MinIsIn

(* Where peer_disc_dscs may look.                                          *)
LEMMA PositionsType ==
    ASSUME svcs \in Seq(Svc)
    PROVE  /\ Positions(svcs) \subseteq Nat \X Nat
           /\ \A p \in Positions(svcs) :
                /\ p[1] \in DOMAIN svcs /\ p[2] \in DOMAIN svcs[p[1]].chrs
                /\ svcs[p[1]].chrs[p[2]] \in Chr
                /\ chr_end_handle(svcs[p[1]], p[2]) \in Int
<1>1. \A p \in Positions(svcs) :
        p \in {p[1]} \X {p[2]} /\ p[1] \in DOMAIN svcs /\ p[2] \in DOMAIN svcs[p[1]].chrs
    BY DEF Positions
<1>2. ASSUME NEW i \in DOMAIN svcs, NEW j \in DOMAIN svcs[i].chrs
      PROVE  /\ i \in Nat /\ j \in Nat /\ svcs[i].chrs[j] \in Chr
             /\ chr_end_handle(svcs[i], j) \in Int
    <2>1. i \in Nat /\ svcs[i].end \in Nat
        BY SvcKeysType DEF Svc
    <2>2. j \in 1..Len(svcs[i].chrs) /\ Len(svcs[i].chrs) \in Nat
        BY ChrKeysType
    <2>3. \A k \in 1..Len(svcs[i].chrs) : svcs[i].chrs[k] \in Chr
        BY ChrKeysType
    <2>4. j < Len(svcs[i].chrs) => svcs[i].chrs[j+1].def \in Nat
        BY <2>2, <2>3 DEF Chr
    <2> QED BY <2>1, <2>2, <2>3, <2>4 DEF chr_end_handle
<1> QED BY <1>1, <1>2

(* The procedures peer_disc_dscs and peer_disc_chrs start.                 *)
LEMMA DscProc ==
    ASSUME NEW chr \in Chr, NEW end \in Int
    PROVE  /\ Proc("dsc", chr.val + 1, end, chr.val) \in Step
           /\ Proc("dsc", chr.val + 1, end, chr.val).step # "none"
           /\ chr.val \in Nat /\ chr.val > 0
<1>1. chr.val \in Nat \ {0}
    BY DEF Chr
<1> QED BY <1>1 DEF Proc, Step

LEMMA ChrProc ==
    ASSUME NEW svc \in Svc
    PROVE  /\ Proc("chr", svc.start, svc.end, 0) \in Step
           /\ Proc("chr", svc.start, svc.end, 0).step # "none"
           /\ svc.start \in Nat
<1>1. svc.start \in Nat /\ svc.end \in Nat
    BY DEF Svc
<1> QED BY <1>1 DEF Proc, Step

(* The next procedure of a running discovery whose cursor is not 0.        *)
LEMMA NextDscs ==
    ASSUME NEW c \in Chains, NEW starts \in BOOLEAN, DrivenInv, chain[c] # Idle,
           peer_disc_dscs(c, starts), UNCHANGED <<table, svcs>>
    PROVE  DrivenInv'
<1> USE DEF DrivenInv, Types
<1>1. CASE undiscovered_chrs = {}
    <2>1. Succeed(c) /\ prev' = 0 /\ cur' = cur
        BY <1>1 DEF peer_disc_dscs
    <2> QED BY <2>1, MovesOnKeepsDriven DEF MovesOn
<1>2. CASE undiscovered_chrs # {}
    <2> DEFINE at == First(undiscovered_chrs)
               svc == svcs[at[1]]
               chr == svc.chrs[at[2]]
               p == Proc("dsc", chr.val + 1, chr_end_handle(svc, at[2]), chr.val)
    <2>1. undiscovered_chrs \subseteq Positions(svcs)
        BY DEF undiscovered_chrs
    <2>2. at \in Positions(svcs)
        BY <1>2, <2>1, PositionsType, FirstIsIn
    <2>3. chr \in Chr /\ chr_end_handle(svc, at[2]) \in Int
        BY <2>2, PositionsType
    <2>4. p \in Step /\ p.step # "none"
        <3> HIDE DEF chr, svc, at
        <3> QED BY <2>3, DscProc
    <2>5. cur' = cur /\ prev' = chr.val /\ (Fail(c) \/ Start(c, p))
        BY <1>2 DEF peer_disc_dscs
    <2>6. prev' \in Nat /\ prev' > 0
        BY <2>3, <2>5 DEF Chr
    <2>7. MovesOn(c)
        BY <2>4, <2>5, <2>6 DEF MovesOn, Start
    <2> QED BY <2>5, <2>6, <2>7, MovesOnKeepsDriven
<1> QED BY <1>1, <1>2

LEMMA NextChrs ==
    ASSUME NEW c \in Chains, NEW starts \in BOOLEAN, DrivenInv, chain[c] # Idle, prev > 0,
           peer_disc_chrs(c, starts), UNCHANGED <<table, svcs>>
    PROVE  DrivenInv'
<1> USE DEF DrivenInv, Types
<1>1. CASE undiscovered_svcs = {}
    BY <1>1, NextDscs DEF peer_disc_chrs
<1>2. CASE undiscovered_svcs # {}
    <2> DEFINE svc == svcs[Min(undiscovered_svcs)]
               p == Proc("chr", svc.start, svc.end, 0)
    <2>1. undiscovered_svcs \subseteq 1..Len(svcs) /\ Len(svcs) \in Nat
        BY SvcKeysType DEF undiscovered_svcs
    <2>2. Min(undiscovered_svcs) \in 1..Len(svcs)
        <3>1. undiscovered_svcs \subseteq Nat
            BY <2>1
        <3> QED BY <1>2, <2>1, <3>1, MinIsIn
    <2>3. svc \in Svc
        BY <2>2, SvcKeysType
    <2>4. p \in Step /\ p.step # "none"
        <3> HIDE DEF svc
        <3> QED BY <2>3, ChrProc
    <2>5. /\ cur' = [start |-> svc.start, freed |-> FALSE]
          /\ (Fail(c) /\ prev' = 0) \/ (Start(c, p) /\ prev' = prev)
        BY <1>2 DEF peer_disc_chrs
    <2>6. cur' \in [start : Nat, freed : BOOLEAN] /\ prev' \in Nat
        BY <2>3, <2>5 DEF Svc
    <2>7. MovesOn(c)
        BY <2>4, <2>5 DEF MovesOn, Start
    <2> QED BY <2>6, <2>7, MovesOnKeepsDriven
<1> QED BY <1>1, <1>2

(* An answer that is taken leaves the procedure waiting for the next one.  *)
LEMMA TakenMovesOn ==
    ASSUME NEW c \in Chains, DrivenInv, chain[c].step # "none", NEW next \in Nat,
           Taken(c, next)
    PROVE  MovesOn(c) /\ prev' = prev
<1> DEFINE p == [chain[c] EXCEPT !.at = next]
<1>1. chain[c] \in Step
    BY DEF DrivenInv, Types
<1>2. p \in Step /\ p.step # "none"
    BY <1>1 DEF Step
<1>3. chain' = [chain EXCEPT ![c] = p] /\ UNCHANGED <<outcome, link, prev>>
    BY DEF Taken
<1>4. prev > 0
    <2>1. chain[c] # Idle
        BY DEF Idle
    <2> QED BY <2>1 DEF DrivenInv, RunningIsDriven
<1> QED BY <1>2, <1>3, <1>4 DEF MovesOn

(* A service's answer: it is skipped, listed, or there is no block for it. *)
LEMMA SvcDisced ==
    ASSUME NEW c \in Chains, DrivenInv, peer_svc_disced(c)
    PROVE  DrivenInv'
<1> USE DEF DrivenInv, Types
<1> DEFINE s == Min(Reported(c))
           e == SvcEnd(table, s)
           svc == [start |-> s, end |-> e, chrs |-> <<>>]
<1>1. chain[c].step = "svc" /\ Reported(c) # {} /\ UNCHANGED <<table, cur>>
    BY DEF peer_svc_disced
<1>2. chain[c] # Idle
    BY <1>1 DEF Idle
<1>3. s \in Nat /\ s \in Services(table)
    BY <1>1, ReportedType DEF Reported
<1>4. e \in Nat
    <2>1. s \in DOMAIN table /\ Len(table) \in Nat
        BY <1>3, LenProperties DEF Services
    <2>2. e \in s..Len(table)
        BY <2>1, SvcEndType
    <2> QED BY <1>3, <2>1, <2>2
<1>5. svc \in Svc
    BY <1>3, <1>4 DEF Svc
<1> HIDE DEF s, e, svc
<1>6. CASE OutOfMemory(c)
    BY <1>1, <1>2, <1>6, MovesOnKeepsDriven DEF OutOfMemory, MovesOn
<1>7. CASE /\ Taken(c, e + 1)
           /\ svcs' = svcs \/ svcs' = Insert(svcs, find_prev(svc_keys, s), svc)
    <2>1. svcs' \in Seq(Svc)
        <3>1. find_prev(svc_keys, s) \in 0..Len(svcs)
            BY <1>3, FindPrev, SvcKeysType
        <3> QED BY <1>5, <1>7, <3>1, InsertType
    <2> QED BY <1>1, <1>2, <1>4, <1>7, <2>1, TakenMovesOn, MovesOnKeepsDriven
<1> QED BY <1>6, <1>7 DEF peer_svc_disced, s, e, svc

(* Replacing the characteristics of one service leaves a list of services. *)
LEMMA SetChrsType ==
    ASSUME svcs \in Seq(Svc), NEW i \in DOMAIN svcs, NEW list \in Seq(Chr),
           svcs' = [svcs EXCEPT ![i].chrs = list]
    PROVE  svcs' \in Seq(Svc)
<1> DEFINE svc == [svcs[i] EXCEPT !.chrs = list]
<1>1. i \in 1..Len(svcs) /\ svcs[i] \in Svc
    BY SvcKeysType
<1>2. svc \in Svc
    BY <1>1 DEF Svc
<1>3. svcs' = [svcs EXCEPT ![i] = svc]
    OBVIOUS
<1> QED BY <1>1, <1>2, <1>3, ExceptSeq

(* A characteristic's answer.                                              *)
LEMMA ChrDisced ==
    ASSUME NEW c \in Chains, DrivenInv, peer_chr_disced(c)
    PROVE  DrivenInv'
<1> USE DEF DrivenInv, Types
<1> DEFINE d == Min(Reported(c))
           chr == [def |-> d, val |-> d + 1, dscs |-> <<>>]
<1>1. chain[c].step = "chr" /\ Reported(c) # {} /\ UNCHANGED <<table, cur>>
    BY DEF peer_chr_disced
<1>2. chain[c] # Idle /\ chain[c].step # "none"
    BY <1>1 DEF Idle
<1>3. d \in Nat
    BY <1>1, ReportedType
<1>4. chr \in Chr
    BY <1>3 DEF Chr
<1> HIDE DEF d, chr
<1>5. PICK start \in CurStart :
        LET i == find_prev(svc_keys, start) + 1
            keys == chr_keys(i)
            known == Holds(keys, d)
        IN  \/ ~Holds(svc_keys, start) /\ AssertFails
            \/ /\ Holds(svc_keys, start) /\ (known \/ Available("chr"))
               /\ svcs' = IF known THEN svcs
                          ELSE [svcs EXCEPT ![i].chrs = Link(@, find_prev(keys, d), chr)]
               /\ used' = IF known THEN used ELSE [used EXCEPT !.chr = @ + 1]
               /\ Taken(c, d + 2)
            \/ /\ Holds(svc_keys, start) /\ ~known /\ ~Available("chr")
               /\ OutOfMemory(c)
    BY DEF peer_chr_disced, d, chr
<1> DEFINE i == find_prev(svc_keys, start) + 1
           keys == chr_keys(i)
<1>6. CASE AssertFails
    BY <1>1, <1>2, <1>6, MovesOnKeepsDriven DEF AssertFails, MovesOn
<1>7. CASE OutOfMemory(c)
    BY <1>1, <1>2, <1>7, MovesOnKeepsDriven DEF OutOfMemory, MovesOn
<1>8. CASE /\ Holds(svc_keys, start)
           /\ svcs' = svcs \/ svcs' = [svcs EXCEPT ![i].chrs = Link(@, find_prev(keys, d), chr)]
           /\ Taken(c, d + 2)
    <2>1. start \in Nat
        <3>1. \A k \in 1..Len(svcs) : svc_keys[k] \in Nat
            BY SvcKeysType, ElementOfSeq
        <3>2. DOMAIN svc_keys = 1..Len(svcs)
            BY SvcKeysType, LenProperties
        <3> QED BY <1>5, <3>1, <3>2 DEF CurStart, Range
    <2>2. i \in DOMAIN svcs
        <3>1. find_prev(svc_keys, start) \in 0..Len(svcs)
            BY <2>1, FindPrev, SvcKeysType
        <3>2. find_prev(svc_keys, start) < Len(svcs)
            BY <1>8, SvcKeysType DEF Holds
        <3> QED BY <3>1, <3>2, SvcKeysType
    <2> HIDE DEF i
    <2>3. svcs[i].chrs \in Seq(Chr) /\ find_prev(keys, d) \in 0..Len(svcs[i].chrs)
        <3>1. keys \in Seq(Nat) /\ Len(keys) = Len(svcs[i].chrs) /\ svcs[i].chrs \in Seq(Chr)
            BY <2>2, ChrKeysType
        <3> HIDE DEF keys
        <3>2. find_prev(keys, d) \in 0..Len(keys)
            BY <1>3, <3>1, FindPrev
        <3> QED BY <3>1, <3>2
    <2>4. Link(svcs[i].chrs, find_prev(keys, d), chr) \in Seq(Chr)
        BY <1>4, <2>3, InsertType
    <2>5. svcs' \in Seq(Svc)
        BY <1>8, <2>2, <2>4, SetChrsType
    <2>6. d + 2 \in Nat
        BY <1>3
    <2> QED BY <1>1, <1>2, <1>8, <2>5, <2>6, TakenMovesOn, MovesOnKeepsDriven
<1> QED BY <1>5, <1>6, <1>7, <1>8

(* A descriptor's answer.                                                  *)
LEMMA DscDisced ==
    ASSUME NEW c \in Chains, DrivenInv, peer_dsc_disced(c)
    PROVE  DrivenInv'
<1> USE DEF DrivenInv, Types
<1> DEFINE h == Min(Reported(c))
           val == chain[c].val
           i == Min(svc_range(val))
           j == find_prev(chr_keys(i), val) + 1
           dscs == svcs[i].chrs[j].dscs
           known == svc_range(val) # {} /\ Holds(chr_keys(i), val)
<1>1. chain[c].step = "dsc" /\ Reported(c) # {} /\ UNCHANGED <<table, cur>>
    BY DEF peer_dsc_disced
<1>2. chain[c] # Idle /\ chain[c].step # "none"
    BY <1>1 DEF Idle
<1>3. h \in Nat
    BY <1>1, ReportedType
<1>4. val \in Nat
    BY DEF Step
<1> HIDE DEF h, val
<1>5. CASE AssertFails
    BY <1>1, <1>2, <1>5, MovesOnKeepsDriven DEF AssertFails, MovesOn
<1>6. CASE OutOfMemory(c)
    BY <1>1, <1>2, <1>6, MovesOnKeepsDriven DEF OutOfMemory, MovesOn
<1>7. CASE /\ known /\ Taken(c, h + 1)
           /\ \/ svcs' = svcs
              \/ svcs' = [svcs EXCEPT ![i].chrs[j].dscs = Link(@, find_prev(dscs, h), h)]
    <2>1. i \in DOMAIN svcs
        <3>1. svc_range(val) \subseteq DOMAIN svcs /\ DOMAIN svcs \subseteq Nat
            BY SvcKeysType DEF svc_range
        <3> QED BY <1>7, <3>1, MinIsIn
    <2>2. j \in DOMAIN svcs[i].chrs
        <3> HIDE DEF i
        <3>1. chr_keys(i) \in Seq(Nat) /\ Len(chr_keys(i)) = Len(svcs[i].chrs)
            BY <2>1, ChrKeysType
        <3>2. find_prev(chr_keys(i), val) \in 0..Len(svcs[i].chrs)
            <4> DEFINE keys == chr_keys(i)
            <4>1. keys \in Seq(Nat) /\ Len(keys) = Len(svcs[i].chrs)
                BY <3>1
            <4> HIDE DEF keys
            <4>2. find_prev(keys, val) \in 0..Len(keys)
                BY <1>4, <4>1, FindPrev
            <4> QED BY <4>1, <4>2 DEF keys
        <3>3. find_prev(chr_keys(i), val) < Len(svcs[i].chrs)
            BY <1>7, <3>1 DEF Holds
        <3> QED BY <2>1, <3>2, <3>3, ChrKeysType
    <2> HIDE DEF i, j, known
    <2>3. svcs[i].chrs \in Seq(Chr) /\ j \in 1..Len(svcs[i].chrs) /\ svcs[i].chrs[j] \in Chr
        BY <2>1, <2>2, ChrKeysType
    <2>4. dscs \in Seq(Nat)
        BY <2>3 DEF Chr
    <2> HIDE DEF dscs
    <2>5. Link(dscs, find_prev(dscs, h), h) \in Seq(Nat)
        <3>1. find_prev(dscs, h) \in 0..Len(dscs)
            BY <1>3, <2>4, FindPrev
        <3> QED BY <1>3, <2>4, <3>1, InsertType
    <2>6. svcs' \in Seq(Svc)
        <3> DEFINE chr == [svcs[i].chrs[j] EXCEPT !.dscs = Link(dscs, find_prev(dscs, h), h)]
                   list == [svcs[i].chrs EXCEPT ![j] = chr]
        <3>1. chr \in Chr
            BY <2>3, <2>5 DEF Chr
        <3>2. list \in Seq(Chr)
            BY <2>3, <3>1, ExceptSeq
        <3>3. svcs' = svcs \/ svcs' = [svcs EXCEPT ![i].chrs = list]
            BY <1>7 DEF dscs
        <3> HIDE DEF list
        <3> QED BY <2>1, <3>2, <3>3, SetChrsType
    <2>7. h + 1 \in Nat
        BY <1>3
    <2> QED BY <1>1, <1>2, <1>7, <2>6, <2>7, TakenMovesOn, MovesOnKeepsDriven
<1> QED BY <1>5, <1>6, <1>7 DEF peer_dsc_disced, h, val

(* The end of a procedure starts the next one.  The cursor is not 0, so    *)
(* the discovery is not dropped.                                           *)
LEMMA Done ==
    ASSUME NEW c \in Chains, NEW starts \in BOOLEAN, DrivenInv,
           peer_svc_done(c, starts) \/ peer_chr_done(c, starts) \/ peer_dsc_done(c, starts)
    PROVE  DrivenInv'
<1>1. chain[c] # Idle
    BY DEF peer_svc_done, peer_chr_done, peer_dsc_done, Idle
<1>2. prev > 0
    BY <1>1 DEF DrivenInv, RunningIsDriven
<1>3. UNCHANGED <<table, svcs>> /\ (peer_disc_chrs(c, starts) \/ peer_disc_dscs(c, starts))
    BY <1>2 DEF peer_svc_done, peer_chr_done, peer_dsc_done
<1> QED BY <1>1, <1>2, <1>3, NextChrs, NextDscs

LEMMA Error ==
    ASSUME NEW c \in Chains, DrivenInv, ProcError(c)
    PROVE  DrivenInv'
BY MovesOnKeepsDriven DEF ProcError, MovesOn, DrivenInv, Types

(* A link comes up with an empty peer and goes down with all discoveries.  *)
LEMMA LinkSteps ==
    ASSUME DrivenInv, Connect \/ Disconnect
    PROVE  DrivenInv'
<1> USE DEF DrivenInv, Types
<1>1. Idle \in Step
    BY DEF Idle, Step
<1>2. /\ svcs' = <<>> /\ prev' = 0 /\ cur' = [start |-> 0, freed |-> FALSE]
      /\ chain' = [c \in Chains |-> Idle]
      /\ link' # "aborted"
    BY DEF Connect, Disconnect
<1>3. table' \in Seq(AttrTypes)
    <2>1. CASE Connect
        <3>1. PICK t \in Tables : table' = t
            BY <2>1 DEF Connect
        <3> QED BY <3>1, TablesAssumption
    <2>2. CASE Disconnect
        BY <2>2 DEF Disconnect
    <2> QED BY <2>1, <2>2
<1>4. /\ outcome' \in [Chains -> {"none", "unstarted", "running", "ok", "failed"}]
      /\ \A c \in Chains : outcome'[c] # "running"
    <2>1. CASE Connect
        BY <2>1 DEF Connect
    <2>2. CASE Disconnect
        <3>1. \A c \in Chains : outcome[c] = "running" => chain[c] # Idle
            BY <2>2 DEF Disconnect, RunningIsDriven
        <3> QED BY <2>2, <3>1 DEF Disconnect
    <2> QED BY <2>1, <2>2
<1> QED BY <1>1, <1>2, <1>3, <1>4 DEF RunningIsDriven

(* Without overlap a discovery begins when none is running.                *)
LEMMA DiscAll ==
    ASSUME Overlap = FALSE, DrivenInv, peer_disc_all
    PROVE  DrivenInv'
<1> USE DEF DrivenInv, Types
<1>1. \A c \in Chains : outcome[c] # "running" /\ chain[c] = Idle
    BY DEF peer_disc_all, Running
<1>2. svcs' = <<>> /\ prev' = 1 /\ cur' \in [start : Nat, freed : BOOLEAN] /\ UNCHANGED <<table, link>>
    BY DEF peer_disc_all, Undiscover
<1>3. link # "aborted"
    BY DEF peer_disc_all
<1>4. PICK c \in Chains :
        \/ /\ chain' = [chain EXCEPT ![c] = Proc("svc", 1, Len(table), 0)]
           /\ outcome' = [outcome EXCEPT ![c] = "running"]
        \/ outcome' = [outcome EXCEPT ![c] = "unstarted"] /\ UNCHANGED chain
    BY DEF peer_disc_all
<1>5. Proc("svc", 1, Len(table), 0) \in Step /\ Proc("svc", 1, Len(table), 0) # Idle
    <2>1. Len(table) \in Int
        BY LenProperties
    <2> QED BY <2>1 DEF Proc, Step, Idle
<1>6. \A d \in Chains : d # c => outcome'[d] # "running" /\ chain'[d] = Idle
    BY <1>1, <1>4
<1>7. outcome'[c] = "running" => chain'[c] # Idle
    BY <1>1, <1>4, <1>5
<1>8. chain' \in [Chains -> Step] /\ (chain'[c] # Idle => outcome'[c] = "running")
    BY <1>1, <1>4, <1>5
<1>9. outcome' \in [Chains -> {"none", "unstarted", "running", "ok", "failed"}]
    BY <1>4
<1> QED BY <1>2, <1>3, <1>6, <1>7, <1>8, <1>9 DEF RunningIsDriven

LEMMA DrivenInit == Init => DrivenInv
BY DEF Init, DrivenInv, Types, Idle, Step, RunningIsDriven

LEMMA DrivenStep ==
    ASSUME Overlap = FALSE, DrivenInv, [Next]_vars
    PROVE  DrivenInv'
<1>1. CASE Connect \/ Disconnect
    BY <1>1, LinkSteps
<1>2. CASE peer_disc_all
    BY <1>2, DiscAll
<1>3. ASSUME NEW c \in Chains, ProcError(c) PROVE DrivenInv'
    BY <1>3, Error
<1>4. ASSUME NEW c \in Chains, NEW starts \in BOOLEAN, Answer(c, starts) PROVE DrivenInv'
    BY <1>4, SvcDisced, ChrDisced, DscDisced, Done DEF Answer
<1>5. CASE UNCHANGED vars
    BY <1>5 DEF vars, DrivenInv, Types, RunningIsDriven
<1> QED BY <1>1, <1>2, <1>3, <1>4, <1>5 DEF Next

(* As long as discoveries do not overlap, a discovery that has not been    *)
(* reported has a procedure waiting for answers and a cursor that does not *)
(* drop it, whatever the camera's table, the pools and the refusals.       *)
THEOREM DiscoveryIsDriven ==
    ASSUME Overlap = FALSE
    PROVE  Spec => []RunningIsDriven
<1>1. Overlap = FALSE
    OBVIOUS
<1>2. DrivenInv /\ [Next]_vars => DrivenInv'
    BY <1>1, DrivenStep
<1>3. DrivenInv => RunningIsDriven
    BY DEF DrivenInv
<1> QED BY DrivenInit, <1>2, <1>3, PTL DEF Spec
-----------------------------------------------------------------------------
(* Rising lists.                                                           *)

Rising(s) == \A j, k \in DOMAIN s : j < k => s[j] < s[k]

(* Searching a rising list of keys for one of them finds it.               *)
LEMMA FindsKey ==
    ASSUME NEW keys \in Seq(Nat), Rising(keys), NEW i \in 1..Len(keys)
    PROVE  find_prev(keys, keys[i]) + 1 = i /\ Holds(keys, keys[i])
<1> DEFINE h == keys[i]
           p == find_prev(keys, h)
<1>1. Len(keys) \in Nat /\ DOMAIN keys = 1..Len(keys) /\ \A j \in 1..Len(keys) : keys[j] \in Nat
    BY LenProperties, ElementOfSeq
<1>2. p \in 0..Len(keys) /\ (\A j \in 1..p : keys[j] < h) /\ (p < Len(keys) => keys[p + 1] >= h)
    BY <1>1, FindPrev
<1> HIDE DEF p
<1>3. p < i
    <2> SUFFICES ASSUME p >= i PROVE FALSE
        BY <1>1, <1>2
    <2>1. keys[i] < h
        BY <1>1, <1>2
    <2> QED BY <1>1, <2>1
<1>4. p + 1 \in 1..Len(keys) /\ keys[p + 1] >= h
    BY <1>1, <1>2, <1>3
<1>5. ~ (p + 1 < i)
    BY <1>1, <1>4 DEF Rising
<1>6. p + 1 = i
    BY <1>1, <1>2, <1>3, <1>5
<1> QED BY <1>1, <1>2, <1>6 DEF Holds, p

(* Searching for a handle behind all keys leads to the end of the list.    *)
LEMMA FindsEnd ==
    ASSUME NEW keys \in Seq(Nat), NEW h \in Nat, \A j \in 1..Len(keys) : keys[j] < h
    PROVE  find_prev(keys, h) = Len(keys) /\ ~Holds(keys, h)
<1> DEFINE p == find_prev(keys, h)
<1>1. Len(keys) \in Nat /\ \A j \in 1..Len(keys) : keys[j] \in Nat
    BY LenProperties, ElementOfSeq
<1>2. p \in 0..Len(keys) /\ (p < Len(keys) => keys[p + 1] >= h)
    BY FindPrev
<1> HIDE DEF p
<1>3. ~ (p < Len(keys))
    BY <1>1, <1>2
<1>4. p = Len(keys)
    BY <1>1, <1>2, <1>3
<1> QED BY <1>1, <1>4 DEF Holds, p

(* There both ways to insert append.                                       *)
LEMMA InsertAtEnd ==
    ASSUME NEW S, NEW list \in Seq(S), NEW e \in S
    PROVE  Insert(list, Len(list), e) = Append(list, e) /\ Link(list, Len(list), e) = Append(list, e)
<1>1. Len(list) \in Nat /\ \A i \in 1..Len(list) : list[i] \in S
    BY LenProperties, ElementOfSeq
<1>2. SubSeq(list, 1, Len(list)) = list
    BY <1>1
<1>3. SubSeq(list, Len(list) + 1, Len(list)) = <<>>
    BY <1>1
<1>4. Append(list, e) = list \o <<e>>
    BY AppendIsConcat
<1>5. Insert(list, Len(list), e) = Append(list, e)
    <2>1. (Len(list) + 1) - 1 = Len(list)
        BY <1>1
    <2>2. Insert(list, Len(list), e) = SubSeq(list, 1, Len(list)) \o <<e>> \o SubSeq(list, Len(list) + 1, Len(list))
        BY <2>1, Zenon DEF Insert, InsertAt
    <2>3. Append(list, e) \in Seq(S)
        BY AppendProperties
    <2>4. Append(list, e) \o <<>> = Append(list, e)
        BY <2>3
    <2> QED BY <1>2, <1>3, <1>4, <2>2, <2>4
<1>6. Link(list, Len(list), e) = Append(list, e)
    <2>1. CASE Len(list) = 0
        <3>1. list = <<>>
            BY <2>1, EmptySeq
        <3> QED BY <3>1 DEF Link
    <2>2. CASE Len(list) # 0
        BY <1>2, <2>2 DEF Link
    <2> QED BY <2>1, <2>2
<1> QED BY <1>5, <1>6

(* A rising list goes on rising with an element behind all others.         *)
LEMMA RisingAppend ==
    ASSUME NEW list \in Seq(Nat), Rising(list), NEW e \in Nat, \A j \in 1..Len(list) : list[j] < e
    PROVE  Rising(Append(list, e))
<1>1. /\ Append(list, e) \in Seq(Nat) /\ Len(Append(list, e)) = Len(list) + 1
      /\ \A j \in 1..Len(list) : Append(list, e)[j] = list[j]
      /\ Append(list, e)[Len(list) + 1] = e
    BY AppendProperties
<1>2. Len(list) \in Nat /\ DOMAIN list = 1..Len(list) /\ DOMAIN Append(list, e) = 1..Len(list) + 1
    BY <1>1, LenProperties
<1> SUFFICES ASSUME NEW j \in 1..Len(list) + 1, NEW k \in 1..Len(list) + 1, j < k
             PROVE  Append(list, e)[j] < Append(list, e)[k]
    BY <1>2 DEF Rising
<1>3. j \in 1..Len(list)
    BY <1>2
<1>4. CASE k = Len(list) + 1
    BY <1>1, <1>3, <1>4
<1>5. CASE k \in 1..Len(list)
    BY <1>1, <1>2, <1>3, <1>5 DEF Rising
<1> QED BY <1>2, <1>4, <1>5
-----------------------------------------------------------------------------
(* Attribute tables.                                                       *)

(* A service ends before the next one, and no earlier.                     *)
LEMMA SvcEndIs ==
    ASSUME NEW t \in Seq(AttrTypes), NEW s \in DOMAIN t
    PROVE  /\ SvcEnd(t, s) \in s..Len(t)
           /\ \A h \in (s + 1)..SvcEnd(t, s) : h \notin Services(t)
           /\ \A e \in s..Len(t) : (\A h \in (s + 1)..e : h \notin Services(t)) => e <= SvcEnd(t, s)
<1> DEFINE E == {e \in s..Len(t) : \A h \in (s + 1)..e : h \notin Services(t)}
<1>1. s \in 1..Len(t) /\ Len(t) \in Nat
    BY LenProperties
<1>2. E \subseteq 0..Len(t) /\ s \in E
    BY <1>1
<1>3. Max(E) \in E /\ \A e \in E : Max(E) >= e
    <2> HIDE DEF E
    <2> QED BY <1>1, <1>2, MaxIsIn
<1>4. SvcEnd(t, s) = Max(E)
    BY DEF SvcEnd
<1>5. SvcEnd(t, s) \in E /\ SvcEnd(t, s) \in s..Len(t) /\ s..Len(t) \subseteq Nat
    BY <1>1, <1>3, <1>4
<1>6. \A e \in E : e <= SvcEnd(t, s)
    <2> HIDE DEF E
    <2> QED BY <1>2, <1>3, <1>4
<1> QED BY <1>5, <1>6

(* A characteristic lies behind its service's declaration, and its value   *)
(* still in the service.                                                   *)
LEMMA ValueInService ==
    ASSUME NEW t \in Seq(AttrTypes), WellFormed(t), NEW s \in Services(t), NEW d \in Chrs(t, s)
    PROVE  d \in Nat /\ s < d /\ d + 1 <= SvcEnd(t, s)
<1>1. s \in DOMAIN t /\ t[s] \in SvcTypes /\ DOMAIN t = 1..Len(t) /\ Len(t) \in Nat
    BY LenProperties DEF Services
<1>2. SvcEnd(t, s) \in s..Len(t)
    BY <1>1, SvcEndIs
<1>3. d \in s..SvcEnd(t, s) /\ t[d] \in ChrTypes
    BY DEF Chrs
<1>4. d \in Nat /\ d \in 1..Len(t)
    BY <1>1, <1>2, <1>3
<1>5. d # s
    BY <1>1, <1>3 DEF SvcTypes, ChrTypes
<1>6. d < Len(t)
    BY <1>1, <1>3, <1>4 DEF WellFormed
<1>7. d + 1 \in 2..Len(t) /\ (d + 1) - 1 = d
    BY <1>1, <1>4, <1>6
<1>8. t[d + 1] = "val"
    BY <1>3, <1>7 DEF WellFormed
<1>9. \A h \in (s + 1)..(d + 1) : h \notin Services(t)
    <2>1. d + 1 \notin Services(t)
        BY <1>8 DEF Services, SvcTypes
    <2>2. \A h \in (s + 1)..d : h \notin Services(t)
        BY <1>1, <1>2, <1>3, SvcEndIs
    <2> QED BY <1>1, <1>4, <2>1, <2>2
<1>10. d + 1 <= SvcEnd(t, s)
    BY <1>1, <1>3, <1>7, <1>9, SvcEndIs
<1> QED BY <1>1, <1>3, <1>4, <1>5, <1>10
-----------------------------------------------------------------------------
(* What the three kinds of answers do to the lists.                        *)

LEMMA AddSvcEffect ==
    ASSUME svcs \in Seq(Svc), NEW svc \in Svc, svcs' = Append(svcs, svc)
    PROVE  /\ svcs' \in Seq(Svc)
           /\ DOMAIN svcs' = 1..Len(svcs) + 1 /\ DOMAIN svcs = 1..Len(svcs) /\ Len(svcs) \in Nat
           /\ \A i \in 1..Len(svcs) : svcs'[i] = svcs[i]
           /\ svcs'[Len(svcs) + 1] = svc
<1>1. /\ svcs' \in Seq(Svc) /\ Len(svcs') = Len(svcs) + 1
      /\ \A i \in 1..Len(svcs) : svcs'[i] = svcs[i]
      /\ svcs'[Len(svcs) + 1] = svc
    BY AppendProperties
<1> QED BY <1>1, LenProperties

LEMMA SetChrsEffect ==
    ASSUME svcs \in Seq(Svc), NEW i \in DOMAIN svcs, NEW list \in Seq(Chr),
           svcs' = [svcs EXCEPT ![i].chrs = list]
    PROVE  /\ svcs' \in Seq(Svc) /\ DOMAIN svcs' = DOMAIN svcs
           /\ \A k \in DOMAIN svcs : /\ svcs'[k].start = svcs[k].start
                                     /\ svcs'[k].end = svcs[k].end
                                     /\ k # i => svcs'[k].chrs = svcs[k].chrs
           /\ svcs'[i].chrs = list
<1>1. svcs' \in Seq(Svc)
    BY SetChrsType
<1>2. \A k \in DOMAIN svcs : svcs[k] \in Svc
    BY SvcKeysType
<1> QED BY <1>1, <1>2 DEF Svc

(* Of the lists only the descriptors of one characteristic change.         *)
OnlyDscs(i, j, list) ==
    /\ svcs' \in Seq(Svc) /\ DOMAIN svcs' = DOMAIN svcs
    /\ \A k \in DOMAIN svcs :
         /\ svcs'[k].start = svcs[k].start /\ svcs'[k].end = svcs[k].end
         /\ DOMAIN svcs'[k].chrs = DOMAIN svcs[k].chrs
         /\ \A l \in DOMAIN svcs[k].chrs :
              /\ svcs'[k].chrs[l].def = svcs[k].chrs[l].def
              /\ svcs'[k].chrs[l].val = svcs[k].chrs[l].val
              /\ <<k, l>> # <<i, j>> => svcs'[k].chrs[l].dscs = svcs[k].chrs[l].dscs
    /\ svcs'[i].chrs[j].dscs = list

LEMMA SetDscsEffect ==
    ASSUME svcs \in Seq(Svc), NEW i \in DOMAIN svcs, NEW j \in DOMAIN svcs[i].chrs, NEW list \in Seq(Nat),
           svcs' = [svcs EXCEPT ![i].chrs[j].dscs = list]
    PROVE  OnlyDscs(i, j, list)
<1> DEFINE chr == [svcs[i].chrs[j] EXCEPT !.dscs = list]
           chrs == [svcs[i].chrs EXCEPT ![j] = chr]
<1>1. svcs[i].chrs \in Seq(Chr) /\ j \in 1..Len(svcs[i].chrs) /\ svcs[i].chrs[j] \in Chr
    BY ChrKeysType
<1>2. /\ chr \in Chr /\ chr.dscs = list
      /\ chr.def = svcs[i].chrs[j].def /\ chr.val = svcs[i].chrs[j].val
    BY <1>1 DEF Chr
<1> HIDE DEF chr
<1>3. /\ chrs \in Seq(Chr) /\ DOMAIN chrs = DOMAIN svcs[i].chrs /\ chrs[j] = chr
      /\ \A l \in DOMAIN chrs : l # j => chrs[l] = svcs[i].chrs[l]
    BY <1>1, <1>2, ExceptSeq
<1>4. svcs' = [svcs EXCEPT ![i].chrs = chrs]
    BY DEF chr
<1> HIDE DEF chrs
<1>5. /\ svcs' \in Seq(Svc) /\ DOMAIN svcs' = DOMAIN svcs
      /\ \A k \in DOMAIN svcs : /\ svcs'[k].start = svcs[k].start
                                /\ svcs'[k].end = svcs[k].end
                                /\ k # i => svcs'[k].chrs = svcs[k].chrs
      /\ svcs'[i].chrs = chrs
    BY <1>3, <1>4, SetChrsEffect
<1>6. ASSUME NEW k \in DOMAIN svcs, NEW l \in DOMAIN svcs[k].chrs
      PROVE  /\ svcs'[k].chrs[l].def = svcs[k].chrs[l].def
             /\ svcs'[k].chrs[l].val = svcs[k].chrs[l].val
             /\ <<k, l>> # <<i, j>> => svcs'[k].chrs[l].dscs = svcs[k].chrs[l].dscs
    <2>1. CASE k = i /\ l = j
        BY <1>2, <1>3, <1>5, <2>1
    <2>2. CASE k = i /\ l # j
        BY <1>3, <1>5, <1>6, <2>2
    <2>3. CASE k # i
        BY <1>5, <2>3
    <2> QED BY <2>1, <2>2, <2>3
<1>7. \A k \in DOMAIN svcs : DOMAIN svcs'[k].chrs = DOMAIN svcs[k].chrs
    BY <1>3, <1>5
<1> QED BY <1>2, <1>3, <1>5, <1>6, <1>7 DEF OnlyDscs
-----------------------------------------------------------------------------
(* The invariant.                                                          *)

(* Services are listed in the order of their handles, with their ends.     *)
SvcsInOrder ==
    /\ \A i \in DOMAIN svcs : /\ svcs[i].start \in Services(table)
                              /\ svcs[i].end = SvcEnd(table, svcs[i].start)
    /\ \A i, k \in DOMAIN svcs : i < k => svcs[i].end < svcs[k].start

(* So are the characteristics of a service, and the descriptors of a       *)
(* characteristic.                                                         *)
ChrsInOrder(i) ==
    /\ \A j \in DOMAIN svcs[i].chrs : /\ svcs[i].chrs[j].def \in Chrs(table, svcs[i].start)
                                      /\ svcs[i].chrs[j].val = svcs[i].chrs[j].def + 1
                                      /\ Rising(svcs[i].chrs[j].dscs)
    /\ Rising(chr_keys(i))

(* Services are sought behind those on the list; characteristics behind    *)
(* those of the service cur points to; descriptors behind those of the     *)
(* characteristic whose value handle the procedure carries.                *)
SvcPlace(c) == \A i \in DOMAIN svcs : svcs[i].end < chain[c].at

ChrPlace(c) ==
    /\ ~cur.freed
    /\ \E i \in DOMAIN svcs :
         /\ svcs[i].start = cur.start /\ svcs[i].end = chain[c].end /\ cur.start <= chain[c].at
         /\ \A j \in DOMAIN svcs[i].chrs : svcs[i].chrs[j].val < chain[c].at

DscPlace(c) ==
    \E i \in DOMAIN svcs : \E j \in DOMAIN svcs[i].chrs :
        /\ svcs[i].chrs[j].val = chain[c].val
        /\ \A k \in DOMAIN svcs[i].chrs[j].dscs : svcs[i].chrs[j].dscs[k] < chain[c].at

InPlace(c) ==
    /\ chain[c].step = "svc" => SvcPlace(c)
    /\ chain[c].step = "chr" => ChrPlace(c)
    /\ chain[c].step = "dsc" => DscPlace(c)

ListsInOrder ==
    /\ SvcsInOrder
    /\ \A i \in DOMAIN svcs : ChrsInOrder(i)

ListsInv ==
    /\ DrivenInv
    /\ table \in Tables \cup {<<>>}
    /\ ListsInOrder
    /\ \A c \in Chains : InPlace(c)
    /\ NoAssertFailure

(* What ListsInv says of the table once a service is listed.               *)
LEMMA TableIs ==
    ASSUME Types, table \in Tables \cup {<<>>}, NEW s \in Services(table)
    PROVE  /\ table \in Seq(AttrTypes) /\ WellFormed(table)
           /\ s \in DOMAIN table /\ DOMAIN table = 1..Len(table) /\ Len(table) \in Nat /\ s \in Nat
           /\ SvcEnd(table, s) \in s..Len(table) /\ SvcEnd(table, s) \in Nat
<1>1. table \in Seq(AttrTypes) /\ s \in DOMAIN table
    BY DEF Types, Services
<1>2. DOMAIN table = 1..Len(table) /\ Len(table) \in Nat
    BY <1>1, LenProperties
<1>3. table # <<>>
    BY <1>1, <1>2
<1>4. WellFormed(table)
    BY <1>3, TablesAssumption
<1>5. SvcEnd(table, s) \in s..Len(table)
    BY <1>1, SvcEndIs
<1> QED BY <1>1, <1>2, <1>4, <1>5

(* The keys of the services rise, and the range of a service holds the     *)
(* values of its own characteristics only.                                 *)
LEMMA KeysRise ==
    ASSUME Types, table \in Tables \cup {<<>>}, ListsInOrder
    PROVE  /\ Rising(svc_keys)
           /\ \A i \in DOMAIN svcs : \A j \in DOMAIN svcs[i].chrs :
                /\ svcs[i].start < svcs[i].chrs[j].def
                /\ svcs[i].chrs[j].val <= svcs[i].end
                /\ svc_range(svcs[i].chrs[j].val) = {i}
<1> USE DEF ListsInOrder
<1>1. /\ svcs \in Seq(Svc) /\ DOMAIN svcs = 1..Len(svcs) /\ Len(svcs) \in Nat
      /\ DOMAIN svc_keys = DOMAIN svcs
      /\ \A i \in DOMAIN svcs : svcs[i] \in Svc /\ svc_keys[i] = svcs[i].start
    BY SvcKeysType DEF Types, svc_keys
<1>2. \A i \in DOMAIN svcs : /\ svcs[i].start \in Nat /\ svcs[i].end \in Nat
                             /\ svcs[i].start <= svcs[i].end
    <2> SUFFICES ASSUME NEW i \in DOMAIN svcs
                 PROVE  svcs[i].start \in Nat /\ svcs[i].end \in Nat /\ svcs[i].start <= svcs[i].end
        OBVIOUS
    <2>1. svcs[i].start \in Services(table) /\ svcs[i].end = SvcEnd(table, svcs[i].start)
        BY DEF SvcsInOrder
    <2>2. svcs[i].start \in Nat /\ svcs[i].end \in svcs[i].start..Len(table) /\ Len(table) \in Nat
        BY <2>1, TableIs
    <2> QED BY <2>2
<1>3. Rising(svc_keys)
    <2> SUFFICES ASSUME NEW i \in DOMAIN svcs, NEW k \in DOMAIN svcs, i < k
                 PROVE  svcs[i].start < svcs[k].start
        BY <1>1 DEF Rising
    <2> QED BY <1>2 DEF SvcsInOrder
<1>4. ASSUME NEW i \in DOMAIN svcs, NEW j \in DOMAIN svcs[i].chrs
      PROVE  /\ svcs[i].start < svcs[i].chrs[j].def
             /\ svcs[i].chrs[j].val <= svcs[i].end
             /\ svc_range(svcs[i].chrs[j].val) = {i}
    <2> DEFINE def == svcs[i].chrs[j].def
               val == svcs[i].chrs[j].val
    <2>1. svcs[i].start \in Services(table) /\ svcs[i].end = SvcEnd(table, svcs[i].start)
        BY DEF SvcsInOrder
    <2>2. def \in Chrs(table, svcs[i].start) /\ val = def + 1
        BY DEF ChrsInOrder
    <2>3. table \in Seq(AttrTypes) /\ WellFormed(table)
        BY <2>1, TableIs
    <2> HIDE DEF def, val
    <2>4. def \in Nat /\ svcs[i].start < def /\ val <= svcs[i].end
        BY <2>1, <2>2, <2>3, ValueInService
    <2>5. i \in svc_range(val)
        BY <1>2, <2>2, <2>4 DEF svc_range
    <2>6. ASSUME NEW k \in svc_range(val) PROVE k = i
        <3>1. k \in DOMAIN svcs /\ svcs[k].start <= val /\ val <= svcs[k].end
            BY DEF svc_range
        <3>2. ~ (k < i) /\ ~ (i < k)
            BY <1>2, <2>2, <2>4, <3>1 DEF SvcsInOrder
        <3> QED BY <1>1, <3>1, <3>2
    <2>7. svc_range(val) = {i}
        BY <2>5, <2>6
    <2> QED BY <2>4, <2>7 DEF def, val
<1> QED BY <1>3, <1>4
-----------------------------------------------------------------------------
(* What an answer does under the invariant: the searches never fail, and   *)
(* what is listed is new and goes to the end of its list.                  *)

LEMMA SvcAnswer ==
    ASSUME NEW c \in Chains, ListsInv, peer_svc_disced(c)
    PROVE  LET s == Min(Reported(c))
               svc == [start |-> s, end |-> SvcEnd(table, s), chrs |-> <<>>]
           IN  /\ s \in Nat /\ svc \in Svc
               /\ s \in Services(table) /\ s >= chain[c].at
               /\ \/ OutOfMemory(c)
                  \/ /\ svcs' = Append(svcs, svc) /\ used' = [used EXCEPT !.svc = @ + 1]
                     /\ Taken(c, svc.end + 1)
<1> USE DEF ListsInv, DrivenInv
<1> DEFINE s == Min(Reported(c))
           e == SvcEnd(table, s)
           svc == [start |-> s, end |-> e, chrs |-> <<>>]
<1>1. chain[c].step = "svc" /\ Reported(c) # {} /\ Types
    BY DEF peer_svc_disced
<1>2. s \in Nat /\ s \in Services(table) /\ s >= chain[c].at
    <2>1. s \in Reported(c) /\ s \in Nat
        BY <1>1, ReportedType
    <2>2. chain[c].at \in Nat /\ chain[c].end \in Int
        BY <1>1 DEF Types, Step
    <2> HIDE DEF s
    <2> QED BY <1>1, <2>1, <2>2 DEF Reported
<1>3. e \in Nat
    BY <1>1, <1>2, TableIs
<1>4. svc \in Svc
    BY <1>2, <1>3 DEF Svc
<1>5. \A j \in 1..Len(svc_keys) : svc_keys[j] < s
    <2> SUFFICES ASSUME NEW j \in 1..Len(svc_keys) PROVE svc_keys[j] < s
        OBVIOUS
    <2> HIDE DEF s
    <2>1. j \in DOMAIN svcs /\ svc_keys[j] = svcs[j].start
        BY <1>1, SvcKeysType DEF Types
    <2>2. svcs[j].start \in Services(table) /\ svcs[j].end = SvcEnd(table, svcs[j].start)
        BY <2>1 DEF ListsInOrder, SvcsInOrder
    <2>3. svcs[j].start \in Nat /\ svcs[j].end \in svcs[j].start..Len(table) /\ Len(table) \in Nat
        BY <1>1, <2>2, TableIs
    <2>4. svcs[j].end < chain[c].at /\ chain[c].at \in Nat
        BY <1>1, <2>1 DEF InPlace, SvcPlace, Types, Step
    <2> QED BY <1>2, <2>1, <2>3, <2>4
<1>6. svc_keys \in Seq(Nat) /\ Len(svc_keys) = Len(svcs) /\ svcs \in Seq(Svc)
    BY <1>1, SvcKeysType DEF Types
<1>7. find_prev(svc_keys, s) = Len(svcs) /\ ~Holds(svc_keys, s)
    <2> HIDE DEF s
    <2> QED BY <1>2, <1>5, <1>6, FindsEnd
<1>8. Insert(svcs, find_prev(svc_keys, s), svc) = Append(svcs, svc)
    <2> HIDE DEF s, svc
    <2> QED BY <1>4, <1>6, <1>7, InsertAtEnd
<1>9. \/ OutOfMemory(c)
      \/ /\ svcs' = Append(svcs, svc) /\ used' = [used EXCEPT !.svc = @ + 1]
         /\ Taken(c, e + 1)
    <2> HIDE DEF s, e, svc
    <2>1. \/ OutOfMemory(c)
          \/ /\ svcs' = Insert(svcs, find_prev(svc_keys, s), svc)
             /\ used' = [used EXCEPT !.svc = @ + 1] /\ Taken(c, e + 1)
        BY <1>7 DEF peer_svc_disced, s, e, svc
    <2> QED BY <1>8, <2>1
<1> QED BY <1>2, <1>4, <1>9

LEMMA ChrAnswer ==
    ASSUME NEW c \in Chains, ListsInv, peer_chr_disced(c)
    PROVE  LET d == Min(Reported(c))
               chr == [def |-> d, val |-> d + 1, dscs |-> <<>>]
           IN  /\ d \in Nat /\ chr \in Chr
               /\ \/ OutOfMemory(c)
                  \/ /\ \E i \in DOMAIN svcs :
                          /\ svcs[i].start = cur.start /\ d \in Chrs(table, svcs[i].start)
                          /\ svcs[i].end = chain[c].end
                          /\ \A j \in DOMAIN svcs[i].chrs : svcs[i].chrs[j].val < d
                          /\ svcs' = [svcs EXCEPT ![i].chrs = Append(@, chr)]
                     /\ used' = [used EXCEPT !.chr = @ + 1] /\ Taken(c, d + 2)
<1> USE DEF ListsInv, DrivenInv
<1> DEFINE d == Min(Reported(c))
           chr == [def |-> d, val |-> d + 1, dscs |-> <<>>]
<1>1. chain[c].step = "chr" /\ Reported(c) # {} /\ Types /\ svcs \in Seq(Svc)
    BY DEF peer_chr_disced, Types
<1>2. d \in Nat /\ d \in chain[c].at..chain[c].end /\ table[d] \in ChrTypes
    <2>1. d \in Reported(c) /\ d \in Nat
        BY <1>1, ReportedType
    <2> HIDE DEF d
    <2> QED BY <1>1, <2>1 DEF Reported
<1>3. chr \in Chr
    BY <1>2 DEF Chr
<1>4. chain[c].at \in Nat /\ chain[c].end \in Int
    BY <1>1 DEF Types, Step
<1>5. PICK i \in DOMAIN svcs :
        /\ svcs[i].start = cur.start /\ svcs[i].end = chain[c].end /\ cur.start <= chain[c].at
        /\ \A j \in DOMAIN svcs[i].chrs : svcs[i].chrs[j].val < chain[c].at
    BY <1>1 DEF InPlace, ChrPlace
<1>6. d \in Chrs(table, svcs[i].start)
    <2>1. svcs[i].start \in Services(table) /\ svcs[i].end = SvcEnd(table, svcs[i].start)
        BY DEF ListsInOrder, SvcsInOrder
    <2>2. svcs[i].start \in Nat /\ SvcEnd(table, svcs[i].start) \in Nat
        BY <1>1, <2>1, TableIs
    <2> HIDE DEF d
    <2>3. d \in svcs[i].start..SvcEnd(table, svcs[i].start)
        BY <1>2, <1>4, <1>5, <2>1, <2>2
    <2> QED BY <1>2, <2>3 DEF Chrs
<1>7. \A j \in DOMAIN svcs[i].chrs : svcs[i].chrs[j].val < d /\ svcs[i].chrs[j].val \in Nat
    <2> SUFFICES ASSUME NEW j \in DOMAIN svcs[i].chrs
                 PROVE  svcs[i].chrs[j].val < d /\ svcs[i].chrs[j].val \in Nat
        OBVIOUS
    <2> HIDE DEF d
    <2>1. svcs[i].chrs[j].val \in Nat
        BY <1>1, ChrKeysType DEF Chr
    <2> QED BY <1>2, <1>4, <1>5, <2>1
<1>8. /\ chr_keys(i) \in Seq(Nat) /\ Len(chr_keys(i)) = Len(svcs[i].chrs)
      /\ svcs[i].chrs \in Seq(Chr) /\ DOMAIN svcs[i].chrs = 1..Len(svcs[i].chrs)
      /\ \A j \in 1..Len(svcs[i].chrs) : chr_keys(i)[j] = svcs[i].chrs[j].val
    BY <1>1, ChrKeysType
<1>9. find_prev(chr_keys(i), d) = Len(svcs[i].chrs) /\ ~Holds(chr_keys(i), d)
    <2> HIDE DEF d
    <2> DEFINE keys == chr_keys(i)
    <2>1. \A j \in 1..Len(keys) : keys[j] < d
        BY <1>7, <1>8
    <2>2. keys \in Seq(Nat) /\ Len(keys) = Len(svcs[i].chrs)
        BY <1>8
    <2> HIDE DEF keys
    <2>3. find_prev(keys, d) = Len(keys) /\ ~Holds(keys, d)
        BY <1>2, <2>1, <2>2, FindsEnd
    <2> QED BY <2>2, <2>3 DEF keys
<1>10. Link(svcs[i].chrs, find_prev(chr_keys(i), d), chr) = Append(svcs[i].chrs, chr)
    <2> HIDE DEF d, chr
    <2> QED BY <1>3, <1>8, <1>9, InsertAtEnd
<1>11. CurStart = {svcs[i].start}
    BY <1>1, <1>5 DEF InPlace, ChrPlace, CurStart
<1>12. find_prev(svc_keys, svcs[i].start) + 1 = i /\ Holds(svc_keys, svcs[i].start)
    <2>1. Rising(svc_keys)
        BY <1>1, KeysRise
    <2>2. svc_keys \in Seq(Nat) /\ i \in 1..Len(svc_keys) /\ svc_keys[i] = svcs[i].start
        BY <1>1, SvcKeysType
    <2> QED BY <2>1, <2>2, FindsKey
<1>13. \/ OutOfMemory(c)
       \/ /\ svcs' = [svcs EXCEPT ![i].chrs = Link(@, find_prev(chr_keys(i), d), chr)]
          /\ used' = [used EXCEPT !.chr = @ + 1] /\ Taken(c, d + 2)
    <2> HIDE DEF d, chr
    <2>1. PICK start \in CurStart :
            LET p == find_prev(svc_keys, start) + 1
                keys == chr_keys(p)
                known == Holds(keys, d)
            IN  \/ ~Holds(svc_keys, start) /\ AssertFails
                \/ /\ Holds(svc_keys, start) /\ (known \/ Available("chr"))
                   /\ svcs' = IF known THEN svcs
                              ELSE [svcs EXCEPT ![p].chrs = Link(@, find_prev(keys, d), chr)]
                   /\ used' = IF known THEN used ELSE [used EXCEPT !.chr = @ + 1]
                   /\ Taken(c, d + 2)
                \/ /\ Holds(svc_keys, start) /\ ~known /\ ~Available("chr")
                   /\ OutOfMemory(c)
        BY DEF peer_chr_disced, d, chr
    <2>2. start = svcs[i].start
        BY <1>11
    <2> QED BY <1>9, <1>12, <2>1, <2>2
<1>14. \/ OutOfMemory(c)
       \/ /\ svcs' = [svcs EXCEPT ![i].chrs = Append(@, chr)]
          /\ used' = [used EXCEPT !.chr = @ + 1] /\ Taken(c, d + 2)
    <2> HIDE DEF d, chr
    <2> QED BY <1>10, <1>13
<1> HIDE DEF d, chr
<1>15. \/ OutOfMemory(c)
       \/ /\ \E k \in DOMAIN svcs :
               /\ svcs[k].start = cur.start /\ d \in Chrs(table, svcs[k].start)
               /\ svcs[k].end = chain[c].end
               /\ \A j \in DOMAIN svcs[k].chrs : svcs[k].chrs[j].val < d
               /\ svcs' = [svcs EXCEPT ![k].chrs = Append(@, chr)]
          /\ used' = [used EXCEPT !.chr = @ + 1] /\ Taken(c, d + 2)
    BY <1>5, <1>6, <1>7, <1>14
<1> QED BY <1>2, <1>3, <1>15 DEF d, chr

LEMMA DscAnswer ==
    ASSUME NEW c \in Chains, ListsInv, peer_dsc_disced(c)
    PROVE  LET h == Min(Reported(c)) IN
           /\ h \in Nat
           /\ \/ OutOfMemory(c)
              \/ /\ \E i \in DOMAIN svcs : \E j \in DOMAIN svcs[i].chrs :
                      /\ svcs[i].chrs[j].val = chain[c].val
                      /\ \A k \in DOMAIN svcs[i].chrs[j].dscs : svcs[i].chrs[j].dscs[k] < h
                      /\ svcs' = [svcs EXCEPT ![i].chrs[j].dscs = Append(@, h)]
                 /\ used' = [used EXCEPT !.dsc = @ + 1] /\ Taken(c, h + 1)
<1> USE DEF ListsInv, DrivenInv
<1> DEFINE h == Min(Reported(c))
           val == chain[c].val
<1>1. chain[c].step = "dsc" /\ Reported(c) # {} /\ Types /\ svcs \in Seq(Svc)
    BY DEF peer_dsc_disced, Types
<1>2. h \in Nat /\ h \in chain[c].at..chain[c].end
    <2>1. h \in Reported(c) /\ h \in Nat
        BY <1>1, ReportedType
    <2> HIDE DEF h
    <2> QED BY <1>1, <2>1 DEF Reported
<1>3. chain[c].at \in Nat /\ chain[c].end \in Int
    BY <1>1 DEF Types, Step
<1> HIDE DEF h, val
<1>0. PICK i \in DOMAIN svcs : \E l \in DOMAIN svcs[i].chrs :
        /\ svcs[i].chrs[l].val = val
        /\ \A k \in DOMAIN svcs[i].chrs[l].dscs : svcs[i].chrs[l].dscs[k] < chain[c].at
    BY <1>1 DEF InPlace, DscPlace, val
<1>4. PICK j \in DOMAIN svcs[i].chrs :
        /\ svcs[i].chrs[j].val = val
        /\ \A k \in DOMAIN svcs[i].chrs[j].dscs : svcs[i].chrs[j].dscs[k] < chain[c].at
    BY <1>0
<1>5. svc_range(val) = {i}
    BY <1>1, <1>4, KeysRise
<1>6. Min(svc_range(val)) = i
    <2>1. i \in Nat
        BY <1>1, SvcKeysType
    <2>2. svc_range(val) \subseteq Nat /\ svc_range(val) # {}
        BY <1>5, <2>1
    <2> QED BY <1>5, <2>2, MinIsIn
<1>7. /\ chr_keys(i) \in Seq(Nat) /\ j \in 1..Len(chr_keys(i)) /\ chr_keys(i)[j] = val
      /\ svcs[i].chrs[j] \in Chr
    BY <1>1, <1>4, ChrKeysType
<1>8. find_prev(chr_keys(i), val) + 1 = j /\ Holds(chr_keys(i), val)
    <2>1. Rising(chr_keys(i))
        BY DEF ListsInOrder, ChrsInOrder
    <2> QED BY <1>7, <2>1, FindsKey
<1> DEFINE dscs == svcs[i].chrs[j].dscs
<1>9. dscs \in Seq(Nat)
    BY <1>7 DEF Chr
<1>10. \A k \in DOMAIN dscs : dscs[k] < h
    <2> SUFFICES ASSUME NEW k \in DOMAIN dscs PROVE dscs[k] < h
        OBVIOUS
    <2>1. dscs[k] \in Nat
        BY <1>9, LenProperties, ElementOfSeq
    <2> QED BY <1>2, <1>3, <1>4, <2>1
<1> HIDE DEF dscs
<1>11. find_prev(dscs, h) = Len(dscs) /\ ~Holds(dscs, h)
    <2>1. DOMAIN dscs = 1..Len(dscs)
        BY <1>9, LenProperties
    <2> QED BY <1>2, <1>9, <1>10, <2>1, FindsEnd
<1>12. Link(dscs, find_prev(dscs, h), h) = Append(dscs, h)
    BY <1>2, <1>9, <1>11, InsertAtEnd
<1>13. \/ OutOfMemory(c)
       \/ /\ svcs' = [svcs EXCEPT ![i].chrs[j].dscs = Link(@, find_prev(dscs, h), h)]
          /\ used' = [used EXCEPT !.dsc = @ + 1] /\ Taken(c, h + 1)
    BY <1>5, <1>6, <1>8, <1>11 DEF peer_dsc_disced, h, val, dscs
<1>14. \/ OutOfMemory(c)
       \/ /\ svcs' = [svcs EXCEPT ![i].chrs[j].dscs = Append(@, h)]
          /\ used' = [used EXCEPT !.dsc = @ + 1] /\ Taken(c, h + 1)
    BY <1>12, <1>13 DEF dscs
<1> QED BY <1>2, <1>4, <1>10, <1>14 DEF h, val, dscs
-----------------------------------------------------------------------------
(* The steps.                                                              *)

(* Only the procedure of the running discovery moves.                      *)
LEMMA OneMoves ==
    ASSUME NEW c \in Chains, ListsInv, chain[c] # Idle, DrivenInv',
           ListsInOrder', InPlace(c)', table' = table, link' # "aborted",
           NEW p, chain' = [chain EXCEPT ![c] = p]
    PROVE  ListsInv'
<1>1. ASSUME NEW d \in Chains PROVE InPlace(d)'
    <2>1. CASE d = c
        BY <2>1
    <2>2. CASE d # c
        <3>1. chain[d] = Idle
            BY <2>2 DEF ListsInv, DrivenInv
        <3>2. chain'[d] = Idle
            BY <2>2, <3>1 DEF ListsInv, DrivenInv, Types
        <3> QED BY <3>2 DEF InPlace, Idle
    <2> QED BY <2>1, <2>2
<1> QED BY <1>1 DEF ListsInv, NoAssertFailure

LEMMA EndsInOrder ==
    ASSUME NEW c \in Chains, ListsInv, chain[c] # Idle, DrivenInv',
           Fail(c) \/ Succeed(c), UNCHANGED <<table, svcs>>
    PROVE  ListsInv'
<1>1. chain' = [chain EXCEPT ![c] = Idle] /\ link' # "aborted"
    BY DEF Fail, Succeed, ListsInv, NoAssertFailure
<1>2. chain'[c] = Idle
    BY <1>1 DEF ListsInv, DrivenInv, Types
<1>3. InPlace(c)'
    BY <1>2 DEF InPlace, Idle
<1>4. ListsInOrder'
    BY DEF ListsInv, ListsInOrder, SvcsInOrder, ChrsInOrder, chr_keys
<1> QED BY <1>1, <1>3, <1>4, OneMoves DEF ListsInv

LEMMA SvcInOrder ==
    ASSUME NEW c \in Chains, ListsInv, DrivenInv', peer_svc_disced(c)
    PROVE  ListsInv'
<1> USE DEF ListsInv, DrivenInv
<1> DEFINE s == Min(Reported(c))
           svc == [start |-> s, end |-> SvcEnd(table, s), chrs |-> <<>>]
<1>1. /\ chain[c].step = "svc" /\ chain[c] # Idle /\ table' = table
      /\ Types /\ svcs \in Seq(Svc) /\ chain[c] \in Step
    BY DEF peer_svc_disced, Idle, Types
<1>2. /\ s \in Nat /\ svc \in Svc /\ s \in Services(table) /\ s >= chain[c].at
      /\ OutOfMemory(c) \/ (svcs' = Append(svcs, svc) /\ Taken(c, svc.end + 1))
    BY SvcAnswer
<1>3. /\ svc.start = s /\ svc.end = SvcEnd(table, s) /\ svc.chrs = <<>>
      /\ svc.end \in Nat /\ s <= svc.end
    <2>1. SvcEnd(table, s) \in s..Len(table) /\ SvcEnd(table, s) \in Nat /\ Len(table) \in Nat
        BY <1>1, <1>2, TableIs
    <2> HIDE DEF s
    <2> QED BY <1>2, <2>1
<1> HIDE DEF s, svc
<1>4. CASE OutOfMemory(c)
    <2>1. Fail(c) /\ svcs' = svcs
        BY <1>4 DEF OutOfMemory
    <2> QED BY <1>1, <2>1, EndsInOrder DEF DrivenInv
<1>5. CASE svcs' = Append(svcs, svc) /\ Taken(c, svc.end + 1)
    <2>1. /\ DOMAIN svcs' = 1..Len(svcs) + 1 /\ DOMAIN svcs = 1..Len(svcs) /\ Len(svcs) \in Nat
          /\ \A i \in 1..Len(svcs) : svcs'[i] = svcs[i]
          /\ svcs'[Len(svcs) + 1] = svc
        BY <1>1, <1>2, <1>5, AddSvcEffect
    <2>2. \A i \in DOMAIN svcs : svcs[i].end < chain[c].at /\ svcs[i].end \in Nat
        BY <1>1, SvcKeysType DEF InPlace, SvcPlace, Svc
    <2>3. chain[c].at \in Nat
        BY <1>1 DEF Step
    <2>4. SvcsInOrder'
        <3>1. ASSUME NEW i \in DOMAIN svcs'
              PROVE  svcs'[i].start \in Services(table) /\ svcs'[i].end = SvcEnd(table, svcs'[i].start)
            <4>1. CASE i = Len(svcs) + 1
                BY <1>2, <1>3, <2>1, <4>1
            <4>2. CASE i # Len(svcs) + 1
                BY <2>1, <4>2 DEF ListsInOrder, SvcsInOrder
            <4> QED BY <4>1, <4>2
        <3>2. ASSUME NEW i \in DOMAIN svcs', NEW k \in DOMAIN svcs', i < k
              PROVE  svcs'[i].end < svcs'[k].start
            <4>1. i \in DOMAIN svcs /\ svcs'[i] = svcs[i]
                BY <2>1, <3>2
            <4>2. CASE k = Len(svcs) + 1
                BY <1>2, <1>3, <2>1, <2>2, <2>3, <4>1, <4>2
            <4>3. CASE k # Len(svcs) + 1
                BY <2>1, <3>2, <4>1, <4>3 DEF ListsInOrder, SvcsInOrder
            <4> QED BY <4>2, <4>3
        <3> QED BY <1>1, <3>1, <3>2 DEF SvcsInOrder
    <2>5. ASSUME NEW i \in DOMAIN svcs' PROVE ChrsInOrder(i)'
        <3>1. CASE i = Len(svcs) + 1
            BY <1>3, <2>1, <3>1 DEF ChrsInOrder, chr_keys, Rising
        <3>2. CASE i # Len(svcs) + 1
            <4>1. i \in DOMAIN svcs /\ svcs'[i] = svcs[i]
                BY <2>1, <3>2
            <4> QED BY <1>1, <4>1 DEF ListsInOrder, ChrsInOrder, chr_keys
        <3> QED BY <3>1, <3>2
    <2>6. chain' = [chain EXCEPT ![c].at = svc.end + 1] /\ link' = link
        BY <1>5 DEF Taken
    <2>7. chain'[c].step = "svc" /\ chain'[c].at = svc.end + 1
        BY <1>1, <2>6 DEF Types, Step
    <2>8. InPlace(c)'
        <3>1. ASSUME NEW i \in DOMAIN svcs' PROVE svcs'[i].end < svc.end + 1
            <4>1. CASE i = Len(svcs) + 1
                BY <1>3, <2>1, <4>1
            <4>2. CASE i # Len(svcs) + 1
                BY <1>2, <1>3, <2>1, <2>2, <2>3, <4>2
            <4> QED BY <4>1, <4>2
        <3> QED BY <2>7, <3>1 DEF InPlace, SvcPlace
    <2>9. chain' = [chain EXCEPT ![c] = [chain[c] EXCEPT !.at = svc.end + 1]]
        BY <2>6
    <2> QED BY <1>1, <2>4, <2>5, <2>6, <2>8, <2>9, OneMoves DEF ListsInOrder, NoAssertFailure
<1> QED BY <1>2, <1>4, <1>5
LEMMA ChrInOrder ==
    ASSUME NEW c \in Chains, ListsInv, DrivenInv', peer_chr_disced(c)
    PROVE  ListsInv'
<1> USE DEF ListsInv, DrivenInv
<1> DEFINE d == Min(Reported(c))
           chr == [def |-> d, val |-> d + 1, dscs |-> <<>>]
<1>1. /\ chain[c].step = "chr" /\ chain[c] # Idle /\ table' = table /\ cur' = cur
      /\ Types /\ svcs \in Seq(Svc) /\ chain[c] \in Step
    BY DEF peer_chr_disced, Idle, Types
<1>2. /\ d \in Nat /\ chr \in Chr
      /\ \/ OutOfMemory(c)
         \/ /\ \E i \in DOMAIN svcs :
                 /\ svcs[i].start = cur.start /\ d \in Chrs(table, svcs[i].start)
                 /\ svcs[i].end = chain[c].end
                 /\ \A j \in DOMAIN svcs[i].chrs : svcs[i].chrs[j].val < d
                 /\ svcs' = [svcs EXCEPT ![i].chrs = Append(@, chr)]
            /\ Taken(c, d + 2)
    BY ChrAnswer
<1>3. chr.def = d /\ chr.val = d + 1 /\ chr.dscs = <<>>
    OBVIOUS
<1> HIDE DEF d, chr
<1>4. CASE OutOfMemory(c)
    <2>1. Fail(c) /\ svcs' = svcs
        BY <1>4 DEF OutOfMemory
    <2> QED BY <1>1, <2>1, EndsInOrder DEF DrivenInv
<1>5. ASSUME NEW i \in DOMAIN svcs,
             svcs[i].start = cur.start, d \in Chrs(table, svcs[i].start),
             svcs[i].end = chain[c].end,
             \A j \in DOMAIN svcs[i].chrs : svcs[i].chrs[j].val < d,
             svcs' = [svcs EXCEPT ![i].chrs = Append(svcs[i].chrs, chr)],
             Taken(c, d + 2)
      PROVE  ListsInv'
    <2> DEFINE chrs == svcs[i].chrs
               new == Append(chrs, chr)
    <2>1. /\ chrs \in Seq(Chr) /\ DOMAIN chrs = 1..Len(chrs) /\ Len(chrs) \in Nat
          /\ chr_keys(i) \in Seq(Nat) /\ Len(chr_keys(i)) = Len(chrs)
          /\ \A j \in DOMAIN chrs : chrs[j] \in Chr /\ chr_keys(i)[j] = chrs[j].val
        BY <1>1, ChrKeysType
    <2> HIDE DEF chrs
    <2>2. /\ new \in Seq(Chr) /\ DOMAIN new = 1..Len(chrs) + 1
          /\ \A j \in 1..Len(chrs) : new[j] = chrs[j]
          /\ new[Len(chrs) + 1] = chr
        <3>1. new \in Seq(Chr) /\ Len(new) = Len(chrs) + 1
            BY <1>2, <2>1, AppendProperties
        <3> QED BY <1>2, <2>1, <3>1, AppendProperties, LenProperties
    <2> HIDE DEF new
    <2>3. svcs' = [svcs EXCEPT ![i].chrs = new]
        BY <1>5 DEF new, chrs
    <2>4. /\ svcs' \in Seq(Svc) /\ DOMAIN svcs' = DOMAIN svcs
          /\ \A k \in DOMAIN svcs : /\ svcs'[k].start = svcs[k].start
                                    /\ svcs'[k].end = svcs[k].end
                                    /\ k # i => svcs'[k].chrs = svcs[k].chrs
          /\ svcs'[i].chrs = new
        BY <1>1, <2>2, <2>3, SetChrsEffect
    <2>5. SvcsInOrder'
        BY <1>1, <2>4 DEF ListsInOrder, SvcsInOrder
    <2>6. ChrsInOrder(i)'
        <3>1. ASSUME NEW j \in DOMAIN new
              PROVE  /\ new[j].def \in Chrs(table, svcs[i].start)
                     /\ new[j].val = new[j].def + 1
                     /\ Rising(new[j].dscs)
            <4>1. CASE j = Len(chrs) + 1
                BY <1>3, <1>5, <2>2, <4>1 DEF Rising
            <4>2. CASE j # Len(chrs) + 1
                <5>1. j \in DOMAIN svcs[i].chrs /\ new[j] = svcs[i].chrs[j]
                    BY <2>1, <2>2, <4>2 DEF chrs
                <5> QED BY <5>1 DEF ListsInOrder, ChrsInOrder
            <4> QED BY <4>1, <4>2
        <3>2. \A j, k \in DOMAIN new : j < k => new[j].val < new[k].val
            <4> SUFFICES ASSUME NEW j \in DOMAIN new, NEW k \in DOMAIN new, j < k
                         PROVE  new[j].val < new[k].val
                OBVIOUS
            <4>1. j \in DOMAIN chrs /\ new[j] = chrs[j]
                BY <2>1, <2>2
            <4>2. CASE k = Len(chrs) + 1
                <5>1. chrs[j].val < d /\ chrs[j].val \in Nat
                    BY <1>5, <2>1, <4>1 DEF chrs, Chr
                <5> QED BY <1>2, <1>3, <2>2, <4>1, <4>2, <5>1
            <4>3. CASE k # Len(chrs) + 1
                <5>1. k \in DOMAIN chrs /\ new[k] = chrs[k]
                    BY <2>1, <2>2, <4>3
                <5>2. chr_keys(i)[j] < chr_keys(i)[k]
                    <6>1. DOMAIN chr_keys(i) = DOMAIN chrs
                        BY DEF chr_keys, chrs
                    <6> QED BY <4>1, <5>1, <6>1 DEF ListsInOrder, ChrsInOrder, Rising
                <5> QED BY <2>1, <4>1, <5>1, <5>2
            <4> QED BY <4>2, <4>3
        <3>3. chr_keys(i)' = [j \in DOMAIN new |-> new[j].val]
            BY <2>4 DEF chr_keys
        <3>4. Rising(chr_keys(i)')
            BY <3>2, <3>3 DEF Rising
        <3> QED BY <1>1, <2>4, <3>1, <3>4 DEF ChrsInOrder, Rising
    <2>7. ASSUME NEW k \in DOMAIN svcs', k # i PROVE ChrsInOrder(k)'
        <3>1. svcs'[k].start = svcs[k].start /\ svcs'[k].chrs = svcs[k].chrs /\ k \in DOMAIN svcs
            BY <2>4, <2>7
        <3> QED BY <1>1, <3>1 DEF ListsInOrder, ChrsInOrder, chr_keys
    <2>8. chain' = [chain EXCEPT ![c].at = d + 2] /\ link' = link
        BY <1>5 DEF Taken
    <2>9. chain'[c].step = "chr" /\ chain'[c].at = d + 2 /\ chain'[c].end = chain[c].end
        BY <1>1, <2>8 DEF Types, Step
    <2>10. InPlace(c)'
        <3>1. ~cur.freed
            BY <1>1 DEF InPlace, ChrPlace
        <3>2. cur.start <= d + 2
            <4>1. svcs[i].start \in Services(table)
                BY DEF ListsInOrder, SvcsInOrder
            <4>2. svcs[i].start \in Nat /\ svcs[i].start < d
                BY <1>1, <1>5, <4>1, TableIs, ValueInService
            <4> QED BY <1>2, <1>5, <4>2
        <3>3. ASSUME NEW j \in DOMAIN new PROVE new[j].val < d + 2
            <4>1. CASE j = Len(chrs) + 1
                BY <1>2, <1>3, <2>2, <4>1
            <4>2. CASE j # Len(chrs) + 1
                <5>1. j \in DOMAIN chrs /\ new[j] = chrs[j]
                    BY <2>1, <2>2, <4>2
                <5>2. chrs[j].val < d /\ chrs[j].val \in Nat
                    BY <1>5, <2>1, <5>1 DEF chrs, Chr
                <5> QED BY <1>2, <5>1, <5>2
            <4> QED BY <4>1, <4>2
        <3>4. ChrPlace(c)'
            <4>1. /\ i \in DOMAIN svcs' /\ svcs'[i].start = cur'.start
                  /\ svcs'[i].end = chain'[c].end /\ cur'.start <= chain'[c].at
                BY <1>1, <1>5, <2>4, <2>9, <3>2
            <4>2. \A j \in DOMAIN svcs'[i].chrs : svcs'[i].chrs[j].val < chain'[c].at
                BY <2>4, <2>9, <3>3
            <4> QED BY <1>1, <3>1, <4>1, <4>2 DEF ChrPlace
        <3> QED BY <2>9, <3>4 DEF InPlace
    <2>11. chain' = [chain EXCEPT ![c] = [chain[c] EXCEPT !.at = d + 2]]
        BY <2>8
    <2> QED BY <1>1, <2>5, <2>6, <2>7, <2>8, <2>10, <2>11, OneMoves DEF ListsInOrder, NoAssertFailure
<1> QED BY <1>2, <1>4, <1>5

LEMMA DscInOrder ==
    ASSUME NEW c \in Chains, ListsInv, DrivenInv', peer_dsc_disced(c)
    PROVE  ListsInv'
<1> USE DEF ListsInv, DrivenInv
<1> DEFINE h == Min(Reported(c))
<1>1. /\ chain[c].step = "dsc" /\ chain[c] # Idle /\ table' = table
      /\ Types /\ svcs \in Seq(Svc) /\ chain[c] \in Step
    BY DEF peer_dsc_disced, Idle, Types
<1>2. /\ h \in Nat
      /\ \/ OutOfMemory(c)
         \/ /\ \E i \in DOMAIN svcs : \E j \in DOMAIN svcs[i].chrs :
                 /\ svcs[i].chrs[j].val = chain[c].val
                 /\ \A k \in DOMAIN svcs[i].chrs[j].dscs : svcs[i].chrs[j].dscs[k] < h
                 /\ svcs' = [svcs EXCEPT ![i].chrs[j].dscs = Append(@, h)]
            /\ Taken(c, h + 1)
    BY DscAnswer
<1> HIDE DEF h
<1>3. CASE OutOfMemory(c)
    <2>1. Fail(c) /\ svcs' = svcs
        BY <1>3 DEF OutOfMemory
    <2> QED BY <1>1, <2>1, EndsInOrder DEF DrivenInv
<1>4. ASSUME NEW i \in DOMAIN svcs, NEW j \in DOMAIN svcs[i].chrs,
             svcs[i].chrs[j].val = chain[c].val,
             \A k \in DOMAIN svcs[i].chrs[j].dscs : svcs[i].chrs[j].dscs[k] < h,
             svcs' = [svcs EXCEPT ![i].chrs[j].dscs = Append(svcs[i].chrs[j].dscs, h)],
             Taken(c, h + 1)
      PROVE  ListsInv'
    <2> DEFINE dscs == svcs[i].chrs[j].dscs
               new == Append(dscs, h)
    <2>1. dscs \in Seq(Nat) /\ Rising(dscs)
        BY <1>1, ChrKeysType DEF Chr, ListsInOrder, ChrsInOrder
    <2>2. \A k \in 1..Len(dscs) : dscs[k] < h /\ dscs[k] \in Nat
        BY <1>4, <2>1, LenProperties, ElementOfSeq
    <2> HIDE DEF dscs
    <2>3. new \in Seq(Nat) /\ Rising(new)
        BY <1>2, <2>1, <2>2, RisingAppend, AppendProperties
    <2>4. /\ DOMAIN new = 1..Len(dscs) + 1 /\ Len(dscs) \in Nat
          /\ \A k \in 1..Len(dscs) : new[k] = dscs[k]
          /\ new[Len(dscs) + 1] = h
        <3>1. Len(new) = Len(dscs) + 1
            BY <1>2, <2>1, AppendProperties
        <3> QED BY <1>2, <2>1, <2>3, <3>1, AppendProperties, LenProperties
    <2> HIDE DEF new
    <2>5. svcs' = [svcs EXCEPT ![i].chrs[j].dscs = new]
        BY <1>4 DEF new, dscs
    <2>6. OnlyDscs(i, j, new)
        <3> HIDE DEF ListsInv, DrivenInv
        <3>1. svcs \in Seq(Svc) /\ new \in Seq(Nat)
            BY <1>1, <2>3
        <3> QED BY <2>5, <3>1, SetDscsEffect
    <2> USE DEF OnlyDscs
    <2>7. SvcsInOrder'
        BY <1>1, <2>6 DEF ListsInOrder, SvcsInOrder
    <2>8. ASSUME NEW k \in DOMAIN svcs' PROVE ChrsInOrder(k)'
        <3>1. k \in DOMAIN svcs /\ ChrsInOrder(k)
            BY <2>6 DEF ListsInOrder
        <3>2. ASSUME NEW l \in DOMAIN svcs'[k].chrs
              PROVE  /\ svcs'[k].chrs[l].def \in Chrs(table, svcs'[k].start)
                     /\ svcs'[k].chrs[l].val = svcs'[k].chrs[l].def + 1
                     /\ Rising(svcs'[k].chrs[l].dscs)
            <4>1. l \in DOMAIN svcs[k].chrs
                BY <2>6, <3>1
            <4>2. Rising(svcs'[k].chrs[l].dscs)
                <5>1. CASE <<k, l>> = <<i, j>>
                    BY <2>3, <2>6, <5>1
                <5>2. CASE <<k, l>> # <<i, j>>
                    BY <2>6, <3>1, <4>1, <5>2 DEF ChrsInOrder
                <5> QED BY <5>1, <5>2
            <4> QED BY <2>6, <3>1, <4>1, <4>2 DEF ChrsInOrder
        <3>3. chr_keys(k)' = chr_keys(k)
            BY <2>6, <3>1 DEF chr_keys
        <3> QED BY <1>1, <3>1, <3>2, <3>3 DEF ChrsInOrder, Rising
    <2>9. chain' = [chain EXCEPT ![c].at = h + 1] /\ link' = link
        BY <1>4 DEF Taken
    <2>10. chain'[c].step = "dsc" /\ chain'[c].at = h + 1 /\ chain'[c].val = chain[c].val
        BY <1>1, <2>9 DEF Types, Step
    <2>11. InPlace(c)'
        <3>1. \A k \in DOMAIN new : new[k] < h + 1
            BY <1>2, <2>2, <2>4
        <3>2. DscPlace(c)'
            <4>1. /\ i \in DOMAIN svcs' /\ j \in DOMAIN svcs'[i].chrs
                  /\ svcs'[i].chrs[j].val = chain'[c].val
                BY <1>4, <2>6, <2>10
            <4>2. \A k \in DOMAIN svcs'[i].chrs[j].dscs : svcs'[i].chrs[j].dscs[k] < chain'[c].at
                BY <2>6, <2>10, <3>1
            <4> QED BY <4>1, <4>2 DEF DscPlace
        <3> QED BY <2>10, <3>2 DEF InPlace
    <2>12. chain' = [chain EXCEPT ![c] = [chain[c] EXCEPT !.at = h + 1]]
        BY <2>9
    <2> QED BY <1>1, <2>7, <2>8, <2>9, <2>11, <2>12, OneMoves DEF ListsInOrder, NoAssertFailure
<1> QED BY <1>2, <1>3, <1>4
(* The next procedure begins where nothing is listed yet.                  *)
LEMMA DscsInOrder ==
    ASSUME NEW c \in Chains, NEW starts \in BOOLEAN, ListsInv, DrivenInv', chain[c] # Idle,
           peer_disc_dscs(c, starts), UNCHANGED <<table, svcs>>
    PROVE  ListsInv'
<1>1. svcs \in Seq(Svc) /\ Types
    BY DEF ListsInv, DrivenInv, Types
<1>2. CASE Fail(c) \/ Succeed(c)
    BY <1>2, EndsInOrder
<1>3. CASE undiscovered_chrs # {} /\ ~Fail(c)
    <2> DEFINE at == First(undiscovered_chrs)
               svc == svcs[at[1]]
               chr == svc.chrs[at[2]]
               p == Proc("dsc", chr.val + 1, chr_end_handle(svc, at[2]), chr.val)
    <2>1. undiscovered_chrs \subseteq Positions(svcs) /\ Positions(svcs) \subseteq Nat \X Nat
        BY <1>1, PositionsType DEF undiscovered_chrs
    <2>2. at \in undiscovered_chrs
        BY <1>3, <2>1, FirstIsIn
    <2>3. at[1] \in DOMAIN svcs /\ at[2] \in DOMAIN svc.chrs
        BY <1>1, <2>1, <2>2, PositionsType
    <2>4. chr.dscs = <<>>
        BY <2>2 DEF undiscovered_chrs
    <2>5. chain' = [chain EXCEPT ![c] = p] /\ UNCHANGED link
        BY <1>3 DEF peer_disc_dscs, Start
    <2>6. p.step = "dsc" /\ p.val = chr.val
        BY DEF Proc
    <2> HIDE DEF p, at
    <2>7. chain'[c] = p
        BY <1>1, <2>5 DEF Types
    <2>8. DscPlace(c)'
        BY <2>3, <2>4, <2>6, <2>7 DEF DscPlace
    <2>9. InPlace(c)'
        BY <2>6, <2>7, <2>8 DEF InPlace
    <2>10. ListsInOrder'
        BY DEF ListsInv, ListsInOrder, SvcsInOrder, ChrsInOrder, chr_keys
    <2> QED BY <2>5, <2>9, <2>10, OneMoves DEF ListsInv, NoAssertFailure
<1> QED BY <1>2, <1>3 DEF peer_disc_dscs

LEMMA ChrsInOrderNext ==
    ASSUME NEW c \in Chains, NEW starts \in BOOLEAN, ListsInv, DrivenInv', chain[c] # Idle,
           peer_disc_chrs(c, starts), UNCHANGED <<table, svcs>>
    PROVE  ListsInv'
<1>1. svcs \in Seq(Svc) /\ Types
    BY DEF ListsInv, DrivenInv, Types
<1>2. CASE undiscovered_svcs = {}
    BY <1>2, DscsInOrder DEF peer_disc_chrs
<1>3. CASE Fail(c)
    BY <1>3, EndsInOrder
<1>4. CASE undiscovered_svcs # {} /\ ~Fail(c)
    <2> DEFINE i == Min(undiscovered_svcs)
               p == Proc("chr", svcs[i].start, svcs[i].end, 0)
    <2>1. i \in DOMAIN svcs /\ svcs[i].chrs = <<>> /\ svcs[i].start \in Nat
        <3>1. undiscovered_svcs \subseteq DOMAIN svcs /\ DOMAIN svcs \subseteq Nat
            BY <1>1, SvcKeysType DEF undiscovered_svcs
        <3>2. i \in undiscovered_svcs
            <4>1. undiscovered_svcs \subseteq Nat
                BY <3>1
            <4> QED BY <1>4, <4>1, MinIsIn
        <3>3. \A k \in DOMAIN svcs : svcs[k].start \in Nat
            BY <1>1, SvcKeysType DEF Svc
        <3> QED BY <3>1, <3>2, <3>3 DEF undiscovered_svcs
    <2>2. /\ chain' = [chain EXCEPT ![c] = p] /\ UNCHANGED link
          /\ cur' = [start |-> svcs[i].start, freed |-> FALSE]
        BY <1>4 DEF peer_disc_chrs, Start
    <2>3. p.step = "chr" /\ p.at = svcs[i].start /\ p.end = svcs[i].end
        BY DEF Proc
    <2> HIDE DEF p, i
    <2>4. chain'[c] = p /\ cur'.start = svcs[i].start /\ ~cur'.freed
        BY <1>1, <2>2 DEF Types
    <2>5. ChrPlace(c)'
        <3>1. DOMAIN svcs[i].chrs = {}
            BY <2>1
        <3>2. cur'.start <= chain'[c].at
            BY <2>1, <2>3, <2>4
        <3> QED BY <2>1, <2>3, <2>4, <3>1, <3>2 DEF ChrPlace
    <2>6. InPlace(c)'
        BY <2>3, <2>4, <2>5 DEF InPlace
    <2>7. ListsInOrder'
        BY DEF ListsInv, ListsInOrder, SvcsInOrder, ChrsInOrder, chr_keys
    <2> QED BY <2>2, <2>6, <2>7, OneMoves DEF ListsInv, NoAssertFailure
<1> QED BY <1>2, <1>3, <1>4

LEMMA DoneInOrder ==
    ASSUME NEW c \in Chains, NEW starts \in BOOLEAN, ListsInv, DrivenInv',
           peer_svc_done(c, starts) \/ peer_chr_done(c, starts) \/ peer_dsc_done(c, starts)
    PROVE  ListsInv'
<1>1. chain[c] # Idle
    BY DEF peer_svc_done, peer_chr_done, peer_dsc_done, Idle
<1>2. prev > 0
    <2>1. outcome[c] = "running" /\ link # "aborted"
        BY <1>1 DEF ListsInv, DrivenInv, NoAssertFailure
    <2> QED BY <2>1 DEF ListsInv, DrivenInv, RunningIsDriven
<1>3. UNCHANGED <<table, svcs>> /\ (peer_disc_chrs(c, starts) \/ peer_disc_dscs(c, starts))
    BY <1>2 DEF peer_svc_done, peer_chr_done, peer_dsc_done
<1> QED BY <1>1, <1>3, ChrsInOrderNext, DscsInOrder

LEMMA ErrorInOrder ==
    ASSUME NEW c \in Chains, ListsInv, DrivenInv', ProcError(c)
    PROVE  ListsInv'
BY EndsInOrder DEF ProcError

(* Connect, Disconnect and peer_disc_all leave no list.                    *)
LEMMA FreshInOrder ==
    ASSUME Overlap = FALSE, ListsInv, DrivenInv', Connect \/ Disconnect \/ peer_disc_all
    PROVE  ListsInv'
<1>1. svcs' = <<>> /\ link' # "aborted"
    BY DEF Connect, Disconnect, peer_disc_all, Undiscover, ListsInv, NoAssertFailure
<1>2. table' \in Tables \cup {<<>>}
    BY DEF Connect, Disconnect, peer_disc_all, ListsInv
<1>3. DOMAIN svcs' = {}
    BY <1>1
<1>4. ListsInOrder'
    BY <1>3 DEF ListsInOrder, SvcsInOrder
<1>5. ASSUME NEW c \in Chains PROVE InPlace(c)'
    <2>1. chain'[c].step \in {"none", "svc"}
        <3>1. CASE Connect \/ Disconnect
            BY <3>1 DEF Connect, Disconnect, Idle
        <3>2. CASE peer_disc_all
            <4>1. \A d \in Chains : chain[d] = Idle
                BY <3>2 DEF peer_disc_all, Running, ListsInv, DrivenInv
            <4>2. PICK d \in Chains :
                    chain' = [chain EXCEPT ![d] = Proc("svc", 1, Len(table), 0)] \/ chain' = chain
                BY <3>2 DEF peer_disc_all
            <4>3. chain \in [Chains -> Step]
                BY DEF ListsInv, DrivenInv, Types
            <4> QED BY <4>1, <4>2, <4>3 DEF Proc, Idle
        <3> QED BY <3>1, <3>2
    <2>2. SvcPlace(c)'
        BY <1>3 DEF SvcPlace
    <2> QED BY <2>1, <2>2 DEF InPlace
<1> QED BY <1>1, <1>2, <1>4, <1>5 DEF ListsInv, NoAssertFailure

LEMMA ListsInit == Init => ListsInv
<1> SUFFICES ASSUME Init PROVE ListsInv
    OBVIOUS
<1>1. DrivenInv
    BY DrivenInit
<1>2. table = <<>> /\ svcs = <<>> /\ link = "down" /\ \A c \in Chains : chain[c].step = "none"
    BY DEF Init, Idle
<1>3. ListsInOrder
    BY <1>2 DEF ListsInOrder, SvcsInOrder
<1>4. \A c \in Chains : InPlace(c)
    BY <1>2 DEF InPlace
<1> QED BY <1>1, <1>2, <1>3, <1>4 DEF ListsInv, NoAssertFailure

LEMMA ListsStep ==
    ASSUME Overlap = FALSE, ListsInv, [Next]_vars
    PROVE  ListsInv'
<1>1. DrivenInv'
    BY DrivenStep DEF ListsInv
<1>2. CASE Connect \/ Disconnect \/ peer_disc_all
    BY <1>1, <1>2, FreshInOrder
<1>3. ASSUME NEW c \in Chains, ProcError(c) PROVE ListsInv'
    BY <1>1, <1>3, ErrorInOrder
<1>4. ASSUME NEW c \in Chains, NEW starts \in BOOLEAN, Answer(c, starts) PROVE ListsInv'
    BY <1>1, <1>4, SvcInOrder, ChrInOrder, DscInOrder, DoneInOrder DEF Answer
<1>5. CASE UNCHANGED vars
    BY <1>1, <1>5 DEF vars, ListsInv, ListsInOrder, SvcsInOrder, ChrsInOrder, chr_keys,
                       InPlace, SvcPlace, ChrPlace, DscPlace, NoAssertFailure
<1> QED BY <1>2, <1>3, <1>4, <1>5 DEF Next

(* As long as discoveries do not overlap, the asserts marked "this         *)
(* shouldn't happen" in peer_chr_add and peer_dsc_add are never reached:   *)
(* every search for a service or a characteristic finds it.                *)
THEOREM NoAssertIsReached ==
    ASSUME Overlap = FALSE
    PROVE  Spec => []NoAssertFailure
<1>1. Overlap = FALSE
    OBVIOUS
<1>2. ListsInv /\ [Next]_vars => ListsInv'
    BY <1>1, ListsStep
<1>3. ListsInv => NoAssertFailure
    BY DEF ListsInv
<1> QED BY ListsInit, <1>2, <1>3, PTL DEF Spec

(* As long as discoveries do not overlap, no characteristic is listed      *)
(* twice, although the duplicate test of peer_chr_add can find none: it is *)
(* the order of the answers that keeps them apart.                         *)
THEOREM NoChrIsListedTwice ==
    ASSUME Overlap = FALSE
    PROVE  Spec => []NoDuplicateChr
<1>1. Overlap = FALSE
    OBVIOUS
<1>2. ListsInv /\ [Next]_vars => ListsInv'
    BY <1>1, ListsStep
<1>3. ListsInv => NoDuplicateChr
    <2> SUFFICES ASSUME ListsInv, NEW i \in DOMAIN svcs,
                        NEW j \in DOMAIN svcs[i].chrs, NEW k \in DOMAIN svcs[i].chrs,
                        svcs[i].chrs[j].def = svcs[i].chrs[k].def
                 PROVE  j = k
        BY DEF NoDuplicateChr
    <2>1. svcs \in Seq(Svc) /\ ChrsInOrder(i)
        BY DEF ListsInv, DrivenInv, Types, ListsInOrder
    <2>2. /\ chr_keys(i)[j] = svcs[i].chrs[j].val /\ chr_keys(i)[k] = svcs[i].chrs[k].val
          /\ j \in Nat /\ k \in Nat /\ svcs[i].chrs[j].val \in Nat
        <3>1. DOMAIN svcs[i].chrs \subseteq Nat
            BY <2>1, ChrKeysType
        <3>2. svcs[i].chrs[j] \in Chr
            BY <2>1, ChrKeysType
        <3> QED BY <3>1, <3>2 DEF Chr, chr_keys
    <2>3. DOMAIN chr_keys(i) = DOMAIN svcs[i].chrs
        BY DEF chr_keys
    <2>4. chr_keys(i)[j] = chr_keys(i)[k]
        BY <2>1, <2>2 DEF ChrsInOrder
    <2>5. ~ (j < k) /\ ~ (k < j)
        BY <2>1, <2>2, <2>3, <2>4 DEF ChrsInOrder, Rising
    <2> QED BY <2>2, <2>5
<1> QED BY ListsInit, <1>2, <1>3, PTL DEF Spec
=============================================================================
