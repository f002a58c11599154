------------------------------ MODULE PeerTable ------------------------------
(***************************************************************************)
(* The attribute table of a GATT server, as the camera exposes it, and the *)
(* view of it that discovery has to build.                                 *)
(*                                                                         *)
(* A table is a sequence of attribute types; the index of an attribute is  *)
(* its handle.  Types keep what gatt.c tells apart by UUID or property:    *)
(* the GoPro service 0xFEA6, the command characteristic, a characteristic  *)
(* with the NOTIFY property, the CCCD descriptor, and handles that no      *)
(* attribute has.                                                          *)
(***************************************************************************)
EXTENDS Integers, Sequences, FiniteSets, SequencesExt

SvcTypes == {"svc", "gopro"}
ChrTypes == {"chr", "cmd", "notify"}
DscTypes == {"dsc", "cccd"}
AttrTypes == SvcTypes \cup ChrTypes \cup DscTypes \cup {"val", "inc", "gap"}

(* A table a GATT server can have: it begins with a service; an include    *)
(* declaration follows a service or another include; the value follows its *)
(* characteristic's declaration at once; descriptors follow a value.       *)
WellFormed(t) ==
    /\ Len(t) > 0 /\ t[1] \in SvcTypes /\ t[Len(t)] \notin ChrTypes
    /\ \A h \in 2..Len(t) :
         /\ t[h] = "val" <=> t[h-1] \in ChrTypes
         /\ t[h] = "inc" => t[h-1] \in SvcTypes \cup {"inc"}
         /\ t[h] \in DscTypes => t[h-1] \in DscTypes \cup {"val"}

Services(t) == {h \in DOMAIN t : t[h] \in SvcTypes}

SvcEnd(t, s) == Max({e \in s..Len(t) : \A h \in (s+1)..e : h \notin Services(t)})

Chrs(t, s) == {d \in s..SvcEnd(t, s) : t[d] \in ChrTypes}

(* The last handle that belongs to the characteristic declared at d in the *)
(* service s.                                                              *)
ChrEnd(t, s, d) == Max({e \in d..SvcEnd(t, s) : Chrs(t, s) \cap ((d+1)..e) = {}})

(* A service that holds attributes but no characteristic.                  *)
Barren(t, s) == SvcEnd(t, s) > s /\ Chrs(t, s) = {}

(* The elements of a finite set of numbers in rising order.                *)
Sorted(S) ==
    [i \in 1..Cardinality(S) |-> CHOOSE x \in S : Cardinality({y \in S : y <= x}) = i]

(* What a complete discovery of t must have found: every service, in it    *)
(* every characteristic, in that every descriptor, each in handle order.   *)
MirrorChr(t, s, d) ==
    [def |-> d, val |-> d + 1,
     dscs |-> Sorted({h \in (d+2)..ChrEnd(t, s, d) : t[h] # "gap"})]

MirrorSvc(t, s) ==
    LET ds == Sorted(Chrs(t, s))
    IN  [start |-> s, end |-> SvcEnd(t, s),
         chrs |-> [i \in DOMAIN ds |-> MirrorChr(t, s, ds[i])]]

Mirror(t) ==
    LET ss == Sorted(Services(t))
    IN  [i \in DOMAIN ss |-> MirrorSvc(t, ss[i])]

(* The CCCDs of the notifying characteristics of the GoPro service, and    *)
(* the value handles of the command characteristics.                       *)
NotifyCccds(t) ==
    {h \in DOMAIN t : /\ t[h] = "cccd"
                      /\ \E s \in Services(t) :
                           /\ t[s] = "gopro"
                           /\ \E d \in Chrs(t, s) :
                                /\ t[d] = "notify"
                                /\ h \in (d+2)..ChrEnd(t, s, d)}

CommandVals(t) == {h \in DOMAIN t : h > 1 /\ t[h-1] = "cmd"}
=============================================================================
