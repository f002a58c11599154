------------------------------ MODULE AdvReport ------------------------------
(***************************************************************************)
(* How gap.c reads an advertising report: the two walks over its fields in *)
(* the case DISC of blecent_gap_event, the first for the GoPro service     *)
(* UUID, the second, only for a GoPro, for its names and UUIDs.  A GoPro   *)
(* is then handed to ble_connect.                                          *)
(*                                                                         *)
(* A field is a length byte, a type byte and length - 1 bytes of data.     *)
(* Nothing but the length bytes bounds the reads, whatever they say: a     *)
(* report may be cut short, or a list may hold half a UUID.  The highest   *)
(* index read is kept in "top", and the memory behind a report is there to *)
(* be read.                                                                *)
(***************************************************************************)
EXTENDS Integers, Sequences

CONSTANT Reports
    \* the reports heard: data[0 .. len - 1] is the report, the rest of data
    \* what follows it in memory; starts are the offsets of its fields and,
    \* last, of its end, where it is laid out in fields

Byte == 0 .. 255
UuidLists == {2, 3}         \* incomplete and complete list of 16-bit UUIDs
LocalNames == {8, 9}        \* shortened and complete local name
ServiceData == 22           \* 0x16: a 16-bit UUID and data
GoProService == <<166, 254>>    \* 0xFEA6, low byte first

(* How far behind the last byte of a report a length byte can lead.        *)
Reach == 255

ASSUME ReportsAssumption ==
    \A r \in Reports : /\ r.len \in Byte
                       /\ r.data \in [0 .. r.len + Reach - 1 -> Byte]

VARIABLES
    report,     \* disc->data and disc->length_data
    pc,         \* "find" and "names", the two walks; "ignored" or "connect"
    pos, i,     \* the loop variables; i = 0 outside the loop over UUIDs
    is_gopro,
    top,        \* the highest index read so far, -1 for none
    n           \* history: the number of the field at pos

vars == <<report, pc, pos, i, is_gopro, top, n>>

field_len == report.data[pos]
field_type == report.data[pos + 1]
svc_uuid == <<report.data[pos + i], report.data[pos + i + 1]>>
AtEnd == pos < report.len => field_len = 0
Higher(index) == IF index > top THEN index ELSE top

(* pos += field_len + 1                                                    *)
NextField == pos' = pos + field_len + 1 /\ n' = n + 1 /\ i' = 0
-----------------------------------------------------------------------------
(* First walk.                                                             *)

(* The head of a field: a list of UUIDs is looked through, unless it is    *)
(* empty, any other field is passed over.                                  *)
FindField ==
    /\ pc = "find" /\ i = 0 /\ ~AtEnd
    /\ top' = Higher(pos + 1)
    /\ IF field_type \in UuidLists /\ field_len >= 2
       THEN i' = 2 /\ UNCHANGED <<pos, n>>
       ELSE NextField
    /\ UNCHANGED <<report, pc, is_gopro>>

(* Mutant of FindUuid: the last UUID decides.                              *)
FindLastUuid ==
    /\ pc = "find" /\ i # 0
    /\ top' = Higher(pos + i + 1)
    /\ is_gopro' = (svc_uuid = GoProService)
    /\ IF i + 2 < field_len + 1 THEN i' = i + 2 /\ UNCHANGED <<pos, n>> ELSE NextField
    /\ UNCHANGED <<report, pc>>

(* Mutant of FindUuid: the bound of the loop is one too high.              *)
FindUuidTooFar ==
    /\ pc = "find" /\ i # 0
    /\ top' = Higher(pos + i + 1)
    /\ is_gopro' = (is_gopro \/ svc_uuid = GoProService)
    /\ IF i + 2 < field_len + 2 THEN i' = i + 2 /\ UNCHANGED <<pos, n>> ELSE NextField
    /\ UNCHANGED <<report, pc>>

(* Mutant of FindUuid: pos stays at the list.                              *)
FindUuidStays ==
    /\ pc = "find" /\ i # 0
    /\ top' = Higher(pos + i + 1)
    /\ is_gopro' = (is_gopro \/ svc_uuid = GoProService)
    /\ IF i + 2 < field_len + 1 THEN i' = i + 2 ELSE i' = 0
    /\ UNCHANGED <<report, pc, pos, n>>

(* for (i = 2; i < field_len + 1; i += 2)                                  *)
FindUuid ==
    /\ pc = "find" /\ i # 0
    /\ top' = Higher(pos + i + 1)
    /\ is_gopro' = (is_gopro \/ svc_uuid = GoProService)
    /\ IF i + 2 < field_len + 1 THEN i' = i + 2 /\ UNCHANGED <<pos, n>> ELSE NextField
    /\ UNCHANGED <<report, pc>>

(* The walk is over.  A report of another device is dropped; that of a     *)
(* GoPro is printed, every byte of it.                                     *)
FindEnds ==
    /\ pc = "find" /\ i = 0 /\ AtEnd
    /\ IF is_gopro
       THEN pc' = "names" /\ pos' = 0 /\ n' = 1 /\ top' = Higher(report.len - 1)
       ELSE /\ pc' = "ignored" /\ UNCHANGED <<pos, n>>
            /\ top' = IF pos < report.len THEN Higher(pos) ELSE top
    /\ UNCHANGED <<report, i, is_gopro>>
-----------------------------------------------------------------------------
(* Second walk.                                                            *)

Smaller(a, b) == IF a < b THEN a ELSE b

(* The highest index read in the field: the name that memcpy copies, of at *)
(* most 30 bytes, or the UUID of the last round of the loop that logs them. *)
(* That loop also takes service data, of any length.                       *)
LastRead ==
    CASE field_type \in LocalNames -> pos + 1 + Smaller(field_len - 1, 30)
      [] field_type \in UuidLists \cup {ServiceData} /\ field_len >= 2 ->
            pos + 2 * (field_len \div 2) + 1
      [] OTHER -> pos + 1

NamesField ==
    /\ pc = "names" /\ ~AtEnd
    /\ top' = Higher(LastRead)
    /\ NextField
    /\ UNCHANGED <<report, pc, is_gopro>>

(* ble_connect(disc)                                                       *)
NamesEnd ==
    /\ pc = "names" /\ AtEnd
    /\ top' = IF pos < report.len THEN Higher(pos) ELSE top
    /\ pc' = "connect"
    /\ UNCHANGED <<report, pos, i, is_gopro, n>>
-----------------------------------------------------------------------------
Init ==
    /\ report \in Reports
    /\ pc = "find" /\ pos = 0 /\ i = 0 /\ is_gopro = FALSE
    /\ top = -1 /\ n = 1

Next == FindField \/ FindUuid \/ FindEnds \/ NamesField \/ NamesEnd

(* The host task runs the callback to its end.                             *)
Spec == Init /\ [][Next]_vars /\ WF_vars(Next)
-----------------------------------------------------------------------------
(* Properties.                                                             *)

(* The fields of r fill it up to its end or to an empty field, and a list  *)
(* of 16-bit UUIDs has an even number of data bytes.                       *)
LaidOut(r) ==
    /\ r.len \in Byte /\ r.data \in [0 .. r.len + Reach - 1 -> Byte]
    /\ r.starts \in Seq(0 .. r.len) /\ r.starts # <<>> /\ r.starts[1] = 0
    /\ \A k \in 1 .. Len(r.starts) - 1 :
         LET s == r.starts[k] IN
         /\ s < r.len /\ r.data[s] # 0
         /\ r.starts[k + 1] = s + r.data[s] + 1
         /\ r.data[s + 1] \in UuidLists => r.data[s] % 2 = 1
    /\ LET end == r.starts[Len(r.starts)] IN end = r.len \/ r.data[end] = 0

Fields(r) == 1 .. Len(r.starts) - 1
Length(r, k) == r.data[r.starts[k]]
Type(r, k) == r.data[r.starts[k] + 1]

(* Field k of r is a list that has the GoPro service at the offset j.      *)
ListsGoPro(r, k, j) ==
    /\ Type(r, k) \in UuidLists
    /\ j % 2 = 0 /\ j >= 2 /\ j + 1 <= Length(r, k)
    /\ <<r.data[r.starts[k] + j], r.data[r.starts[k] + j + 1]>> = GoProService

IsGoPro(r) == \E k \in Fields(r) : \E j \in 2 .. Length(r, k) : ListsGoPro(r, k, j)

(* Of the devices whose reports are laid out in fields, ble_connect gets   *)
(* exactly those that list the GoPro service among their 16-bit services,  *)
(* wherever in whichever list; the same two bytes in a name, in service    *)
(* data, across two fields or behind the report do not count (gap.c, the   *)
(* first walk of the case DISC).                                           *)
Recognised ==
    LaidOut(report) => /\ pc = "connect" => IsGoPro(report)
                       /\ pc = "ignored" => ~IsGoPro(report)

(* The last field of r is service data with an odd number of data bytes.   *)
EndsInOddData(r) ==
    \E k \in Fields(r) : /\ r.starts[k + 1] = r.len
                         /\ Type(r, k) = ServiceData /\ Length(r, k) % 2 = 0

(* Whatever a report says, no read goes further behind it than one length  *)
(* byte leads, however many fields or UUIDs were passed; and a report laid *)
(* out in fields is read to its end and no further, unless it ends in      *)
(* service data of odd size (gap.c, both walks of the case DISC).          *)
ReadsBounded ==
    /\ top < report.len + Reach
    /\ LaidOut(report) /\ ~EndsInOddData(report) => top < report.len

(* What is read of a report lies inside it: it has length_data bytes       *)
(* (gap.c:123, "Raw Advertisement Data (%d bytes):").                      *)
ReadsInside == top < report.len

(* Both walks end, whatever the report (gap.c, the case DISC: every round  *)
(* of either loop moves pos or i on).                                      *)
Decides == <>(pc \in {"connect", "ignored"})
=============================================================================
