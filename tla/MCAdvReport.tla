----------------------------- MODULE MCAdvReport -----------------------------
(* Instances of AdvReport for TLC.                                         *)
EXTENDS AdvReport, SequencesExt

CONSTANT MaxFields      \* fields in a report

(* Fields of the kinds that advertisements of cameras and of other devices *)
(* carry.  166, 254 are the bytes of the GoPro service.                    *)
Kinds ==
    { <<2, 1, 6>>,                      \* flags
      <<1, 2>>,                         \* an empty list
      <<3, 3, 166, 254>>,               \* the GoPro service
      <<5, 2, 15, 24, 166, 254>>,       \* the GoPro service in second place
      <<5, 3, 166, 254, 15, 24>>,       \* ... in first place
      <<5, 3, 0, 166, 254, 0>>,         \* its bytes, across two UUIDs
      <<1, 9>>, <<3, 9, 166, 254>>,     \* names
      <<4, 8, 71, 111, 80>>,
      <<3, 22, 166, 254>>,              \* service data without data
      <<4, 22, 166, 254, 1>> }          \* ... with an odd number of bytes

(* Fields that no report laid out in fields has: half a UUID at the end of *)
(* a list, and lengths that lead behind any report.                        *)
OddKinds ==
    { <<4, 3, 166, 254, 15>>, <<2, 2, 166>>, <<255, 3, 166, 254>>, <<255, 9>>, <<255, 22>>,
      <<254, 22>>, <<3>>, <<255>> }

(* The report of the fields fs, then of tail, which starts with an empty   *)
(* field if it has any; behind it memory is filled with beyond.            *)
Report(fs, tail, beyond) ==
    LET bytes == FoldLeft(LAMBDA acc, f : acc \o f, <<>>, fs) \o tail
        starts == FoldLeft(LAMBDA acc, f : Append(acc, acc[Len(acc)] + Len(f)), <<0>>, fs)
    IN  [ len |-> Len(bytes), starts |-> starts,
          data |-> [k \in 0 .. Len(bytes) + Reach - 1 |->
                        IF k < Len(bytes) THEN bytes[k + 1] ELSE beyond] ]

Upto(kinds, most) == UNION {[1 .. k -> kinds] : k \in 0 .. most}

Tails == { <<>>, <<0>>, <<0, 3, 3, 166, 254>> }

WholeReports ==
    { r \in { Report(fs, tail, beyond) :
                fs \in Upto(Kinds, MaxFields), tail \in Tails, beyond \in {0, 254} } : r.len <= 31 }

(* A name as long as a report of 31 bytes allows before the service.       *)
LongName == <<26, 9>> \o [k \in 1 .. 25 |-> 71]
LongReports == { Report(<<LongName, <<3, 3, 166, 254>> >>, <<>>, 254) }

(* A report of which only the first len bytes were sent.                   *)
Cut(r, len) ==
    [r EXCEPT !.len = len, !.data = [k \in 0 .. len + Reach - 1 |-> r.data[k]]]

CutReports ==
    UNION { {Cut(r, len) : len \in 1 .. r.len - 1} :
                r \in {Report(fs, <<>>, 254) : fs \in Upto(Kinds, 2)} }

OddReports ==
    { Report(Append(fs, odd), tail, beyond) :
        fs \in Upto(Kinds, 1), odd \in OddKinds, tail \in Tails, beyond \in {0, 3, 254} }

AllReports == WholeReports \cup LongReports \cup CutReports \cup OddReports
=============================================================================
