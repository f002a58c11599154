--------------------------- MODULE AdvReportProofs ---------------------------
(***************************************************************************)
(* For reports of any length and any number of fields: gap.c recognises    *)
(* exactly the devices that list the GoPro service, reads no byte outside  *)
(* a report laid out in fields but the one after service data of odd size, *)
(* and goes no further behind any other than a length byte leads.          *)
(***************************************************************************)
EXTENDS AdvReport, TLAPS

(* In a report laid out in fields, the walk stands at the start of field n, *)
(* or, once n is past the last field, at the end of the report.            *)
AtField ==
    /\ LaidOut(report)
    /\ pc \in {"find", "names", "ignored", "connect"}
    /\ n \in 1 .. Len(report.starts) /\ pos = report.starts[n]
    /\ i \in Nat /\ is_gopro \in BOOLEAN /\ top \in Int

(* Inside the loop over UUIDs, a whole UUID is left at the offset i.       *)
InList ==
    i # 0 => /\ pc = "find" /\ n \in Fields(report)
             /\ Type(report, n) \in UuidLists
             /\ i % 2 = 0 /\ i >= 2 /\ i + 1 <= Length(report, n)

(* The GoPro service was in a field before field n, or in this one before  *)
(* the offset i.                                                           *)
Seen(k, m) ==
    \/ \E f \in 1 .. k - 1 : \E j \in 2 .. Length(report, f) : ListsGoPro(report, f, j)
    \/ \E j \in 2 .. m - 1 : k \in Fields(report) /\ ListsGoPro(report, k, j)

FoundSoFar ==
    /\ pc = "find" => (is_gopro <=> Seen(n, i))
    /\ pc \in {"names", "connect"} => IsGoPro(report)
    /\ pc = "ignored" => ~IsGoPro(report)

InsideOrOdd == top < report.len \/ (top = report.len /\ EndsInOddData(report))

ReadSoFar == IF pc \in {"find", "ignored"} THEN top < report.len ELSE InsideOrOdd

Inv == AtField /\ InList /\ FoundSoFar /\ ReadSoFar

LEMMA ElementType ==
    ASSUME NEW S, NEW s \in Seq(S), NEW k \in 1 .. Len(s)
    PROVE  s[k] \in S
OBVIOUS

(* What LaidOut says of one field, and of the end.                         *)
LEMMA FieldLayout ==
    ASSUME NEW r, LaidOut(r), NEW k \in Fields(r)
    PROVE  /\ r.len \in Nat /\ r.starts[k] \in Nat /\ Length(r, k) \in 1 .. 255
           /\ r.starts[k + 1] = r.starts[k] + Length(r, k) + 1
           /\ r.starts[k + 1] <= r.len
           /\ Type(r, k) \in Byte
           /\ Type(r, k) \in UuidLists => Length(r, k) % 2 = 1
           /\ k + 1 \in 1 .. Len(r.starts)
<1>1. LaidOut(r)
    OBVIOUS
<1>2. r.len \in 0 .. 255 /\ r.data \in [0 .. r.len + 254 -> 0 .. 255] /\ r.starts \in Seq(0 .. r.len)
    BY <1>1 DEF LaidOut, Byte, Reach
<1>3. k \in 1 .. Len(r.starts) /\ k + 1 \in 1 .. Len(r.starts)
    BY <1>2 DEF Fields
<1>4. /\ r.starts[k] < r.len /\ r.data[r.starts[k]] # 0
      /\ r.starts[k + 1] = r.starts[k] + r.data[r.starts[k]] + 1
    BY <1>1 DEF LaidOut, Fields
<1>5. r.data[r.starts[k] + 1] \in UuidLists => r.data[r.starts[k]] % 2 = 1
    BY <1>1 DEF LaidOut, Fields
<1>6. r.starts[k] \in 0 .. r.len /\ r.starts[k + 1] \in 0 .. r.len
    BY <1>2, <1>3, ElementType
<1>7. r.len \in Nat /\ r.starts[k] \in Nat /\ r.starts[k + 1] \in Nat
    <2>1. r.len \in 0 .. 255
        BY <1>1 DEF LaidOut, Byte
    <2>2. QED
        BY <2>1, <1>6
<1>8. r.starts[k] + 1 \in 0 .. r.len
    BY <1>4, <1>7
<1>9. r.data[r.starts[k]] \in 0 .. 255 /\ r.data[r.starts[k] + 1] \in 0 .. 255
    <2>1. r.starts[k] \in 0 .. r.len + 254 /\ r.starts[k] + 1 \in 0 .. r.len + 254
        BY <1>6, <1>7, <1>8
    <2>2. r.data \in [0 .. r.len + 254 -> 0 .. 255]
        BY <1>2
    <2>3. QED
        BY <2>1, <2>2
<1>10. r.data[r.starts[k]] \in 1 .. 255
    BY <1>4, <1>9
<1>11. r.starts[k + 1] <= r.len
    BY <1>2, <1>6
<1>12. QED
    BY <1>3, <1>4, <1>5, <1>7, <1>9, <1>10, <1>11 DEF Length, Type, Byte

LEMMA EndLayout ==
    ASSUME NEW r, LaidOut(r)
    PROVE  /\ r.len \in Nat /\ Len(r.starts) \in Nat \ {0} /\ r.starts[1] = 0
           /\ r.starts[Len(r.starts)] \in 0 .. r.len
           /\ r.starts[Len(r.starts)] = r.len \/ r.data[r.starts[Len(r.starts)]] = 0
<1>1. /\ r.len \in 0 .. 255 /\ r.starts \in Seq(0 .. r.len) /\ r.starts # <<>>
      /\ r.starts[1] = 0
      /\ r.starts[Len(r.starts)] = r.len \/ r.data[r.starts[Len(r.starts)]] = 0
    BY DEF LaidOut, Byte
<1>2. Len(r.starts) \in Nat \ {0}
    BY <1>1
<1>3. Len(r.starts) \in 1 .. Len(r.starts)
    BY <1>2
<1>4. r.starts[Len(r.starts)] \in 0 .. r.len
    BY <1>1, <1>3, ElementType
<1>5. r.len \in Nat
    <2>1. r.len \in 0 .. 255
        BY <1>1
    <2>2. QED
        BY <2>1
<1>6. QED
    BY <1>1, <1>2, <1>4, <1>5

(* The walk is at its end exactly when no field is left.                   *)
LEMMA EndOfWalk ==
    ASSUME AtField
    PROVE  AtEnd <=> n \notin Fields(report)
<1>1. CASE n \in Fields(report)
    <2>1. pos + Length(report, n) + 1 <= report.len /\ Length(report, n) \in 1 .. 255
          /\ pos \in Nat /\ report.len \in Nat
        BY <1>1, FieldLayout DEF AtField
    <2>2. report.starts[n] = pos
        BY DEF AtField
    <2>3. report.data[pos] \in 1 .. 255
        BY <2>1, <2>2 DEF Length
    <2>4. QED
        BY <1>1, <2>1, <2>3 DEF AtEnd, field_len
<1>2. CASE n \notin Fields(report)
    <2>1. n = Len(report.starts)
        BY <1>2, EndLayout DEF AtField, Fields
    <2>2. pos \in 0 .. report.len /\ report.len \in Nat /\ (pos = report.len \/ report.data[pos] = 0)
        BY <2>1, EndLayout DEF AtField
    <2>3. QED
        BY <1>2, <2>2 DEF AtEnd, field_len
<1>3. QED
    BY <1>1, <1>2

(* Moving on from a field stands at the next.                              *)
LEMMA MovesOn ==
    ASSUME AtField, n \in Fields(report), NextField, report' = report
    PROVE  n' = n + 1 /\ n' \in 1 .. Len(report.starts) /\ pos' = report.starts[n'] /\ i' = 0
BY FieldLayout DEF AtField, NextField, field_len, Length, Fields

LEMMA InitInv == Init /\ LaidOut(report) => Inv
<1> SUFFICES ASSUME Init, LaidOut(report) PROVE Inv
    OBVIOUS
<1>1. LaidOut(report) /\ pos = 0 /\ i = 0 /\ n = 1 /\ pc = "find" /\ is_gopro = FALSE /\ top = -1
    BY DEF Init
<1>2. AtField
    <2>1. Len(report.starts) \in Nat \ {0} /\ report.starts[1] = 0
        BY <1>1, EndLayout
    <2>2. 1 \in 1 .. Len(report.starts) /\ pos = report.starts[1]
        BY <1>1, <2>1
    <2>3. i \in Nat /\ top \in Int
        BY <1>1
    <2>4. is_gopro \in BOOLEAN
        BY <1>1
    <2>5. QED
        BY <1>1, <2>2, <2>3, <2>4 DEF AtField
<1>3. ~Seen(1, 0)
    BY DEF Seen
<1>4. InList /\ FoundSoFar
    BY <1>1, <1>3 DEF InList, FoundSoFar
<1>5. ReadSoFar
    BY <1>1, EndLayout DEF ReadSoFar
<1>6. QED
    BY <1>2, <1>4, <1>5 DEF Inv
-----------------------------------------------------------------------------
(* The lists passed and those still to come make up IsGoPro.               *)
LEMMA SeenAll ==
    ASSUME AtField, n \notin Fields(report)
    PROVE  Seen(n, 0) <=> IsGoPro(report)
<1>1. Fields(report) = 1 .. n - 1
    BY EndLayout DEF AtField, Fields
<1>2. QED
    BY <1>1 DEF Seen, IsGoPro

(* Passing a field that has the GoPro service at no offset from m on.      *)
LEMMA SeenNext ==
    ASSUME NEW r, LaidOut(r), NEW k \in Fields(r), report = r, NEW m \in Nat,
           \A j \in 2 .. Length(r, k) : j >= m => ~ListsGoPro(r, k, j)
    PROVE  Seen(k + 1, 0) <=> Seen(k, m)
<1>1. k \in Nat /\ Length(r, k) \in Nat
    <2>1. k \in Nat
        BY EndLayout DEF Fields
    <2>2. Length(r, k) \in 1 .. 255
        BY FieldLayout
    <2>3. QED
        BY <2>1, <2>2
<1>2. 1 .. (k + 1) - 1 = (1 .. k - 1) \cup {k}
    BY <1>1 DEF Fields
<1>3. \A j \in 2 .. 0 - 1 : FALSE
    OBVIOUS
<1>4. \A j \in Int : ListsGoPro(r, k, j) => j \in 2 .. Length(r, k)
    BY <1>1 DEF ListsGoPro
<1>5. (\E j \in 2 .. Length(r, k) : ListsGoPro(r, k, j))
      <=> (\E j \in 2 .. m - 1 : ListsGoPro(r, k, j))
    BY <1>1, <1>4
<1>6. QED
    BY <1>2, <1>3, <1>5 DEF Seen

LEMMA FindFieldInv == Inv /\ FindField => Inv'
<1> SUFFICES ASSUME Inv, FindField PROVE Inv'
    OBVIOUS
<1> USE DEF Inv
<1>1. n \in Fields(report) /\ LaidOut(report) /\ report' = report /\ pc = "find" /\ pc' = "find"
      /\ i = 0 /\ is_gopro' = is_gopro
    BY EndOfWalk DEF FindField, AtField
<1>2. field_len = Length(report, n) /\ field_type = Type(report, n) /\ pos = report.starts[n]
    BY DEF AtField, field_len, field_type, Length, Type
<1>3. /\ report.len \in Nat /\ pos \in Nat /\ field_len \in 1 .. 255
      /\ pos + field_len + 1 <= report.len
      /\ field_type \in UuidLists => field_len % 2 = 1
    BY <1>1, <1>2, FieldLayout
<1>4. top' \in Int /\ top' < report.len
    <2>1. top \in Int /\ top < report.len
        BY <1>1 DEF AtField, ReadSoFar
    <2>2. QED
        BY <1>3, <2>1 DEF FindField, Higher
<1>5. ReadSoFar'
    BY <1>1, <1>4 DEF ReadSoFar
<1>6. CASE field_type \in UuidLists /\ field_len >= 2
    <2>1. i' = 2 /\ pos' = pos /\ n' = n
        BY <1>6 DEF FindField
    <2>2. AtField'
        BY <1>1, <1>4, <2>1 DEF AtField
    <2>3. field_len % 2 = 1 /\ field_len \in Nat
        BY <1>3, <1>6
    <2>4. 2 + 1 <= field_len
        BY <2>3, <1>6
    <2>5. InList'
        BY <1>1, <1>2, <1>6, <2>1, <2>4 DEF InList, Fields, Type, Length
    <2>6. Seen(n, 0) <=> Seen(n, 2)
        BY DEF Seen
    <2>7. (Seen(n, i))' <=> Seen(n, 2)
        BY <1>1, <2>1 DEF Seen, ListsGoPro, Type, Length, Fields
    <2>8. FoundSoFar'
        BY <1>1, <2>6, <2>7 DEF FoundSoFar
    <2>9. QED
        BY <1>5, <2>2, <2>5, <2>8
<1>7. CASE ~(field_type \in UuidLists /\ field_len >= 2)
    <2>1. NextField
        BY <1>7 DEF FindField
    <2>2. n' = n + 1 /\ n' \in 1 .. Len(report.starts) /\ pos' = report.starts[n'] /\ i' = 0
        BY <1>1, <2>1, MovesOn
    <2>3. AtField'
        BY <1>1, <1>4, <2>2 DEF AtField
    <2>4. InList'
        BY <2>2 DEF InList
    <2>5. \A j \in 2 .. Length(report, n) : ~ListsGoPro(report, n, j)
        BY <1>2, <1>3, <1>7 DEF ListsGoPro
    <2>6. Seen(n + 1, 0) <=> Seen(n, 0)
        BY <1>1, <2>5, SeenNext
    <2>7. (Seen(n, i))' <=> Seen(n + 1, 0)
        BY <1>1, <2>2 DEF Seen, ListsGoPro, Type, Length, Fields
    <2>8. FoundSoFar'
        BY <1>1, <2>6, <2>7 DEF FoundSoFar
    <2>9. QED
        BY <1>5, <2>3, <2>4, <2>8
<1>8. QED
    BY <1>6, <1>7

LEMMA FindUuidInv == Inv /\ FindUuid => Inv'
<1> SUFFICES ASSUME Inv, FindUuid PROVE Inv'
    OBVIOUS
<1> USE DEF Inv
<1>1. /\ n \in Fields(report) /\ LaidOut(report) /\ report' = report
      /\ pc = "find" /\ pc' = "find" /\ i # 0
    BY DEF FindUuid, AtField, InList
<1>2. field_len = Length(report, n) /\ field_type = Type(report, n) /\ pos = report.starts[n]
    BY DEF AtField, field_len, field_type, Length, Type
<1>3. /\ report.len \in Nat /\ pos \in Nat /\ field_len \in 1 .. 255
      /\ pos + field_len + 1 <= report.len
      /\ field_type \in UuidLists => field_len % 2 = 1
    BY <1>1, <1>2, FieldLayout
<1>4. i \in Nat /\ i % 2 = 0 /\ i >= 2 /\ i + 1 <= field_len /\ field_type \in UuidLists
    BY <1>1, <1>2 DEF InList, AtField
<1>5. top' \in Int /\ top' < report.len
    <2>1. top \in Int /\ top < report.len
        BY <1>1 DEF AtField, ReadSoFar
    <2>2. top' = Higher(pos + i + 1)
        BY DEF FindUuid
    <2>3. pos + i + 1 \in Nat /\ pos + i + 1 < report.len
        BY <1>3, <1>4
    <2>4. QED
        BY <1>3, <2>1, <2>2, <2>3 DEF Higher
<1>6. ReadSoFar'
    BY <1>1, <1>5 DEF ReadSoFar
<1>7. is_gopro' = (is_gopro \/ svc_uuid = GoProService) /\ is_gopro' \in BOOLEAN
    BY DEF FindUuid
<1>8. svc_uuid = GoProService <=> ListsGoPro(report, n, i)
    BY <1>2, <1>4 DEF svc_uuid, ListsGoPro
<1>9. ~ListsGoPro(report, n, i + 1)
    BY <1>4 DEF ListsGoPro
<1>10. is_gopro <=> Seen(n, i)
    BY <1>1 DEF FoundSoFar
<1>11. 2 .. (i + 2) - 1 = (2 .. i - 1) \cup {i, i + 1}
    BY <1>4
<1>12. is_gopro' <=> Seen(n, i + 2)
    BY <1>1, <1>7, <1>8, <1>9, <1>10, <1>11 DEF Seen
<1>13. CASE i + 2 < field_len + 1
    <2>1. i' = i + 2 /\ pos' = pos /\ n' = n
        BY <1>13 DEF FindUuid
    <2>2. AtField'
        BY <1>1, <1>4, <1>5, <1>7, <2>1 DEF AtField
    <2>3. (i + 2) % 2 = 0 /\ i + 2 >= 2 /\ i + 2 + 1 <= field_len
        BY <1>3, <1>4, <1>13
    <2>4. InList'
        BY <1>1, <1>2, <1>4, <2>1, <2>3 DEF InList, Fields, Type, Length
    <2>5. (Seen(n, i))' <=> Seen(n, i + 2)
        BY <1>1, <2>1 DEF Seen, ListsGoPro, Type, Length, Fields
    <2>6. FoundSoFar'
        BY <1>1, <1>12, <2>5 DEF FoundSoFar
    <2>7. QED
        BY <1>6, <2>2, <2>4, <2>6
<1>14. CASE ~(i + 2 < field_len + 1)
    <2>1. NextField
        BY <1>14 DEF FindUuid
    <2>2. n' = n + 1 /\ n' \in 1 .. Len(report.starts) /\ pos' = report.starts[n'] /\ i' = 0
        BY <1>1, <2>1, MovesOn
    <2>3. AtField'
        BY <1>1, <1>5, <1>7, <2>2 DEF AtField
    <2>4. InList'
        BY <2>2 DEF InList
    <2>5. \A j \in 2 .. Length(report, n) : j >= i + 2 => ~ListsGoPro(report, n, j)
        BY <1>2, <1>3, <1>4, <1>14
    <2>6. Seen(n + 1, 0) <=> Seen(n, i + 2)
        BY <1>1, <1>4, <2>5, SeenNext
    <2>7. (Seen(n, i))' <=> Seen(n + 1, 0)
        BY <1>1, <2>2 DEF Seen, ListsGoPro, Type, Length, Fields
    <2>8. FoundSoFar'
        BY <1>1, <1>12, <2>6, <2>7 DEF FoundSoFar
    <2>9. QED
        BY <1>6, <2>3, <2>4, <2>8
<1>15. QED
    BY <1>13, <1>14

LEMMA FindEndsInv == Inv /\ FindEnds => Inv'
<1> SUFFICES ASSUME Inv, FindEnds PROVE Inv'
    OBVIOUS
<1> USE DEF Inv
<1>1. /\ report' = report /\ LaidOut(report) /\ pc = "find" /\ i = 0 /\ i' = 0
      /\ is_gopro' = is_gopro /\ is_gopro \in BOOLEAN
    BY DEF FindEnds, AtField
<1>2. n \notin Fields(report)
    BY EndOfWalk DEF FindEnds
<1>3. is_gopro <=> IsGoPro(report)
    BY <1>1, <1>2, SeenAll DEF FoundSoFar
<1>4. top' \in Int /\ top' < report.len
    <2>1. top \in Int /\ top < report.len
        BY <1>1 DEF AtField, ReadSoFar
    <2>2. pos \in 0 .. report.len /\ report.len \in Nat
        <3>1. n = Len(report.starts)
            BY <1>1, <1>2, EndLayout DEF AtField, Fields
        <3>2. QED
            BY <1>1, <3>1, EndLayout DEF AtField
    <2>3. QED
        BY <2>1, <2>2 DEF FindEnds, Higher
<1>5. InList'
    BY <1>1 DEF InList
<1>6. CASE is_gopro
    <2>1. pc' = "names" /\ pos' = 0 /\ n' = 1
        BY <1>6 DEF FindEnds
    <2>2. 1 \in 1 .. Len(report.starts) /\ report.starts[1] = 0
        BY <1>1, EndLayout
    <2>3. AtField'
        BY <1>1, <1>4, <2>1, <2>2 DEF AtField
    <2>4. FoundSoFar'
        BY <1>1, <1>3, <1>6, <2>1 DEF FoundSoFar
    <2>5. ReadSoFar'
        BY <1>1, <1>4, <2>1 DEF ReadSoFar, InsideOrOdd
    <2>6. QED
        BY <1>5, <2>3, <2>4, <2>5
<1>7. CASE ~is_gopro
    <2>1. pc' = "ignored" /\ pos' = pos /\ n' = n
        BY <1>7 DEF FindEnds
    <2>2. AtField'
        BY <1>1, <1>4, <2>1 DEF AtField
    <2>3. FoundSoFar'
        BY <1>1, <1>3, <1>7, <2>1 DEF FoundSoFar
    <2>4. ReadSoFar'
        BY <1>1, <1>4, <2>1 DEF ReadSoFar
    <2>5. QED
        BY <1>5, <2>2, <2>3, <2>4
<1>8. QED
    BY <1>6, <1>7

(* What a field of the second walk reads lies in the field, or it is the   *)
(* byte after service data of odd size.                                    *)
LEMMA LastReadBound ==
    ASSUME AtField, n \in Fields(report)
    PROVE  /\ LastRead \in Nat /\ LastRead <= report.len
           /\ LastRead = report.len => EndsInOddData(report)
<1>1. field_len = Length(report, n) /\ field_type = Type(report, n) /\ pos = report.starts[n]
    BY DEF AtField, field_len, field_type, Length, Type
<1>2. /\ LaidOut(report) /\ report.len \in Nat /\ pos \in Nat /\ field_len \in 1 .. 255
      /\ pos + field_len + 1 <= report.len /\ report.starts[n + 1] = pos + field_len + 1
      /\ field_type \in UuidLists => field_len % 2 = 1
    BY <1>1, FieldLayout DEF AtField
<1>3. CASE field_type \in LocalNames
    <2>1. field_type \notin UuidLists \cup {ServiceData}
        BY <1>3 DEF UuidLists, ServiceData, LocalNames
    <2>2. LastRead = pos + 1 + Smaller(field_len - 1, 30)
        BY <1>3, <2>1 DEF LastRead
    <2>3. QED
        BY <1>2, <2>2 DEF Smaller
<1>4. CASE field_type \in UuidLists \cup {ServiceData} /\ field_len >= 2
    <2>1. field_type \notin LocalNames
        BY <1>4 DEF UuidLists, ServiceData, LocalNames
    <2>2. LastRead = pos + 2 * (field_len \div 2) + 1
        BY <1>4, <2>1 DEF LastRead
    <2>3. CASE field_len % 2 = 1
        <3>1. 2 * (field_len \div 2) = field_len - 1
            BY <1>2, <2>3
        <3>2. QED
            BY <1>2, <2>2, <3>1
    <2>4. CASE field_len % 2 = 0
        <3>1. 2 * (field_len \div 2) = field_len
            BY <1>2, <2>4
        <3>2. Type(report, n) = ServiceData /\ Length(report, n) % 2 = 0
            BY <1>1, <1>2, <1>4, <2>4
        <3>3. LastRead = pos + field_len + 1
            BY <2>2, <3>1
        <3>4. LastRead = report.len => report.starts[n + 1] = report.len
            BY <1>2, <3>3
        <3>5. QED
            BY <1>2, <3>2, <3>3, <3>4 DEF EndsInOddData
    <2>5. QED
        BY <1>2, <2>3, <2>4
<1>5. CASE field_type \notin LocalNames /\ ~(field_type \in UuidLists \cup {ServiceData} /\ field_len >= 2)
    <2>1. LastRead = pos + 1
        BY <1>5 DEF LastRead
    <2>2. QED
        BY <1>2, <2>1
<1>6. QED
    BY <1>3, <1>4, <1>5

LEMMA NamesFieldInv == Inv /\ NamesField => Inv'
<1> SUFFICES ASSUME Inv, NamesField PROVE Inv'
    OBVIOUS
<1> USE DEF Inv
<1>1. /\ report' = report /\ LaidOut(report) /\ pc = "names" /\ pc' = "names"
      /\ is_gopro' = is_gopro /\ NextField /\ top' = Higher(LastRead) /\ n \in Fields(report)
    BY EndOfWalk DEF NamesField, AtField
<1>2. n' \in 1 .. Len(report.starts) /\ pos' = report.starts[n'] /\ i' = 0
    BY <1>1, MovesOn
<1>3. InsideOrOdd /\ top \in Int /\ report.len \in Nat
    BY <1>1, EndLayout DEF ReadSoFar, AtField
<1>4. /\ LastRead \in Nat /\ LastRead <= report.len
      /\ LastRead = report.len => EndsInOddData(report)
    BY <1>1, LastReadBound
<1>5. top' \in Int /\ (top' < report.len \/ (top' = report.len /\ EndsInOddData(report)))
    BY <1>1, <1>3, <1>4 DEF InsideOrOdd, Higher
<1>6. AtField'
    BY <1>1, <1>2, <1>5 DEF AtField
<1>7. InList' /\ FoundSoFar'
    BY <1>1, <1>2 DEF InList, FoundSoFar
<1>8. (EndsInOddData(report))' <=> EndsInOddData(report)
    BY <1>1 DEF EndsInOddData, Fields, Type, Length
<1>9. ReadSoFar'
    BY <1>1, <1>5, <1>8 DEF ReadSoFar, InsideOrOdd
<1>10. QED
    BY <1>6, <1>7, <1>9

LEMMA NamesEndInv == Inv /\ NamesEnd => Inv'
<1> SUFFICES ASSUME Inv, NamesEnd PROVE Inv'
    OBVIOUS
<1> USE DEF Inv
<1>1. /\ report' = report /\ LaidOut(report) /\ pc = "names" /\ pc' = "connect"
      /\ pos' = pos /\ i' = i /\ is_gopro' = is_gopro /\ n' = n
    BY DEF NamesEnd, AtField
<1>2. InsideOrOdd /\ top \in Int /\ report.len \in Nat /\ pos \in 0 .. report.len
    <2>1. n \notin Fields(report)
        BY EndOfWalk DEF NamesEnd
    <2>2. n = Len(report.starts)
        BY <1>1, <2>1, EndLayout DEF AtField, Fields
    <2>3. QED
        BY <1>1, <2>2, EndLayout DEF ReadSoFar, AtField
<1>3. top' \in Int /\ (top' < report.len \/ top' = top)
    BY <1>2 DEF NamesEnd, Higher
<1>4. AtField'
    BY <1>1, <1>3 DEF AtField
<1>5. InList' /\ FoundSoFar'
    BY <1>1 DEF InList, FoundSoFar
<1>6. (EndsInOddData(report))' <=> EndsInOddData(report)
    BY <1>1 DEF EndsInOddData, Fields, Type, Length
<1>7. ReadSoFar'
    BY <1>1, <1>2, <1>3, <1>6 DEF ReadSoFar, InsideOrOdd
<1>8. QED
    BY <1>4, <1>5, <1>7

LEMMA NextInv == Inv /\ [Next]_vars => Inv'
<1>1. Inv /\ UNCHANGED vars => Inv'
    BY DEF Inv, vars, AtField, InList, FoundSoFar, ReadSoFar, Seen, InsideOrOdd, IsGoPro,
           ListsGoPro, EndsInOddData, Fields, Type, Length
<1>2. QED
    BY <1>1, FindFieldInv, FindUuidInv, FindEndsInv, NamesFieldInv, NamesEndInv DEF Next

-----------------------------------------------------------------------------
(* Any report.                                                             *)

(* In every round the length byte at pos is the report's own, and the loop *)
(* over UUIDs keeps i within that length.                                  *)
AnyReport ==
    /\ report \in Reports
    /\ pos \in Nat /\ i \in Nat /\ top \in Int
    /\ i # 0 => /\ pc = "find" /\ pos < report.len
                /\ i % 2 = 0 /\ i < field_len + 1
    /\ top < report.len + Reach

LEMMA ReportLength == ASSUME report \in Reports PROVE report.len \in Nat
<1>1. report.len \in 0 .. 255
    BY ReportsAssumption DEF Byte
<1> QED BY <1>1

LEMMA LengthByte ==
    ASSUME report \in Reports, pos \in Nat, pos < report.len
    PROVE  field_len \in 0 .. 255 /\ report.len \in Nat
<1>1. report.len \in Nat
    BY ReportLength
<1>2. report.data \in [0 .. report.len + Reach - 1 -> 0 .. 255]
    BY ReportsAssumption DEF Byte
<1>3. pos \in 0 .. report.len + Reach - 1
    BY <1>1 DEF Reach
<1> QED BY <1>1, <1>2, <1>3 DEF field_len

LEMMA AnyReportInit == Init => AnyReport
BY ReportLength DEF Init, AnyReport, Reach

LEMMA AnyReportStep == AnyReport /\ [Next]_vars => AnyReport'
<1> SUFFICES ASSUME AnyReport, [Next]_vars PROVE AnyReport'
    OBVIOUS
<1> USE DEF AnyReport
<1>1. report.len \in Nat
    BY ReportLength
<1>2. CASE FindField
    <2>1. pos < report.len /\ i = 0 /\ report' = report /\ pc' = "find" /\ pc = "find"
        BY <1>1, <1>2 DEF FindField, AtEnd
    <2>2. field_len \in 0 .. 255
        BY <2>1, LengthByte
    <2>3. top' \in Int /\ top' < report.len + Reach
        BY <1>1, <1>2, <2>1 DEF FindField, Higher, Reach
    <2>4. CASE field_type \in UuidLists /\ field_len >= 2
        <3>1. i' = 2 /\ pos' = pos
            BY <1>2, <2>4 DEF FindField
        <3>2. field_len' = field_len
            BY <2>1, <3>1 DEF field_len
        <3> QED BY <2>1, <2>2, <2>3, <2>4, <3>1, <3>2
    <2>5. CASE ~(field_type \in UuidLists /\ field_len >= 2)
        <3>1. i' = 0 /\ pos' = pos + field_len + 1
            BY <1>2, <2>5 DEF FindField, NextField
        <3> QED BY <2>1, <2>2, <2>3, <3>1
    <2> QED BY <2>4, <2>5
<1>3. CASE FindUuid
    <2>1. pos < report.len /\ i # 0 /\ report' = report /\ pc' = "find" /\ pc = "find"
        BY <1>3 DEF FindUuid
    <2>2. field_len \in 0 .. 255
        BY <2>1, LengthByte
    <2>3. i % 2 = 0 /\ i < field_len + 1
        BY <2>1
    <2>4. i <= 254
        BY <2>2, <2>3
    <2>5. top' \in Int /\ top' < report.len + Reach
        BY <1>1, <1>3, <2>1, <2>4 DEF FindUuid, Higher, Reach
    <2>6. CASE i + 2 < field_len + 1
        <3>1. i' = i + 2 /\ pos' = pos
            BY <1>3, <2>6 DEF FindUuid
        <3>2. field_len' = field_len
            BY <2>1, <3>1 DEF field_len
        <3>3. (i + 2) % 2 = 0
            BY <2>3
        <3> QED BY <2>1, <2>5, <2>6, <3>1, <3>2, <3>3
    <2>7. CASE ~(i + 2 < field_len + 1)
        <3>1. i' = 0 /\ pos' = pos + field_len + 1
            BY <1>3, <2>7 DEF FindUuid, NextField
        <3> QED BY <2>1, <2>2, <2>5, <3>1
    <2> QED BY <2>6, <2>7
<1>4. CASE FindEnds
    <2>1. report' = report /\ i' = 0 /\ pos' \in Nat
        BY <1>4 DEF FindEnds
    <2>2. top' \in Int /\ top' < report.len + Reach
        BY <1>1, <1>4 DEF FindEnds, Higher, Reach
    <2> QED BY <2>1, <2>2
<1>5. CASE NamesField
    <2>1. pos < report.len /\ report' = report /\ i = 0
        BY <1>1, <1>5 DEF NamesField, AtEnd
    <2>2. field_len \in 0 .. 255 /\ field_len # 0
        BY <1>5, <2>1, LengthByte DEF NamesField, AtEnd
    <2>3. field_len \div 2 \in Nat /\ 2 * (field_len \div 2) <= 254
        BY <2>2
    <2>4. LastRead \in Nat /\ LastRead <= pos + 255
        <3>1. CASE field_type \in LocalNames
            <4>1. field_type \notin UuidLists \cup {ServiceData}
                BY <3>1 DEF UuidLists, ServiceData, LocalNames
            <4>2. LastRead = pos + 1 + Smaller(field_len - 1, 30)
                BY <3>1, <4>1 DEF LastRead
            <4> QED BY <2>2, <4>2 DEF Smaller
        <3>2. CASE field_type \in UuidLists \cup {ServiceData} /\ field_len >= 2
            <4>1. field_type \notin LocalNames
                BY <3>2 DEF UuidLists, ServiceData, LocalNames
            <4>2. LastRead = pos + 2 * (field_len \div 2) + 1
                BY <3>2, <4>1 DEF LastRead
            <4> QED BY <2>3, <4>2
        <3>3. CASE /\ field_type \notin LocalNames
                   /\ ~(field_type \in UuidLists \cup {ServiceData} /\ field_len >= 2)
            <4>1. LastRead = pos + 1
                BY <3>3 DEF LastRead
            <4> QED BY <4>1
        <3> QED BY <3>1, <3>2, <3>3
    <2>5. top' \in Int /\ top' < report.len + Reach
        BY <1>1, <1>5, <2>1, <2>4 DEF NamesField, Higher, Reach
    <2>6. i' = 0 /\ pos' \in Nat
        BY <1>5, <2>2 DEF NamesField, NextField
    <2> QED BY <2>1, <2>5, <2>6
<1>6. CASE NamesEnd
    <2>1. report' = report /\ i' = i /\ pos' = pos /\ i = 0
        BY <1>6 DEF NamesEnd
    <2>2. top' \in Int /\ top' < report.len + Reach
        BY <1>1, <1>6 DEF NamesEnd, Higher, Reach
    <2> QED BY <2>1, <2>2
<1>7. CASE UNCHANGED vars
    BY <1>7 DEF vars, field_len
<1> QED BY <1>2, <1>3, <1>4, <1>5, <1>6, <1>7 DEF Next

WalkInv == AnyReport /\ (LaidOut(report) => Inv)

LEMMA WalkInvariant == Spec => []WalkInv
<1>1. Init => WalkInv
    BY AnyReportInit, InitInv DEF WalkInv
<1>2. WalkInv /\ [Next]_vars => WalkInv'
    <2> SUFFICES ASSUME WalkInv, [Next]_vars PROVE WalkInv'
        OBVIOUS
    <2>1. AnyReport'
        BY AnyReportStep DEF WalkInv
    <2>2. report' = report
        BY DEF Next, FindField, FindUuid, FindEnds, NamesField, NamesEnd, vars
    <2>3. LaidOut(report') => LaidOut(report)
        BY <2>2
    <2>4. LaidOut(report) => Inv'
        BY NextInv DEF WalkInv
    <2> QED BY <2>1, <2>3, <2>4 DEF WalkInv
<1> QED BY <1>1, <1>2, PTL DEF Spec

(* Of the devices whose reports are laid out in fields, ble_connect gets   *)
(* exactly those one of whose lists of 16-bit services has the GoPro       *)
(* service (gap.c, the case DISC), for reports of any length.              *)
THEOREM RecognisesGoPros == Spec => []Recognised
<1>1. WalkInv => Recognised
    BY DEF WalkInv, Inv, FoundSoFar, Recognised
<1> QED BY <1>1, WalkInvariant, PTL

(* Whatever a report says, no read goes further behind it than one length  *)
(* byte leads, and a report laid out in fields, with service data of even  *)
(* size, is not left (gap.c, the case DISC), for reports of any length.    *)
THEOREM ReadsAreBounded == Spec => []ReadsBounded
<1>1. WalkInv => ReadsBounded
    BY DEF WalkInv, AnyReport, Inv, ReadSoFar, InsideOrOdd, ReadsBounded
<1> QED BY <1>1, WalkInvariant, PTL
=============================================================================
