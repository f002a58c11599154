-------------------------- MODULE RcpProgramProofs --------------------------
(***************************************************************************)
(* For any number of stations, joins, restarts and button presses: what    *)
(* the camera program keeps in flash, and what its button task reports.    *)
(***************************************************************************)
EXTENDS RcpProgram, TLAPS

(* The joins since the start are on their way to flash in the order they   *)
(* happened: those that wait, then the one being saved, then the flash.    *)
Waiting(k) == k \in 1 .. Len(events) /\ events[k] # 0

EventsInOrder ==
    /\ \A k \in 1 .. Len(events) : events[k] = 0 \/ events[k] \in since + 1 .. joins
    /\ \A k \in 1 .. Len(events) : \A l \in 1 .. Len(events) :
          k < l /\ Waiting(k) /\ Waiting(l) => events[k] < events[l]

SavingInOrder ==
    save # "idle" =>
        /\ camera_array.mac \in since + 1 .. joins
        /\ \A k \in 1 .. Len(events) : Waiting(k) => camera_array.mac < events[k]

FlashInOrder ==
    /\ flash.mac <= joins
    /\ \A k \in 1 .. Len(events) : Waiting(k) => flash.mac < events[k]
    /\ save # "idle" => flash.mac <= camera_array.mac

(* The join of last has not been lost.                                     *)
NewestKept ==
    joins > since =>
        \/ \E k \in 1 .. Len(events) : events[k] = joins
        \/ save # "idle" /\ camera_array.mac = joins
        \/ flash.mac = joins

BootState ==
    /\ since <= joins
    /\ boot \in {"nvs", "wifi"} => joins = since /\ save = "idle" /\ ~task
    /\ save = "commit" => cached = camera_array

(* A press was reported since the last one only if the task has seen the   *)
(* line high and it still is; nothing is reported of presses to come.      *)
ButtonState ==
    /\ \A k \in 0 .. MaxPresses : reports[k] <= 1 /\ (k > presses => reports[k] = 0)
    /\ reports[presses] # 0 => task /\ last_state = 1 /\ level = 1

Inv ==
    /\ TypeOK /\ BootState /\ EventsInOrder /\ SavingInOrder /\ FlashInOrder
    /\ NewestKept /\ ButtonState

SaveInv == EventsInOrder /\ SavingInOrder /\ FlashInOrder /\ NewestKept

(* The fields of a list, stored or not.                                    *)
LEMMA MacIsAJoin == \A b \in Lists \cup {NoBlob} : b.mac \in 0 .. MaxJoins
BY BoundAssumption DEF Lists, NoBlob

LEMMA NoBlobMac == NoBlob.mac = 0
BY DEF NoBlob

LEMMA NoReportsFacts ==
    /\ 0 \in 0 .. MaxPresses /\ NoReports \in [0 .. MaxPresses -> Nat]
    /\ \A k \in 0 .. MaxPresses : NoReports[k] = 0
BY BoundAssumption DEF NoReports

LEMMA InitInv == Init => Inv
<1> SUFFICES ASSUME Init PROVE Inv
    OBVIOUS
<1>1. TypeOK
    <2>1. 0 \in 0 .. MaxJoins /\ 0 \in 0 .. MaxStaConn /\ 0 \in 0 .. MaxPresses
        BY BoundAssumption
    <2>2. <<>> \in Seq(0 .. MaxJoins)
        OBVIOUS
    <2>3. QED
        BY <2>1, <2>2, NoReportsFacts DEF Init, TypeOK
<1>2. Len(events) = 0 /\ joins = 0 /\ since = 0 /\ save = "idle" /\ flash.mac = 0 /\ ~task
    BY NoBlobMac DEF Init
<1>3. BootState
    BY <1>2 DEF BootState
<1>4. SaveInv
    BY <1>2 DEF SaveInv, EventsInOrder, SavingInOrder, FlashInOrder, NewestKept, Waiting
<1>5. ButtonState
    BY NoReportsFacts DEF Init, ButtonState
<1>6. QED
    BY <1>1, <1>3, <1>4, <1>5 DEF Inv, SaveInv

(* A restart, with the flash as it was or erased.                          *)
LEMMA RestartInv == ASSUME Inv, Restart, flash' \in {flash, NoBlob} PROVE Inv'
<1>1. TypeOK /\ flash.mac <= joins
    BY DEF Inv, FlashInOrder
<1>2. joins \in 0 .. MaxJoins /\ joins \in Nat
    BY <1>1, BoundAssumption DEF TypeOK
<1>3. TypeOK'
    <2>1. 0 \in 0 .. MaxJoins /\ 0 \in 0 .. MaxStaConn /\ 0 \in 0 .. MaxPresses
        BY BoundAssumption
    <2>2. <<>> \in Seq(0 .. MaxJoins)
        OBVIOUS
    <2>3. QED
        BY <1>1, <2>1, <2>2, NoReportsFacts DEF Restart, TypeOK
<1>4. Len(events') = 0 /\ joins' = joins /\ since' = joins /\ save' = "idle" /\ ~task'
    BY DEF Restart
<1>5. flash'.mac <= joins
    BY <1>1, <1>2, NoBlobMac
<1>6. BootState'
    BY <1>2, <1>4 DEF BootState
<1>7. SaveInv'
    BY <1>2, <1>4, <1>5 DEF SaveInv, EventsInOrder, SavingInOrder, FlashInOrder, NewestKept, Waiting
<1>8. ButtonState'
    BY NoReportsFacts DEF Restart, ButtonState
<1>9. QED
    BY <1>3, <1>6, <1>7, <1>8 DEF Inv, SaveInv

LEMMA ResetInv == ASSUME Inv, Reset PROVE Inv'
BY RestartInv DEF Reset

(* Steps that leave the saving, or the button, alone.                      *)
LEMMA KeepsSave == ASSUME SaveInv, UNCHANGED saveVars PROVE SaveInv'
BY DEF SaveInv, EventsInOrder, SavingInOrder, FlashInOrder, NewestKept, Waiting, saveVars

LEMMA KeepsButton == ASSUME ButtonState, UNCHANGED buttonVars PROVE ButtonState'
BY DEF ButtonState, buttonVars

LEMMA AppMainInv == ASSUME Inv, app_main PROVE Inv'
<1>1. TypeOK /\ BootState /\ SaveInv /\ ButtonState
    BY DEF Inv, SaveInv
<1>2. CASE nvs_flash_init /\ ~Restart
    <2>1. /\ boot = "nvs" /\ boot' = "wifi" /\ flash' \in {flash, NoBlob}
          /\ UNCHANGED <<events, save, camera_array, cached, stations, joins, since, buttonVars>>
        BY <1>2 DEF nvs_flash_init
    <2>2. TypeOK'
        BY <1>1, <2>1 DEF TypeOK, buttonVars
    <2>3. BootState'
        BY <1>1, <2>1 DEF BootState, buttonVars
    <2>4. joins \in Nat /\ joins = since /\ save = "idle"
        BY <1>1, <2>1, BoundAssumption DEF TypeOK, BootState
    <2>5. EventsInOrder' /\ SavingInOrder'
        BY <1>1, <2>1 DEF SaveInv, EventsInOrder, SavingInOrder, Waiting
    <2>6. flash'.mac <= flash.mac
        <3>1. flash.mac \in 0 .. MaxJoins
            BY <1>1, MacIsAJoin DEF TypeOK
        <3>2. QED
            BY <2>1, <3>1, NoBlobMac
    <2>7. FlashInOrder'
        <3>1. flash.mac \in Int /\ flash'.mac \in Int
            BY <1>1, <2>2, MacIsAJoin DEF TypeOK
        <3>2. \A k \in 1 .. Len(events) : events[k] \in Int
            BY <1>1, BoundAssumption DEF TypeOK
        <3>3. QED
            BY <1>1, <2>1, <2>4, <2>6, <3>1, <3>2 DEF SaveInv, FlashInOrder, Waiting
    <2>8. NewestKept'
        BY <2>1, <2>4 DEF NewestKept
    <2>9. ButtonState'
        BY <1>1, <2>1, KeepsButton
    <2>10. QED
        BY <2>2, <2>3, <2>5, <2>7, <2>8, <2>9 DEF Inv
<1>3. CASE nvs_flash_init /\ Restart
    BY <1>3, RestartInv DEF nvs_flash_init
<1>4. CASE wifi_init_softap /\ ~Reset
    <2>1. boot = "wifi" /\ boot' = "button" /\ UNCHANGED <<saveVars, buttonVars>>
        BY <1>4 DEF wifi_init_softap
    <2>2. TypeOK'
        BY <1>1, <2>1 DEF TypeOK, saveVars, buttonVars
    <2>3. BootState'
        BY <1>1, <2>1 DEF BootState, saveVars
    <2>4. QED
        BY <1>1, <2>1, <2>2, <2>3, KeepsSave, KeepsButton DEF Inv, SaveInv
<1>5. CASE wifi_init_softap /\ Reset
    BY <1>5, ResetInv
<1>6. CASE CreateButtonTask
    <2>1. /\ boot' = "done" /\ UNCHANGED <<saveVars, level>>
          /\ last_state' = 0 /\ presses' = 0 /\ reports' = NoReports /\ task' = TRUE
        BY <1>6 DEF CreateButtonTask
    <2>2. level \in {0, 1}
        BY <1>1 DEF TypeOK
    <2>3. TypeOK'
        BY <1>1, <2>1, <2>2, NoReportsFacts DEF TypeOK, saveVars
    <2>4. BootState'
        BY <1>1, <2>1 DEF BootState, saveVars
    <2>5. ButtonState'
        BY <2>1, NoReportsFacts DEF ButtonState
    <2>6. QED
        BY <1>1, <2>1, <2>3, <2>4, <2>5, KeepsSave DEF Inv, SaveInv
<1>7. QED
    BY <1>2, <1>3, <1>4, <1>5, <1>6 DEF app_main

(* What an appended event leaves of those that wait.                       *)
LEMMA AppendFacts ==
    ASSUME NEW e \in 0 .. MaxJoins, events \in Seq(0 .. MaxJoins), events' = Append(events, e)
    PROVE  /\ events' \in Seq(0 .. MaxJoins) /\ Len(events') = Len(events) + 1
           /\ Len(events) \in Nat
           /\ \A k \in 1 .. Len(events) : events'[k] = events[k]
           /\ events'[Len(events) + 1] = e
OBVIOUS

LEMMA JoinInv == ASSUME Inv, Join PROVE Inv'
<1>1. TypeOK /\ BootState /\ SaveInv /\ ButtonState
    BY DEF Inv, SaveInv
<1>2. /\ boot \in {"button", "done"} /\ stations' = stations + 1 /\ stations < MaxStaConn
      /\ joins < MaxJoins /\ joins' = joins + 1 /\ events' = Append(events, joins + 1)
      /\ UNCHANGED <<boot, save, camera_array, cached, flash, since, buttonVars>>
    BY DEF Join, AccessPoint
<1>3. /\ MaxJoins \in Nat /\ MaxStaConn \in Nat /\ joins \in Nat /\ since \in Nat
      /\ since <= joins /\ stations \in Nat
    BY <1>1, BoundAssumption DEF TypeOK, BootState
<1>4. joins + 1 \in 0 .. MaxJoins /\ stations + 1 \in 0 .. MaxStaConn
    BY <1>2, <1>3
<1>5. /\ events' \in Seq(0 .. MaxJoins) /\ Len(events') = Len(events) + 1 /\ Len(events) \in Nat
      /\ \A k \in 1 .. Len(events) : events'[k] = events[k] /\ events[k] \in Nat
      /\ events'[Len(events) + 1] = joins + 1
    BY <1>1, <1>2, <1>3, <1>4, AppendFacts DEF TypeOK
<1>6. TypeOK'
    BY <1>1, <1>2, <1>4, <1>5 DEF TypeOK, buttonVars
<1>7. BootState'
    BY <1>1, <1>2, <1>3 DEF BootState, buttonVars
<1>8. flash.mac \in Int /\ (save # "idle" => camera_array.mac \in Int)
    BY <1>1, MacIsAJoin DEF TypeOK
<1>9. EventsInOrder'
    <2>1. \A k \in 1 .. Len(events) : events[k] = 0 \/ events[k] \in since + 1 .. joins
        BY <1>1 DEF SaveInv, EventsInOrder
    <2>2. ASSUME NEW k \in 1 .. Len(events') PROVE events'[k] = 0 \/ events'[k] \in since' + 1 .. joins'
        <3>1. CASE k \in 1 .. Len(events)
            BY <1>2, <1>3, <1>5, <2>1, <3>1
        <3>2. CASE k = Len(events) + 1
            BY <1>2, <1>3, <1>5, <3>2
        <3>3. QED
            BY <1>5, <3>1, <3>2
    <2>3. ASSUME NEW k \in 1 .. Len(events'), NEW l \in 1 .. Len(events'),
                 k < l, Waiting(k)', Waiting(l)'
          PROVE  events'[k] < events'[l]
        <3>1. k \in 1 .. Len(events) /\ events[k] # 0 /\ events'[k] = events[k]
            BY <1>5, <2>3 DEF Waiting
        <3>2. CASE l \in 1 .. Len(events)
            BY <1>1, <1>5, <2>3, <3>1, <3>2 DEF SaveInv, EventsInOrder, Waiting
        <3>3. CASE l = Len(events) + 1
            BY <1>3, <1>5, <2>1, <3>1, <3>3
        <3>4. QED
            BY <1>5, <3>2, <3>3
    <2>4. QED
        BY <2>2, <2>3 DEF EventsInOrder
<1>10. SavingInOrder'
    <2> SUFFICES ASSUME save # "idle" PROVE
            /\ camera_array.mac \in since + 1 .. joins + 1
            /\ \A k \in 1 .. Len(events') : Waiting(k)' => camera_array.mac < events'[k]
        BY <1>2 DEF SavingInOrder
    <2>1. /\ camera_array.mac \in since + 1 .. joins
          /\ \A k \in 1 .. Len(events) : Waiting(k) => camera_array.mac < events[k]
        BY <1>1 DEF SaveInv, SavingInOrder
    <2>2. QED
        BY <1>2, <1>3, <1>5, <2>1 DEF Waiting
<1>11. FlashInOrder'
    <2>1. /\ flash.mac <= joins /\ (save # "idle" => flash.mac <= camera_array.mac)
          /\ \A k \in 1 .. Len(events) : Waiting(k) => flash.mac < events[k]
        BY <1>1 DEF SaveInv, FlashInOrder
    <2>2. flash.mac <= joins + 1 /\ flash.mac < joins + 1
        BY <1>3, <1>8, <2>1
    <2>3. \A k \in 1 .. Len(events') : Waiting(k)' => flash.mac < events'[k]
        BY <1>2, <1>5, <2>1, <2>2 DEF Waiting
    <2>4. QED
        BY <1>2, <2>1, <2>2, <2>3 DEF FlashInOrder
<1>12. NewestKept'
    BY <1>2, <1>5 DEF NewestKept
<1>13. QED
    BY <1>1, <1>2, <1>6, <1>7, <1>9, <1>10, <1>11, <1>12, KeepsButton DEF Inv

LEMMA LeaveInv == ASSUME Inv, Leave PROVE Inv'
<1>1. TypeOK /\ BootState /\ SaveInv /\ ButtonState
    BY DEF Inv, SaveInv
<1>2. /\ stations' = stations - 1 /\ stations > 0 /\ events' = Append(events, 0)
      /\ UNCHANGED <<boot, save, camera_array, cached, flash, joins, since, buttonVars>>
    BY DEF Leave
<1>3. MaxStaConn \in Nat /\ stations \in 0 .. MaxStaConn /\ 0 \in 0 .. MaxJoins
    BY <1>1, BoundAssumption DEF TypeOK
<1>4. stations' \in 0 .. MaxStaConn
    BY <1>2, <1>3
<1>5. /\ events' \in Seq(0 .. MaxJoins) /\ Len(events') = Len(events) + 1 /\ Len(events) \in Nat
      /\ \A k \in 1 .. Len(events) : events'[k] = events[k]
      /\ events'[Len(events) + 1] = 0
    BY <1>1, <1>2, <1>3, AppendFacts DEF TypeOK
<1>6. TypeOK'
    BY <1>1, <1>2, <1>4, <1>5 DEF TypeOK, buttonVars
<1>7. BootState'
    BY <1>1, <1>2 DEF BootState, buttonVars
<1>8. \A k \in 1 .. Len(events') :
          \/ k \in 1 .. Len(events) /\ events'[k] = events[k] /\ (Waiting(k)' <=> Waiting(k))
          \/ events'[k] = 0 /\ ~Waiting(k)'
    BY <1>5 DEF Waiting
<1>9. EventsInOrder'
    <2>1. ASSUME NEW k \in 1 .. Len(events') PROVE events'[k] = 0 \/ events'[k] \in since' + 1 .. joins'
        BY <1>1, <1>2, <1>8 DEF SaveInv, EventsInOrder
    <2>2. ASSUME NEW k \in 1 .. Len(events'), NEW l \in 1 .. Len(events'),
                 k < l, Waiting(k)', Waiting(l)'
          PROVE  events'[k] < events'[l]
        BY <1>1, <1>8, <2>2 DEF SaveInv, EventsInOrder
    <2>3. QED
        BY <2>1, <2>2 DEF EventsInOrder
<1>10. SavingInOrder'
    BY <1>1, <1>2, <1>8 DEF SaveInv, SavingInOrder
<1>11. FlashInOrder'
    BY <1>1, <1>2, <1>8 DEF SaveInv, FlashInOrder
<1>12. NewestKept'
    BY <1>1, <1>2, <1>5 DEF SaveInv, NewestKept
<1>13. QED
    BY <1>1, <1>2, <1>6, <1>7, <1>9, <1>10, <1>11, <1>12, KeepsButton DEF Inv

(* What is left of the events that wait when the first is taken.           *)
LEMMA TailFacts ==
    ASSUME events \in Seq(0 .. MaxJoins), events # <<>>, events' = Tail(events)
    PROVE  /\ events' \in Seq(0 .. MaxJoins) /\ Len(events) \in Nat
           /\ Len(events') = Len(events) - 1 /\ Head(events) = events[1] /\ 1 <= Len(events)
           /\ \A k \in 1 .. Len(events') : k + 1 \in 1 .. Len(events) /\ events'[k] = events[k + 1]
OBVIOUS

LEMMA WifiEventInv == ASSUME Inv, wifi_event_handler PROVE Inv'
<1> DEFINE h == Head(events)
<1>1. TypeOK /\ BootState /\ SaveInv /\ ButtonState
    BY DEF Inv, SaveInv
<1>2. /\ save = "idle" /\ events # <<>> /\ events' = Tail(events)
      /\ UNCHANGED <<boot, cached, flash, stations, joins, since, buttonVars>>
    BY DEF wifi_event_handler
<1>3. /\ events' \in Seq(0 .. MaxJoins) /\ Len(events) \in Nat
      /\ Len(events') = Len(events) - 1 /\ h = events[1] /\ 1 \in 1 .. Len(events)
      /\ \A k \in 1 .. Len(events') : k + 1 \in 1 .. Len(events) /\ events'[k] = events[k + 1]
    BY <1>1, <1>2, TailFacts DEF TypeOK
<1>4. joins \in Nat /\ since \in Nat /\ joins <= MaxJoins /\ flash.mac \in Int
    BY <1>1, MacIsAJoin, BoundAssumption DEF TypeOK
<1>5. /\ \A k \in 1 .. Len(events) : events[k] = 0 \/ events[k] \in since + 1 .. joins
      /\ \A k \in 1 .. Len(events) : \A l \in 1 .. Len(events) :
            k < l /\ Waiting(k) /\ Waiting(l) => events[k] < events[l]
    BY <1>1 DEF SaveInv, EventsInOrder
<1>6. EventsInOrder'
    <2>1. ASSUME NEW k \in 1 .. Len(events') PROVE events'[k] = 0 \/ events'[k] \in since' + 1 .. joins'
        BY <1>2, <1>3, <1>5
    <2>2. ASSUME NEW k \in 1 .. Len(events'), NEW l \in 1 .. Len(events'),
                 k < l, Waiting(k)', Waiting(l)'
          PROVE  events'[k] < events'[l]
        BY <1>3, <1>5, <2>2 DEF Waiting
    <2>3. QED
        BY <2>1, <2>2 DEF EventsInOrder
<1>7. /\ flash.mac <= joins
      /\ \A k \in 1 .. Len(events) : Waiting(k) => flash.mac < events[k]
    BY <1>1 DEF SaveInv, FlashInOrder
<1>8. \A k \in 1 .. Len(events') : Waiting(k)' => flash.mac < events'[k]
    BY <1>3, <1>7 DEF Waiting
<1>9. joins > since => flash.mac = joins \/ \E k \in 1 .. Len(events) : events[k] = joins
    BY <1>1, <1>2 DEF SaveInv, NewestKept
<1>10. ASSUME joins > since, flash.mac # joins, h # joins
       PROVE  \E k \in 1 .. Len(events') : events'[k] = joins
    <2>1. PICK k \in 1 .. Len(events) : events[k] = joins
        BY <1>9, <1>10
    <2>2. k # 1
        BY <1>3, <1>10, <2>1
    <2>3. k - 1 \in 1 .. Len(events')
        BY <1>3, <2>1, <2>2
    <2>4. events'[k - 1] = joins
        BY <1>3, <2>1, <2>3
    <2>5. QED
        BY <2>3, <2>4
<1>11. CASE h # 0
    <2>1. PICK r \in Junk : camera_array' = [mac |-> h, ip |-> StationAddress, rest |-> r]
        BY <1>11 DEF wifi_event_handler
    <2>2. save' = "set" /\ camera_array'.mac = h
        BY <1>11, <2>1 DEF wifi_event_handler
    <2>3. h \in since + 1 .. joins /\ h \in 1 .. MaxJoins
        <3>1. h \in since + 1 .. joins
            BY <1>3, <1>5, <1>11
        <3>2. MaxJoins \in Nat
            BY BoundAssumption
        <3>3. QED
            BY <1>4, <3>1, <3>2
    <2>4. TypeOK'
        <3>1. camera_array' \in Lists
            BY <2>1, <2>3 DEF Lists
        <3>2. QED
            BY <1>1, <1>2, <1>3, <2>2, <3>1 DEF TypeOK, buttonVars
    <2>5. BootState'
        <3>1. boot \notin {"nvs", "wifi"}
            BY <1>1, <1>4, <2>3 DEF BootState
        <3>2. QED
            BY <1>1, <1>2, <2>2, <3>1 DEF BootState, buttonVars
    <2>6. SavingInOrder'
        <3>1. ASSUME NEW k \in 1 .. Len(events'), Waiting(k)' PROVE h < events'[k]
            BY <1>3, <1>5, <1>11, <3>1 DEF Waiting
        <3>2. QED
            BY <1>2, <2>2, <2>3, <3>1 DEF SavingInOrder
    <2>7. FlashInOrder'
        <3>1. flash.mac < h
            BY <1>3, <1>7, <1>11 DEF Waiting
        <3>2. flash.mac <= h
            BY <1>4, <2>3, <3>1
        <3>3. QED
            BY <1>2, <1>7, <1>8, <2>2, <3>2 DEF FlashInOrder
    <2>8. NewestKept'
        BY <1>2, <1>10, <2>2 DEF NewestKept
    <2>9. QED
        BY <1>1, <1>2, <1>6, <2>4, <2>5, <2>6, <2>7, <2>8, KeepsButton DEF Inv
<1>12. CASE h = 0
    <2>1. UNCHANGED <<save, camera_array>>
        BY <1>12 DEF wifi_event_handler
    <2>2. TypeOK'
        BY <1>1, <1>2, <1>3, <2>1 DEF TypeOK, buttonVars
    <2>3. BootState'
        BY <1>1, <1>2, <2>1 DEF BootState, buttonVars
    <2>4. SavingInOrder' /\ FlashInOrder'
        BY <1>2, <1>7, <1>8, <2>1 DEF SavingInOrder, FlashInOrder
    <2>5. NewestKept'
        BY <1>2, <1>4, <1>10, <1>12 DEF NewestKept
    <2>6. QED
        BY <1>1, <1>2, <1>6, <2>2, <2>3, <2>4, <2>5, KeepsButton DEF Inv
<1>13. QED
    BY <1>11, <1>12

(* The list being saved is written, or stays to be written.                *)
LEMMA WriteInv ==
    ASSUME Inv, save \in {"set", "commit"}, flash' \in {flash, camera_array},
           UNCHANGED <<events, camera_array, joins, since>>,
           save' = "commit" \/ (save' = "idle" /\ flash' = camera_array)
    PROVE  SaveInv' /\ flash'.mac >= flash.mac
<1>1. TypeOK /\ EventsInOrder /\ SavingInOrder /\ FlashInOrder /\ NewestKept
    BY DEF Inv
<1>2. /\ joins \in Nat /\ since \in Nat /\ flash.mac \in Int /\ camera_array.mac \in Int
      /\ Len(events) \in Nat
    BY <1>1, MacIsAJoin, BoundAssumption DEF TypeOK
<1>3. /\ camera_array.mac \in since + 1 .. joins
      /\ \A k \in 1 .. Len(events) : Waiting(k) => camera_array.mac < events[k]
    BY <1>1 DEF SavingInOrder
<1>4. /\ flash.mac <= joins /\ flash.mac <= camera_array.mac
      /\ \A k \in 1 .. Len(events) : Waiting(k) => flash.mac < events[k]
    BY <1>1 DEF FlashInOrder
<1>5. flash'.mac = flash.mac \/ flash'.mac = camera_array.mac
    OBVIOUS
<1>6. EventsInOrder'
    BY <1>1 DEF EventsInOrder, Waiting
<1>7. SavingInOrder'
    BY <1>3 DEF SavingInOrder, Waiting
<1>8. FlashInOrder'
    BY <1>2, <1>3, <1>4, <1>5 DEF FlashInOrder, Waiting
<1>9. NewestKept'
    <2>1. CASE save' = "commit"
        <3>1. joins > since => \/ \E k \in 1 .. Len(events) : events[k] = joins
                              \/ camera_array.mac = joins
            BY <1>1, <1>2, <1>3, <1>4 DEF NewestKept
        <3>2. QED
            BY <2>1, <3>1 DEF NewestKept
    <2>2. CASE save' = "idle" /\ flash' = camera_array
        BY <1>1, <1>2, <1>3, <1>4, <2>2 DEF NewestKept
    <2>3. QED
        BY <2>1, <2>2
<1>10. flash'.mac >= flash.mac
    BY <1>2, <1>4, <1>5
<1>11. QED
    BY <1>6, <1>7, <1>8, <1>9, <1>10 DEF SaveInv

LEMMA SetBlobInv == ASSUME Inv, nvs_set_blob PROVE Inv' /\ flash'.mac >= flash.mac
<1>1. TypeOK /\ BootState /\ ButtonState /\ flash.mac \in Int
    BY MacIsAJoin DEF Inv, TypeOK
<1>2. CASE Reset
    BY <1>1, <1>2, ResetInv DEF Reset
<1>3. CASE ~Reset
    <2>1. /\ save = "set" /\ save' = "commit" /\ cached' = camera_array
          /\ flash' \in {flash, camera_array}
          /\ UNCHANGED <<boot, events, camera_array, stations, joins, since, buttonVars>>
        BY <1>3 DEF nvs_set_blob
    <2>2. SaveInv' /\ flash'.mac >= flash.mac
        BY <2>1, WriteInv
    <2>3. TypeOK'
        BY <1>1, <2>1 DEF TypeOK, buttonVars
    <2>4. BootState'
        BY <1>1, <2>1 DEF BootState, buttonVars
    <2>5. QED
        BY <1>1, <2>1, <2>2, <2>3, <2>4, KeepsButton DEF Inv, SaveInv
<1>4. QED
    BY <1>2, <1>3

LEMMA CommitInv == ASSUME Inv, nvs_commit PROVE Inv' /\ flash'.mac >= flash.mac
<1>1. TypeOK /\ BootState /\ ButtonState /\ flash.mac \in Int
    BY MacIsAJoin DEF Inv, TypeOK
<1>2. CASE Reset
    BY <1>1, <1>2, ResetInv DEF Reset
<1>3. CASE ~Reset
    <2>1. /\ save = "commit" /\ save' = "idle" /\ flash' = cached
          /\ UNCHANGED <<boot, events, camera_array, cached, stations, joins, since, buttonVars>>
        BY <1>3 DEF nvs_commit
    <2>2. cached = camera_array
        BY <1>1, <2>1 DEF BootState
    <2>3. SaveInv' /\ flash'.mac >= flash.mac
        BY <2>1, <2>2, WriteInv
    <2>4. TypeOK'
        BY <1>1, <2>1 DEF TypeOK, buttonVars
    <2>5. BootState'
        BY <1>1, <2>1 DEF BootState, buttonVars
    <2>6. QED
        BY <1>1, <2>1, <2>3, <2>4, <2>5, KeepsButton DEF Inv, SaveInv
<1>4. QED
    BY <1>2, <1>3

(* Steps of the button and of its task.                                    *)
LEMMA ButtonInv == ASSUME Inv, Press \/ Release \/ button_task PROVE Inv'
<1>1. TypeOK /\ BootState /\ SaveInv /\ ButtonState
    BY DEF Inv, SaveInv
<1>2. UNCHANGED <<boot, saveVars, task>>
    BY DEF Press, Release, button_task
<1>3. /\ MaxPresses \in Nat /\ presses \in 0 .. MaxPresses /\ presses \in Nat
      /\ reports \in [0 .. MaxPresses -> Nat]
      /\ last_state \in {0, 1} /\ level \in {0, 1} /\ task \in BOOLEAN
    BY <1>1, BoundAssumption DEF TypeOK
<1>4. /\ level' \in {0, 1} /\ last_state' \in {0, 1} /\ ButtonState'
      /\ presses' \in 0 .. MaxPresses /\ reports' \in [0 .. MaxPresses -> Nat]
    <2>1. CASE Press /\ task
        <3>1. /\ presses' = presses + 1 /\ presses' \in 0 .. MaxPresses /\ presses' > presses
              /\ reports' = reports /\ level' = 0 /\ last_state' = last_state
            BY <1>3, <2>1 DEF Press
        <3>2. reports'[presses'] = 0
            BY <1>1, <3>1 DEF ButtonState
        <3>3. ASSUME NEW k \in 0 .. MaxPresses
              PROVE  reports'[k] <= 1 /\ (k > presses' => reports'[k] = 0)
            BY <1>1, <1>3, <3>1 DEF ButtonState
        <3>4. QED
            BY <1>3, <3>1, <3>2, <3>3 DEF ButtonState
    <2>2. CASE Press /\ ~task
        BY <1>1, <1>3, <2>2 DEF Press, ButtonState
    <2>3. CASE Release
        BY <1>1, <1>3, <2>3 DEF Release, ButtonState
    <2>4. CASE button_task /\ level = 1
        <3>1. /\ last_state = 0 /\ last_state' = 1 /\ level' = 1 /\ task' = TRUE
              /\ presses' = presses /\ reports' = [reports EXCEPT ![presses] = @ + 1]
            BY <1>3, <2>4 DEF button_task
        <3>2. reports[presses] = 0
            BY <1>1, <3>1 DEF ButtonState
        <3>3. /\ reports' \in [0 .. MaxPresses -> Nat] /\ reports'[presses] = 1
              /\ \A k \in 0 .. MaxPresses : k # presses => reports'[k] = reports[k]
            BY <1>3, <3>1, <3>2
        <3>4. ASSUME NEW k \in 0 .. MaxPresses
              PROVE  reports'[k] <= 1 /\ (k > presses' => reports'[k] = 0)
            BY <1>1, <1>3, <3>1, <3>3 DEF ButtonState
        <3>5. QED
            BY <1>3, <3>1, <3>3, <3>4 DEF ButtonState
    <2>5. CASE button_task /\ level = 0
        BY <1>1, <1>3, <2>5 DEF button_task, ButtonState
    <2>6. QED
        BY <1>3, <2>1, <2>2, <2>3, <2>4, <2>5
<1>5. TypeOK'
    BY <1>1, <1>2, <1>4 DEF TypeOK, saveVars
<1>6. BootState'
    BY <1>1, <1>2 DEF BootState, saveVars
<1>7. SaveInv'
    BY <1>1, <1>2, KeepsSave
<1>8. QED
    BY <1>4, <1>5, <1>6, <1>7 DEF Inv, SaveInv

LEMMA NextInv == Inv /\ [Next]_vars => Inv'
<1> SUFFICES ASSUME Inv, [Next]_vars PROVE Inv'
    OBVIOUS
<1>1. CASE app_main
    BY <1>1, AppMainInv
<1>2. CASE EventLoop
    BY <1>2, WifiEventInv, SetBlobInv, CommitInv DEF EventLoop
<1>3. CASE Press \/ Release \/ button_task
    BY <1>3, ButtonInv
<1>4. CASE Join
    BY <1>4, JoinInv
<1>5. CASE Leave
    BY <1>5, LeaveInv
<1>6. CASE PowerLoss
    BY <1>6, ResetInv DEF PowerLoss
<1>7. CASE UNCHANGED vars
    <2>1. boot' = boot /\ UNCHANGED saveVars /\ UNCHANGED buttonVars
        BY <1>7 DEF vars
    <2>2. TypeOK' /\ BootState'
        BY <2>1 DEF Inv, TypeOK, BootState, saveVars, buttonVars
    <2>3. QED
        BY <2>1, <2>2, KeepsSave, KeepsButton DEF Inv, SaveInv
<1>8. QED
    BY <1>1, <1>2, <1>3, <1>4, <1>5, <1>6, <1>7 DEF Next

LEMMA InvHolds == Spec => []Inv
BY InitInv, NextInv, PTL DEF Spec

(* The program's state has its type, and so has what it finds in flash.    *)
THEOREM TypeCorrect == Spec => []TypeOK
<1>1. Inv => TypeOK
    BY DEF Inv
<1>2. QED
    BY <1>1, InvHolds, PTL

(* When all events are handled the flash names the camera that joined      *)
(* last, for any number of joins and restarts (wifi_event_handler,         *)
(* save_camera_info_array_to_nvs).                                         *)
THEOREM FlashHasLastJoin == Spec => []LastJoinSaved
<1>1. Inv => LastJoinSaved
    <2> SUFFICES ASSUME Inv, save = "idle", events = <<>>, joins > since PROVE flash.mac = joins
        BY DEF LastJoinSaved
    <2>1. Len(events) = 0
        OBVIOUS
    <2>2. QED
        BY <2>1 DEF Inv, NewestKept
<1>2. QED
    BY <1>1, InvHolds, PTL

(* The flash is never set back to an earlier camera, through any crash     *)
(* between nvs_set_blob and nvs_commit (save_camera_info_array_to_nvs).    *)
THEOREM FlashGoesForward == Spec => StoredGoesForward
<1>1. Inv /\ [Next]_vars => [flash' = NoBlob \/ flash'.mac >= flash.mac]_vars
    <2> SUFFICES ASSUME Inv, Next PROVE flash' = NoBlob \/ flash'.mac >= flash.mac
        OBVIOUS
    <2>1. flash.mac \in Int
        BY MacIsAJoin DEF Inv, TypeOK
    <2>2. CASE app_main
        BY <2>1, <2>2 DEF app_main, nvs_flash_init, wifi_init_softap, CreateButtonTask, Reset, saveVars
    <2>3. CASE EventLoop
        <3>1. CASE wifi_event_handler
            BY <2>1, <3>1 DEF wifi_event_handler
        <3>2. QED
            BY <2>3, <3>1, SetBlobInv, CommitInv DEF EventLoop
    <2>4. CASE Join \/ Leave \/ PowerLoss
        BY <2>1, <2>4 DEF Join, Leave, PowerLoss, Reset
    <2>5. CASE Press \/ Release \/ button_task
        BY <2>1, <2>5 DEF Press, Release, button_task, saveVars
    <2>6. QED
        BY <2>2, <2>3, <2>4, <2>5 DEF Next
<1>2. QED
    BY <1>1, InvHolds, PTL DEF Spec, StoredGoesForward

(* For any sequence of presses, releases, polls and restarts, from one     *)
(* press of the button to the next at most one is reported (button_task).  *)
THEOREM ReportedOncePerPress == Spec => []OncePerPress
<1>1. Inv => OncePerPress
    BY DEF Inv, ButtonState, OncePerPress
<1>2. QED
    BY <1>1, InvHolds, PTL
=============================================================================
