----------------------------- MODULE RcpProgram -----------------------------
(***************************************************************************)
(* The second program, softap_example_main.c of RCP_ESP32_GoPro_Control:   *)
(* its start, the list of cameras it keeps in flash, and its button.       *)
(*                                                                         *)
(* Three tasks: app_main, the event loop that runs wifi_event_handler, and *)
(* button_task, which polls the line every 10 ms.  A failed                *)
(* ESP_ERROR_CHECK resets the chip; power may go at any moment.  Only the  *)
(* flash outlives that.                                                    *)
(*                                                                         *)
(* A join stands for the MAC address of the station that joined: joins are *)
(* numbered from the first, over all restarts.                             *)
(*                                                                         *)
(* External: the stations, the person at the button, NVS, the event loop.  *)
(***************************************************************************)
EXTENDS Integers, Sequences

CONSTANTS
    Junk,       \* what may stand in memory that nobody wrote
    MaxStaConn, \* EXAMPLE_MAX_STA_CONN
    MaxJoins,   \* bound: joins, over all restarts
    MaxEvents,  \* bound: events that wait for the event loop
    MaxPresses  \* bound: presses of the button from a start of its task

ASSUME BoundAssumption ==
    /\ MaxStaConn \in Nat \ {0} /\ MaxJoins \in Nat /\ MaxEvents \in Nat /\ MaxPresses \in Nat

VARIABLES
    boot,       \* where app_main is
    stations,   \* how many stations are connected
    events,     \* Wi-Fi events for the handler: the join's number, 0 for a leave
    save,       \* save_camera_info_array_to_nvs: idle, or its next call
    camera_array,   \* its argument
    cached,     \* what nvs_set_blob took, to be written by nvs_commit
    flash,      \* the blob "ip_mac_pairs"
    task,       \* button_task runs
    last_state,
    level,      \* the line of the button: 0 pressed, 1 by the pull-up
    joins,      \* history: how many joins there were
    since,      \* history: how many of them before the last start
    presses,    \* history: how often the button was pressed since the task started
    reports     \* history: how often the task reported a press, from the n-th
                \*   press to the next; n = 0 for before the first

saveVars == <<events, save, camera_array, cached, flash, stations, joins, since>>
buttonVars == <<task, last_state, level, presses, reports>>
vars == <<boot, saveVars, buttonVars>>

(* A stored list: the first camera's MAC and address, and the rest, which  *)
(* wifi_event_handler leaves uninitialised.  The address is not 10.71.79.2 *)
(* but the bitwise or of its four bytes.                                   *)
StationAddress == 79
Lists == [mac : 1 .. MaxJoins, ip : {StationAddress}, rest : Junk]
NoBlob == [mac |-> 0, ip |-> 0, rest |-> "none"]

NoReports == [n \in 0 .. MaxPresses |-> 0]
-----------------------------------------------------------------------------
(* All that is not in flash starts anew.                                   *)
Restart ==
    /\ boot' = "nvs"
    /\ stations' = 0 /\ events' = <<>>
    /\ save' = "idle" /\ camera_array' = NoBlob /\ cached' = NoBlob
    /\ task' = FALSE /\ last_state' = 0 /\ presses' = 0 /\ reports' = NoReports
    /\ since' = joins
    /\ UNCHANGED <<joins, level>>

Reset == Restart /\ UNCHANGED flash

(* nvs_flash_init; when it asks for that, the flash is erased first.       *)
nvs_flash_init ==
    /\ boot = "nvs"
    /\ flash' \in {flash, NoBlob}
    /\ \/ /\ boot' = "wifi"
          /\ UNCHANGED <<events, save, camera_array, cached, stations, joins, since, buttonVars>>
       \/ Restart

(* From esp_wifi_start at its end on there is an access point.             *)
wifi_init_softap ==
    /\ boot = "wifi"
    /\ \/ boot' = "button" /\ UNCHANGED <<saveVars, buttonVars>>
       \/ Reset

(* button_init and the creation of button_task.                            *)
CreateButtonTask ==
    /\ boot = "button"
    /\ boot' = "done" /\ task' = TRUE
    /\ last_state' = 0 /\ presses' = 0 /\ reports' = NoReports
    /\ UNCHANGED <<saveVars, level>>

app_main == nvs_flash_init \/ wifi_init_softap \/ CreateButtonTask
-----------------------------------------------------------------------------
(* Stations and power.                                                     *)

AccessPoint == boot \in {"button", "done"}

Join ==
    /\ AccessPoint /\ stations < MaxStaConn
    /\ joins < MaxJoins /\ Len(events) < MaxEvents
    /\ stations' = stations + 1 /\ joins' = joins + 1
    /\ events' = Append(events, joins + 1)
    /\ UNCHANGED <<boot, save, camera_array, cached, flash, since, buttonVars>>

Leave ==
    /\ AccessPoint /\ stations > 0 /\ Len(events) < MaxEvents
    /\ stations' = stations - 1
    /\ events' = Append(events, 0)
    /\ UNCHANGED <<boot, save, camera_array, cached, flash, joins, since, buttonVars>>

PowerLoss == Reset
-----------------------------------------------------------------------------
(* The event loop.                                                         *)

(* Mutant of wifi_event_handler: a leave saves the array as well.          *)
SaveOnLeave ==
    /\ save = "idle" /\ events # <<>>
    /\ events' = Tail(events)
    /\ \E r \in Junk :
          camera_array' = [mac |-> Head(events), ip |-> StationAddress, rest |-> r]
    /\ save' = "set"
    /\ UNCHANGED <<boot, cached, flash, stations, joins, since, buttonVars>>

(* A station that joined is put first into an array on the stack, and the  *)
(* array saved; a station that left is logged.                             *)
wifi_event_handler ==
    /\ save = "idle" /\ events # <<>>
    /\ events' = Tail(events)
    /\ IF Head(events) # 0
       THEN /\ \E r \in Junk :
                  camera_array' = [mac |-> Head(events), ip |-> StationAddress, rest |-> r]
            /\ save' = "set"
       ELSE UNCHANGED <<save, camera_array>>
    /\ UNCHANGED <<boot, cached, flash, stations, joins, since, buttonVars>>

(* Mutant of nvs_set_blob: a failure is logged, as                         *)
(* retrieve_camera_info_array_from_nvs does, and nothing is saved.         *)
SetOrLog ==
    /\ save = "set"
    /\ \/ /\ cached' = camera_array /\ flash' \in {flash, camera_array}
          /\ save' = "commit"
          /\ UNCHANGED <<boot, events, camera_array, stations, joins, since, buttonVars>>
       \/ /\ save' = "idle"
          /\ UNCHANGED <<boot, events, camera_array, cached, flash, stations, joins, since, buttonVars>>

(* nvs_open and nvs_set_blob.  NVS may write at once or keep the list for  *)
(* nvs_commit; a list is written whole or not at all.                      *)
nvs_set_blob ==
    /\ save = "set"
    /\ \/ /\ cached' = camera_array /\ flash' \in {flash, camera_array}
          /\ save' = "commit"
          /\ UNCHANGED <<boot, events, camera_array, stations, joins, since, buttonVars>>
       \/ Reset

(* Mutant of nvs_commit: the handle is closed without it.                  *)
CloseOnly ==
    /\ save = "commit" /\ save' = "idle"
    /\ UNCHANGED <<boot, events, camera_array, cached, flash, stations, joins, since, buttonVars>>

(* nvs_commit and nvs_close.                                               *)
nvs_commit ==
    /\ save = "commit"
    /\ \/ /\ flash' = cached /\ save' = "idle"
          /\ UNCHANGED <<boot, events, camera_array, cached, stations, joins, since, buttonVars>>
       \/ Reset

EventLoop == wifi_event_handler \/ nvs_set_blob \/ nvs_commit
-----------------------------------------------------------------------------
(* The button: pressed, it pulls the line down, against the pull-up of     *)
(* button_init.                                                            *)

Press ==
    /\ level = 1 /\ level' = 0
    /\ task => presses < MaxPresses
    /\ presses' = IF task THEN presses + 1 ELSE presses
    /\ UNCHANGED <<boot, saveVars, task, last_state, reports>>

Release ==
    /\ level = 0 /\ level' = 1
    /\ UNCHANGED <<boot, saveVars, task, last_state, presses, reports>>

(* Mutant of button_task: the last state is forgotten.                     *)
PollForgets ==
    /\ task /\ level # last_state
    /\ reports[presses] <= 1
    /\ reports' = IF level = 1 THEN [reports EXCEPT ![presses] = @ + 1] ELSE reports
    /\ UNCHANGED <<boot, saveVars, task, level, last_state, presses>>

(* One round of the loop.  It takes a high line for a pressed button, as   *)
(* if that were connected to the supply: here "Button pressed!" comes with  *)
(* the release, and once when the task finds the line idle at its start.   *)
button_task ==
    /\ task /\ level # last_state
    /\ last_state' = level
    /\ reports' = IF level = 1 THEN [reports EXCEPT ![presses] = @ + 1] ELSE reports
    /\ UNCHANGED <<boot, saveVars, task, level, presses>>
-----------------------------------------------------------------------------
Init ==
    /\ boot = "nvs" /\ stations = 0 /\ events = <<>>
    /\ save = "idle" /\ camera_array = NoBlob /\ cached = NoBlob /\ flash = NoBlob
    /\ task = FALSE /\ last_state = 0 /\ level \in {0, 1}
    /\ joins = 0 /\ since = 0 /\ presses = 0 /\ reports = NoReports

Next == app_main \/ EventLoop \/ button_task \/ Join \/ Leave \/ PowerLoss \/ Press \/ Release

(* FreeRTOS runs the three tasks; none waits for another.                  *)
Fairness == WF_vars(app_main) /\ WF_vars(EventLoop) /\ WF_vars(button_task)

Spec == Init /\ [][Next]_vars /\ Fairness
-----------------------------------------------------------------------------
(* Properties.                                                             *)

(* The type of every variable.                                             *)
TypeOK ==
    /\ boot \in {"nvs", "wifi", "button", "done"}
    /\ stations \in 0 .. MaxStaConn
    /\ events \in Seq(0 .. MaxJoins)
    /\ save \in {"idle", "set", "commit"}
    /\ camera_array \in Lists \cup {NoBlob} /\ cached \in Lists \cup {NoBlob}
    /\ flash \in Lists \cup {NoBlob}
    /\ task \in BOOLEAN /\ last_state \in {0, 1} /\ level \in {0, 1}
    /\ joins \in 0 .. MaxJoins /\ since \in 0 .. MaxJoins
    /\ presses \in 0 .. MaxPresses /\ reports \in [0 .. MaxPresses -> Nat]

(* Once every event is handled, the camera in flash is the one that joined *)
(* last, whatever joined, left, failed or restarted before                 *)
(* (wifi_event_handler, save_camera_info_array_to_nvs).                    *)
LastJoinSaved ==
    save = "idle" /\ events = <<>> /\ joins > since => flash.mac = joins

(* The flash never goes back to a camera that joined earlier, not even     *)
(* when the program restarts between nvs_set_blob and nvs_commit; it may   *)
(* be erased at a start.                                                   *)
StoredGoesForward == [][flash' = NoBlob \/ flash'.mac >= flash.mac]_vars

(* A camera that joined gets into flash, or the chip restarts: a failure   *)
(* of NVS is never passed over (the ESP_ERROR_CHECKs of                    *)
(* save_camera_info_array_to_nvs).                                         *)
JoinSaved ==
    \A n \in 1 .. MaxJoins :
        (\E k \in DOMAIN events : events[k] = n) ~> (boot = "nvs" \/ flash.mac >= n)

(* From one press of the button to the next, and before the first, the     *)
(* task reports at most one press, however its polls fall between the      *)
(* changes of the line; a press it missed is not made up for later         *)
(* (last_state in button_task).                                            *)
OncePerPress == \A k \in 0 .. MaxPresses : reports[k] <= 1
=============================================================================
