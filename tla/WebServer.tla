------------------------------ MODULE WebServer ------------------------------
(***************************************************************************)
(* The start of the controller (goPro_canBus_main.c) and its web server    *)
(* (webServer.c, with shutter.c, cameraInfo.c and ble_shutter.c).          *)
(*                                                                         *)
(* app_main runs in one task, the requests in the task of esp_http_server, *)
(* one at a time and to the end of their handler.  A request to a camera   *)
(* holds that task for up to 5 s.  Requests arrive from the moment the     *)
(* server runs, before its handlers and BLE are there.                     *)
(*                                                                         *)
(* External: esp_http_server (connections, the choice of the next request, *)
(* 404 for a URI without handler, the connection closed after ESP_FAIL),   *)
(* the clients, the cameras' web servers, NimBLE.                          *)
(***************************************************************************)
EXTENDS Integers, Sequences, FiniteSets

CONSTANTS
    Conns,          \* connections of clients
    PageConns,      \* those of the page data/index.html
    Sent,           \* the requests clients send
    MaxAhead,       \* bound: requests a client has sent and the server not taken
    MaxUnread       \* bound: answers on a connection when its client asks

ASSUME ConnsAssumption == PageConns \subseteq Conns /\ Conns \cap {"gone"} = {}
ASSUME BoundAssumption == MaxAhead \in Nat \ {0} /\ MaxUnread \in Nat

(* The URIs in the order of their registration, and a request whose URI    *)
(* has a query: its path finds the handler, strcmp then knows it no more.  *)
Handlers == << "/", "/info", "/start", "/stop", "/startscan", "/stopscan", "/shutter_start" >>
WithQuery == "/startscan?"
Requests == {Handlers[k] : k \in DOMAIN Handlers} \cup {WithQuery}
Path(u) == IF u = WithQuery THEN "/startscan" ELSE u

ASSUME SentAssumption == Sent \subseteq Requests

PageRequests == {"/", "/startscan", "/shutter_start"}
CameraRequests == {"/start", "/stop", "/info"}
BleRequests == {"/startscan", "/shutter_start"}

None == "none"

VARIABLES
    boot,       \* where app_main is; "stopped" once it gave up
    spiffs,     \* the file system with index.html is mounted
    server,     \* esp_http_server runs
    registered, \* how many of the Handlers are registered
    ble,        \* nimble_port_init has succeeded
    http,       \* the server's task: connection and request, and where it is
    open,       \* connections the server has not closed
    pending,    \* requests sent and not yet taken by the server
    waiting,    \* the request a client waits for the answer of
    wire        \* answers sent and not yet read: the requests they are for

bootVars == <<boot, spiffs, server, registered, ble>>
clientVars == <<open, pending, waiting, wire>>
vars == <<bootVars, http, clientVars>>

Idle == [pc |-> "idle", conn |-> "gone", req |-> None]
-----------------------------------------------------------------------------
(* app_main.                                                               *)

(* A failed ESP_ERROR_CHECK or a fault resets the chip: every connection   *)
(* is gone, and app_main starts again.                                     *)
Reset ==
    /\ boot' = "nvs" /\ spiffs' = FALSE /\ server' = FALSE
    /\ registered' = 0 /\ ble' = FALSE
    /\ http' = Idle
    /\ open' = [c \in Conns |-> TRUE]
    /\ pending' = [c \in Conns |-> <<>>]
    /\ waiting' = [c \in Conns |-> None]
    /\ wire' = [c \in Conns |-> <<>>]

(* nvs_flash_init, after an erase if it asks for one: app_main goes on,    *)
(* returns, or, when the erase fails, resets.                              *)
nvs_flash_init ==
    /\ boot = "nvs"
    /\ \/ boot' \in {"spiffs", "stopped"} /\ UNCHANGED <<spiffs, server, registered, ble, http, clientVars>>
       \/ Reset

(* A file system that cannot be mounted is only logged.                    *)
init_spiffs ==
    /\ boot = "spiffs"
    /\ boot' = "wifi" /\ spiffs' \in BOOLEAN
    /\ UNCHANGED <<server, registered, ble, http, clientVars>>

(* Every step of wifi_init_softap is under ESP_ERROR_CHECK.                *)
wifi_init_softap ==
    /\ boot = "wifi"
    /\ \/ boot' = "httpd" /\ UNCHANGED <<spiffs, server, registered, ble, http, clientVars>>
       \/ Reset

(* httpd_start; without a server app_main goes on to BLE.                  *)
httpd_start ==
    /\ boot = "httpd"
    /\ \/ server' = TRUE /\ boot' = "register"
       \/ server' = FALSE /\ boot' = "ble"
    /\ UNCHANGED <<spiffs, registered, ble, http, clientVars>>

(* Mutant of Register: one handler too many.                               *)
RegisterTooMany ==
    /\ boot = "register"
    /\ registered' = registered + 1
    /\ boot' = IF registered' > Len(Handlers) THEN "ble" ELSE "register"
    /\ UNCHANGED <<spiffs, server, ble, http, clientVars>>

(* httpd_register_uri_handler; esp_http_server has room for eight.         *)
Register ==
    /\ boot = "register"
    /\ registered' = registered + 1
    /\ boot' = IF registered' = Len(Handlers) THEN "ble" ELSE "register"
    /\ UNCHANGED <<spiffs, server, ble, http, clientVars>>

(* ble_gopro_init; without the port of NimBLE it returns, without memory   *)
(* for the peers its assert resets.                                        *)
ble_gopro_init ==
    /\ boot = "ble"
    /\ \/ /\ boot' = "done" /\ ble' \in BOOLEAN
          /\ UNCHANGED <<spiffs, server, registered, http, clientVars>>
       \/ Reset

app_main ==
    nvs_flash_init \/ init_spiffs \/ wifi_init_softap \/ httpd_start \/ Register \/ ble_gopro_init
-----------------------------------------------------------------------------
(* Clients.                                                                *)

(* A client asks on an open connection, the page only what its buttons     *)
(* ask and one thing at a time.                                            *)
Ask(c, u) ==
    /\ server /\ open[c] /\ waiting[c] = None
    /\ Len(pending[c]) < MaxAhead /\ Len(wire[c]) <= MaxUnread
    /\ c \in PageConns => u \in PageRequests
    /\ waiting' = [waiting EXCEPT ![c] = u]
    /\ pending' = [pending EXCEPT ![c] = Append(@, u)]
    /\ UNCHANGED <<bootVars, http, open, wire>>

(* The next answer on the connection is taken for the answer.              *)
Read(c) ==
    /\ waiting[c] # None /\ wire[c] # <<>>
    /\ waiting' = [waiting EXCEPT ![c] = None]
    /\ wire' = [wire EXCEPT ![c] = Tail(@)]
    /\ UNCHANGED <<bootVars, http, open, pending>>

(* The client gives up, or finds the connection closed; the next one is    *)
(* fresh.  What the server still sends on the old one is lost.             *)
Close(c) ==
    /\ open' = [open EXCEPT ![c] = TRUE]
    /\ pending' = [pending EXCEPT ![c] = <<>>]
    /\ waiting' = [waiting EXCEPT ![c] = None]
    /\ wire' = [wire EXCEPT ![c] = <<>>]
    /\ http' = IF http.conn = c THEN [http EXCEPT !.conn = "gone"] ELSE http
    /\ UNCHANGED bootVars
-----------------------------------------------------------------------------
(* The server's task.                                                      *)

(* esp_http_server takes a request and looks for its handler.              *)
Take(c) ==
    /\ server /\ http.pc = "idle" /\ pending[c] # <<>>
    /\ LET u == Head(pending[c])
           found == \E k \in 1 .. registered : Handlers[k] = Path(u) IN
       http' = [ conn |-> c, req |-> u,
                 pc |-> CASE ~found -> "refuse"
                          [] found /\ u = WithQuery -> "refuse"
                          [] found /\ u = "/" -> "file"
                          [] found /\ u \in CameraRequests -> "camera"
                          [] found /\ u \in BleRequests -> "ble"
                          [] OTHER -> "last" ]
    /\ pending' = [pending EXCEPT ![c] = Tail(@)]
    /\ UNCHANGED <<bootVars, open, waiting, wire>>

(* httpd_resp_send: an answer goes out, if the connection is still there.  *)
Send ==
    wire' = IF http.conn = "gone" THEN wire
            ELSE [wire EXCEPT ![http.conn] = Append(@, http.req)]

(* The handler returned ESP_FAIL: the connection is closed.                *)
CloseSession ==
    /\ open' = IF http.conn = "gone" THEN open ELSE [open EXCEPT ![http.conn] = FALSE]
    /\ pending' = IF http.conn = "gone" THEN pending ELSE [pending EXCEPT ![http.conn] = <<>>]

(* 404 without a handler, "Invalid URI" for one with a query.              *)
Refuse ==
    /\ http.pc = "refuse"
    /\ Send /\ CloseSession
    /\ http' = Idle
    /\ UNCHANGED <<bootVars, waiting>>

(* get_handler: the page in chunks, or 500 when it cannot be opened.       *)
get_handler ==
    /\ http.pc = "file"
    /\ Send
    /\ \/ spiffs /\ UNCHANGED <<open, pending>>
       \/ CloseSession
    /\ http' = Idle
    /\ UNCHANGED <<bootVars, waiting>>

(* The camera answers, or the request fails, after 5 s at the latest;      *)
(* either is reported to the client.  Without memory there is no HTTP      *)
(* client: its NULL handle is not looked at, and using it is a fault.      *)
CameraAnswers ==
    /\ http.pc = "camera"
    /\ \/ /\ Send
          /\ http' = [http EXCEPT !.pc = "last"]
          /\ UNCHANGED <<bootVars, open, pending, waiting>>
       \/ Reset

start_stop_recording == http.req \in {"/start", "/stop"} /\ CameraAnswers
get_camera_info == http.req = "/info" /\ CameraAnswers

(* Mutant of BleCall: the shutter reports to the client itself, as         *)
(* start_recording does.                                                   *)
BleCallAnswers ==
    /\ http.pc = "ble"
    /\ \/ /\ IF http.req = "/shutter_start" THEN Send ELSE UNCHANGED wire
          /\ http' = [http EXCEPT !.pc = "last"]
          /\ UNCHANGED <<bootVars, open, pending, waiting>>
       \/ ~ble /\ Reset

(* Mutant of BleCall: the handler returns after the shutter.               *)
BleCallReturns ==
    /\ http.pc = "ble"
    /\ \/ /\ http' = IF http.req = "/shutter_start" THEN Idle ELSE [http EXCEPT !.pc = "last"]
          /\ UNCHANGED <<bootVars, clientVars>>
       \/ ~ble /\ Reset

(* ble_gopro_scan and start_recording_ble: their result is not looked at.  *)
(* Without NimBLE's port the call is undefined: it returns or faults.  What *)
(* the scan or the command leads to in NimBLE's host task comes later.     *)
BleCall ==
    /\ http.pc = "ble"
    /\ \/ http' = [http EXCEPT !.pc = "last"] /\ UNCHANGED <<bootVars, clientVars>>
       \/ ~ble /\ Reset

(* The answer at the end of post_handler, and those of the two scan        *)
(* requests.                                                               *)
LastAnswer ==
    /\ http.pc = "last"
    /\ Send
    /\ http' = Idle
    /\ UNCHANGED <<bootVars, open, pending, waiting>>

(* NimBLE's host task, once there is one: an assert of peer.c can fail in  *)
(* it (see PeerDiscovery), whatever the server's task is doing.            *)
BleAborts == ble /\ Reset

Handler ==
    \/ Refuse \/ get_handler \/ start_stop_recording \/ get_camera_info
    \/ BleCall \/ LastAnswer
-----------------------------------------------------------------------------
Init ==
    /\ boot = "nvs" /\ spiffs = FALSE /\ server = FALSE /\ registered = 0 /\ ble = FALSE
    /\ http = Idle
    /\ open = [c \in Conns |-> TRUE]
    /\ pending = [c \in Conns |-> <<>>]
    /\ waiting = [c \in Conns |-> None]
    /\ wire = [c \in Conns |-> <<>>]

Next ==
    \/ app_main \/ Handler \/ BleAborts
    \/ \E c \in Conns : Take(c) \/ Read(c) \/ Close(c) \/ \E u \in Sent : Ask(c, u)

(* Both tasks run; a camera request ends by its timeout of 5 s; the        *)
(* server's loop goes through all connections that have a request, so each *)
(* gets its turn; the page reads an answer that has come, and sees that    *)
(* its connection was closed.                                              *)
Fairness ==
    /\ WF_vars(app_main) /\ WF_vars(Handler)
    /\ \A c \in Conns : SF_vars(Take(c))
    /\ \A c \in PageConns : WF_vars(Read(c)) /\ WF_vars(~open[c] /\ wire[c] = <<>> /\ Close(c))

Spec == Init /\ [][Next]_vars /\ Fairness
-----------------------------------------------------------------------------
(* Properties.                                                             *)

(* The type of every variable.                                             *)
TypeOK ==
    /\ boot \in {"nvs", "spiffs", "wifi", "httpd", "register", "ble", "done", "stopped"}
    /\ spiffs \in BOOLEAN /\ server \in BOOLEAN /\ ble \in BOOLEAN
    /\ registered \in 0 .. Len(Handlers)
    /\ http \in [ pc : {"idle", "refuse", "file", "camera", "ble", "last"},
                  conn : Conns \cup {"gone"}, req : Requests \cup {None} ]
    /\ open \in [Conns -> BOOLEAN]
    /\ pending \in [Conns -> Seq(Requests)]
    /\ waiting \in [Conns -> Requests \cup {None}]
    /\ wire \in [Conns -> Seq(Requests)]

(* What the page takes for the answer to a request is the answer to that   *)
(* request, never one left over from another (post_handler answers /start, *)
(* /stop and /info twice, so this is true of the page's requests only).    *)
OwnAnswer ==
    \A c \in PageConns : waiting[c] # None /\ wire[c] # <<>> => Head(wire[c]) = waiting[c]

(* A request of the page is answered, or its connection closed: before the *)
(* handlers or BLE are there, after a failed start of BLE, while others     *)
(* keep the one task busy with camera requests, and when the chip resets    *)
(* (post_handler, get_handler; the timeout in shutter.c and cameraInfo.c). *)
PageAnswered == \A c \in PageConns : waiting[c] # None ~> waiting[c] = None
=============================================================================
