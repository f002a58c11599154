--------------------------- MODULE WebServerProofs ---------------------------
(***************************************************************************)
(* For any number of connections and any bounds: the type of the web       *)
(* server's state and the answers the page gets.                           *)
(***************************************************************************)
EXTENDS WebServer, TLAPS

(* A task without a request has no connection, and only the requests that  *)
(* go to a camera wait for one.                                            *)
TaskState ==
    /\ http.pc = "idle" => http.conn = "gone"
    /\ http.pc # "idle" => http.req \in Requests
    /\ http.pc = "camera" => http.req \in CameraRequests

(* The one request of a connection of the page is nowhere, or on its way,  *)
(* or at its handler, or answered.                                         *)
Asleep(c) == waiting[c] = None /\ pending[c] = <<>> /\ wire[c] = <<>> /\ http.conn # c
OnItsWay(c) == pending[c] = <<waiting[c]>> /\ wire[c] = <<>> /\ http.conn # c
AtHandler(c) == pending[c] = <<>> /\ wire[c] = <<>> /\ http.conn = c /\ http.req = waiting[c]
Answered(c) == pending[c] = <<>> /\ wire[c] = <<waiting[c]>> /\ http.conn # c

PageState(c) ==
    \/ Asleep(c)
    \/ waiting[c] \in PageRequests /\ (OnItsWay(c) \/ AtHandler(c) \/ Answered(c))

(* Registering begins with no handler and ends with the last one.          *)
BootState ==
    /\ boot \in {"nvs", "spiffs", "wifi", "httpd"} => registered = 0
    /\ boot = "register" => registered \in 0 .. 6

Inv == TypeOK /\ BootState /\ TaskState /\ \A c \in PageConns : PageState(c)

LEMMA NoneIsNoRequest == None \notin Requests
BY DEF None, Requests, Handlers, WithQuery

LEMMA PageIsNoCamera == PageRequests \cap CameraRequests = {}
BY DEF PageRequests, CameraRequests

LEMMA SevenHandlers == Len(Handlers) = 7
BY DEF Handlers

(* No connection is used: the state of the clients after a start.          *)
LEMMA FreshType ==
    ASSUME NEW S
    PROVE  /\ [c \in Conns |-> TRUE] \in [Conns -> BOOLEAN]
           /\ [c \in Conns |-> <<>>] \in [Conns -> Seq(S)]
           /\ [c \in Conns |-> None] \in [Conns -> S \cup {None}]
OBVIOUS

LEMMA InitInv == Init => Inv
<1> SUFFICES ASSUME Init PROVE Inv
    OBVIOUS
<1>1. TypeOK
    <2>1. http \in [ pc : {"idle", "refuse", "file", "camera", "ble", "last"},
                     conn : Conns \cup {"gone"}, req : Requests \cup {None} ]
        BY DEF Init, Idle
    <2>2. /\ open \in [Conns -> BOOLEAN] /\ pending \in [Conns -> Seq(Requests)]
          /\ waiting \in [Conns -> Requests \cup {None}] /\ wire \in [Conns -> Seq(Requests)]
        BY FreshType DEF Init
    <2>3. registered \in 0 .. Len(Handlers)
        BY SevenHandlers DEF Init
    <2>4. boot = "nvs" /\ spiffs = FALSE /\ server = FALSE /\ ble = FALSE
        BY DEF Init
    <2>5. QED
        BY <2>1, <2>2, <2>3, <2>4 DEF TypeOK
<1>2. TaskState
    BY DEF Init, TaskState, Idle
<1>3. ASSUME NEW c \in PageConns PROVE PageState(c)
    BY <1>3, ConnsAssumption DEF Init, PageState, Asleep, Idle
<1>4. BootState
    BY DEF Init, BootState
<1>5. QED
    BY <1>1, <1>2, <1>3, <1>4 DEF Inv

LEMMA ResetInv == Reset => Inv'
<1> SUFFICES ASSUME Reset PROVE Inv'
    OBVIOUS
<1>1. TypeOK'
    <2>1. http' \in [ pc : {"idle", "refuse", "file", "camera", "ble", "last"},
                      conn : Conns \cup {"gone"}, req : Requests \cup {None} ]
        BY DEF Reset, Idle
    <2>2. /\ open' \in [Conns -> BOOLEAN] /\ pending' \in [Conns -> Seq(Requests)]
          /\ waiting' \in [Conns -> Requests \cup {None}] /\ wire' \in [Conns -> Seq(Requests)]
        BY FreshType DEF Reset
    <2>3. registered' \in 0 .. Len(Handlers)
        BY SevenHandlers DEF Reset
    <2>4. boot' = "nvs" /\ spiffs' = FALSE /\ server' = FALSE /\ ble' = FALSE
        BY DEF Reset
    <2>5. QED
        BY <2>1, <2>2, <2>3, <2>4 DEF TypeOK
<1>2. TaskState'
    BY DEF Reset, TaskState, Idle
<1>3. ASSUME NEW c \in PageConns PROVE PageState(c)'
    BY <1>3, ConnsAssumption DEF Reset, PageState, Asleep, Idle
<1>4. BootState'
    BY DEF Reset, BootState
<1>5. QED
    BY <1>1, <1>2, <1>3, <1>4 DEF Inv

(* A step that leaves the server's task and the clients alone, and one     *)
(* that leaves the start alone.                                            *)
LEMMA KeepsClients ==
    ASSUME Inv, TypeOK', BootState', UNCHANGED <<http, clientVars>>
    PROVE  Inv'
BY DEF Inv, TaskState, PageState, Asleep, OnItsWay, AtHandler, Answered, clientVars

LEMMA KeepsBoot == ASSUME BootState, UNCHANGED bootVars PROVE BootState'
BY DEF BootState, bootVars

LEMMA AppMainInv == Inv /\ app_main => Inv'
<1> SUFFICES ASSUME Inv, app_main PROVE Inv'
    OBVIOUS
<1>1. TypeOK /\ BootState /\ Len(Handlers) = 7
    BY SevenHandlers DEF Inv
<1>2. CASE Reset
    BY <1>2, ResetInv
<1>3. CASE nvs_flash_init /\ ~Reset
    <2>1. TypeOK' /\ UNCHANGED <<http, clientVars>>
        BY <1>1, <1>3 DEF nvs_flash_init, TypeOK, clientVars
    <2>2. BootState'
        BY <1>1, <1>3 DEF nvs_flash_init, BootState
    <2>3. QED
        BY <2>1, <2>2, KeepsClients
<1>4. CASE init_spiffs
    <2>1. TypeOK' /\ UNCHANGED <<http, clientVars>>
        BY <1>1, <1>4 DEF init_spiffs, TypeOK, clientVars
    <2>2. BootState'
        BY <1>1, <1>4 DEF init_spiffs, BootState
    <2>3. QED
        BY <2>1, <2>2, KeepsClients
<1>5. CASE wifi_init_softap /\ ~Reset
    <2>1. TypeOK' /\ UNCHANGED <<http, clientVars>>
        BY <1>1, <1>5 DEF wifi_init_softap, TypeOK, clientVars
    <2>2. BootState'
        BY <1>1, <1>5 DEF wifi_init_softap, BootState
    <2>3. QED
        BY <2>1, <2>2, KeepsClients
<1>6. CASE httpd_start
    <2>1. TypeOK' /\ UNCHANGED <<http, clientVars>>
        BY <1>1, <1>6 DEF httpd_start, TypeOK, clientVars
    <2>2. BootState'
        BY <1>1, <1>6 DEF httpd_start, BootState
    <2>3. QED
        BY <2>1, <2>2, KeepsClients
<1>7. CASE Register
    <2>1. registered \in 0 .. 6 /\ registered' = registered + 1
        BY <1>1, <1>7 DEF Register, BootState
    <2>2. registered' \in 0 .. 7 /\ (registered' # 7 => registered' \in 0 .. 6)
        BY <2>1
    <2>3. boot' = IF registered' = 7 THEN "ble" ELSE "register"
        BY <1>1, <1>7 DEF Register
    <2>4. UNCHANGED <<spiffs, server, ble, http, clientVars>>
        BY <1>7 DEF Register
    <2>5. TypeOK'
        BY <1>1, <2>2, <2>3, <2>4 DEF TypeOK, clientVars
    <2>6. BootState'
        BY <2>2, <2>3 DEF BootState
    <2>7. QED
        BY <2>4, <2>5, <2>6, KeepsClients
<1>8. CASE ble_gopro_init /\ ~Reset
    <2>1. TypeOK' /\ UNCHANGED <<http, clientVars>>
        BY <1>1, <1>8 DEF ble_gopro_init, TypeOK, clientVars
    <2>2. BootState'
        BY <1>8 DEF ble_gopro_init, BootState
    <2>3. QED
        BY <2>1, <2>2, KeepsClients
<1>9. QED
    BY <1>2, <1>3, <1>4, <1>5, <1>6, <1>7, <1>8 DEF app_main

LEMMA AskInv == ASSUME Inv, NEW c \in Conns, NEW u \in Sent, Ask(c, u) PROVE Inv'
<1>1. TypeOK /\ TaskState /\ u \in Requests
    BY SentAssumption DEF Inv
<1>2. TypeOK'
    BY <1>1 DEF Ask, TypeOK, bootVars
<1>3. TaskState'
    BY <1>1 DEF Ask, TaskState
<1>4. ASSUME NEW d \in PageConns PROVE PageState(d)'
    <2>1. PageState(d) /\ d \in Conns
        BY <1>4, ConnsAssumption DEF Inv
    <2>2. CASE d = c
        <3>1. Asleep(c) /\ u \in PageRequests
            BY <1>4, <2>1, <2>2, NoneIsNoRequest DEF Ask, PageState, PageRequests, None
        <3>2. waiting'[c] = u /\ pending'[c] = <<u>> /\ wire'[c] = <<>> /\ http'.conn # c
            BY <1>1, <3>1 DEF Ask, Asleep, TypeOK
        <3>3. QED
            BY <2>2, <3>1, <3>2 DEF PageState, OnItsWay
    <2>3. CASE d # c
        BY <1>1, <2>1, <2>3 DEF Ask, TypeOK, PageState, Asleep, OnItsWay, AtHandler, Answered
    <2>4. QED
        BY <2>2, <2>3
<1>5. BootState'
    BY KeepsBoot DEF Inv, Ask
<1>6. QED
    BY <1>2, <1>3, <1>4, <1>5 DEF Inv

LEMMA ReadInv == ASSUME Inv, NEW c \in Conns, Read(c) PROVE Inv'
<1>1. TypeOK /\ TaskState
    BY DEF Inv
<1>2. TypeOK'
    <2>1. Tail(wire[c]) \in Seq(Requests)
        BY <1>1 DEF Read, TypeOK
    <2>2. QED
        BY <1>1, <2>1 DEF Read, TypeOK, bootVars
<1>3. TaskState'
    BY <1>1 DEF Read, TaskState
<1>4. ASSUME NEW d \in PageConns PROVE PageState(d)'
    <2>1. PageState(d) /\ d \in Conns
        BY <1>4, ConnsAssumption DEF Inv
    <2>2. CASE d = c
        <3>1. pending[c] = <<>> /\ wire[c] = <<waiting[c]>> /\ http.conn # c
            BY <2>1, <2>2 DEF Read, PageState, Asleep, OnItsWay, AtHandler, Answered
        <3>2. waiting'[c] = None /\ wire'[c] = <<>> /\ pending'[c] = <<>> /\ http'.conn # c
            BY <1>1, <3>1 DEF Read, TypeOK
        <3>3. QED
            BY <2>2, <3>2 DEF PageState, Asleep
    <2>3. CASE d # c
        BY <1>1, <2>1, <2>3 DEF Read, TypeOK, PageState, Asleep, OnItsWay, AtHandler, Answered
    <2>4. QED
        BY <2>2, <2>3
<1>5. BootState'
    BY KeepsBoot DEF Inv, Read
<1>6. QED
    BY <1>2, <1>3, <1>4, <1>5 DEF Inv

LEMMA CloseInv == ASSUME Inv, NEW c \in Conns, Close(c) PROVE Inv'
<1>1. TypeOK /\ TaskState
    BY DEF Inv
<1>2. /\ http'.pc = http.pc /\ http'.req = http.req
      /\ http'.conn = IF http.conn = c THEN "gone" ELSE http.conn
    BY <1>1 DEF Close, TypeOK, TaskState
<1>3. TypeOK'
    <2>1. http' \in [ pc : {"idle", "refuse", "file", "camera", "ble", "last"},
                      conn : Conns \cup {"gone"}, req : Requests \cup {None} ]
        BY <1>1 DEF Close, TypeOK
    <2>2. /\ open' \in [Conns -> BOOLEAN] /\ pending' \in [Conns -> Seq(Requests)]
          /\ waiting' \in [Conns -> Requests \cup {None}] /\ wire' \in [Conns -> Seq(Requests)]
        BY <1>1 DEF Close, TypeOK
    <2>3. QED
        BY <1>1, <2>1, <2>2 DEF Close, TypeOK, bootVars
<1>4. TaskState'
    BY <1>1, <1>2 DEF TaskState
<1>5. ASSUME NEW d \in PageConns PROVE PageState(d)'
    <2>1. PageState(d) /\ d \in Conns /\ c # "gone"
        BY <1>5, ConnsAssumption DEF Inv
    <2>2. CASE d = c
        BY <1>1, <1>2, <2>1, <2>2 DEF Close, TypeOK, PageState, Asleep
    <2>3. CASE d # c
        BY <1>1, <1>2, <2>1, <2>3, ConnsAssumption
           DEF Close, TypeOK, PageState, Asleep, OnItsWay, AtHandler, Answered
    <2>4. QED
        BY <2>2, <2>3
<1>6. BootState'
    BY KeepsBoot DEF Inv, Close
<1>7. QED
    BY <1>3, <1>4, <1>5, <1>6 DEF Inv

(* What sending an answer and closing a connection leave as it was.        *)
LEMMA SendFacts ==
    ASSUME TypeOK, http.req \in Requests, Send
    PROVE  /\ wire' \in [Conns -> Seq(Requests)]
           /\ \A d \in Conns : d # http.conn => wire'[d] = wire[d]
           /\ http.conn \in Conns => wire'[http.conn] = Append(wire[http.conn], http.req)
<1>1. wire \in [Conns -> Seq(Requests)] /\ http.conn \in Conns \cup {"gone"}
    BY DEF TypeOK
<1>2. CASE http.conn = "gone"
    BY <1>1, <1>2, ConnsAssumption DEF Send
<1>3. CASE http.conn # "gone"
    <2>1. http.conn \in Conns /\ wire' = [wire EXCEPT ![http.conn] = Append(@, http.req)]
        BY <1>1, <1>3 DEF Send
    <2>2. Append(wire[http.conn], http.req) \in Seq(Requests)
        BY <1>1, <2>1
    <2>3. QED
        BY <1>1, <2>1, <2>2
<1>4. QED
    BY <1>2, <1>3

LEMMA CloseSessionFacts ==
    ASSUME TypeOK, UNCHANGED <<open, pending>> \/ CloseSession
    PROVE  /\ open' \in [Conns -> BOOLEAN] /\ pending' \in [Conns -> Seq(Requests)]
           /\ \A d \in Conns : d # http.conn \/ pending[d] = <<>> => pending'[d] = pending[d]
<1>1. open \in [Conns -> BOOLEAN] /\ pending \in [Conns -> Seq(Requests)]
    BY DEF TypeOK
<1>2. CASE UNCHANGED <<open, pending>>
    BY <1>1, <1>2
<1>3. CASE CloseSession /\ http.conn = "gone"
    BY <1>1, <1>3 DEF CloseSession
<1>4. CASE CloseSession /\ http.conn # "gone"
    <2>1. open' = [open EXCEPT ![http.conn] = FALSE] /\ pending' = [pending EXCEPT ![http.conn] = <<>>]
        BY <1>4 DEF CloseSession
    <2>2. <<>> \in Seq(Requests)
        OBVIOUS
    <2>3. pending' \in [Conns -> Seq(Requests)]
        BY <1>1, <2>1, <2>2
    <2>4. open' \in [Conns -> BOOLEAN]
        BY <1>1, <2>1
    <2>5. ASSUME NEW d \in Conns, d # http.conn \/ pending[d] = <<>> PROVE pending'[d] = pending[d]
        BY <1>1, <2>1, <2>5
    <2>6. QED
        BY <2>3, <2>4, <2>5
<1>5. QED
    BY <1>2, <1>3, <1>4

(* A handler that answers and is done.                                     *)
LEMMA Finishes ==
    ASSUME Inv, http.pc # "idle", Send, http' = Idle, UNCHANGED <<bootVars, waiting>>,
           UNCHANGED <<open, pending>> \/ CloseSession
    PROVE  Inv'
<1>1. TypeOK /\ http.req \in Requests
    BY DEF Inv, TaskState
<1>2. http'.pc = "idle" /\ http'.conn = "gone" /\ http'.req = None
    BY DEF Idle
<1>3. TypeOK'
    <2>1. http' \in [ pc : {"idle", "refuse", "file", "camera", "ble", "last"},
                      conn : Conns \cup {"gone"}, req : Requests \cup {None} ]
        BY DEF Idle
    <2>2. wire' \in [Conns -> Seq(Requests)]
        BY <1>1, SendFacts
    <2>3. open' \in [Conns -> BOOLEAN] /\ pending' \in [Conns -> Seq(Requests)]
        BY <1>1, CloseSessionFacts
    <2>4. QED
        BY <1>1, <2>1, <2>2, <2>3 DEF TypeOK, bootVars
<1>4. TaskState'
    BY <1>2 DEF TaskState
<1>5. ASSUME NEW d \in PageConns PROVE PageState(d)'
    <2>1. PageState(d) /\ d \in Conns /\ http'.conn # d
        BY <1>2, <1>5, ConnsAssumption DEF Inv
    <2>2. \A e \in Conns : e # http.conn => wire'[e] = wire[e]
        BY <1>1, SendFacts
    <2>3. \A e \in Conns : e # http.conn \/ pending[e] = <<>> => pending'[e] = pending[e]
        BY <1>1, CloseSessionFacts
    <2>4. CASE http.conn = d
        <3>1. /\ waiting[d] \in PageRequests /\ pending[d] = <<>> /\ wire[d] = <<>>
              /\ http.req = waiting[d]
            BY <2>1, <2>4 DEF PageState, Asleep, OnItsWay, AtHandler, Answered
        <3>2. wire'[d] = Append(<<>>, waiting[d])
            BY <1>1, <2>1, <2>4, <3>1, SendFacts
        <3>3. Append(<<>>, waiting[d]) = <<waiting[d]>>
            OBVIOUS
        <3>4. QED
            BY <2>1, <2>3, <3>1, <3>2, <3>3 DEF PageState, Answered
    <2>5. CASE http.conn # d
        BY <2>1, <2>2, <2>3, <2>5 DEF PageState, Asleep, OnItsWay, AtHandler, Answered
    <2>6. QED
        BY <2>4, <2>5
<1>6. BootState'
    BY KeepsBoot DEF Inv
<1>7. QED
    BY <1>3, <1>4, <1>5, <1>6 DEF Inv

LEMMA TakeInv == ASSUME Inv, NEW c \in Conns, Take(c) PROVE Inv'
<1> DEFINE u == Head(pending[c])
<1>1. TypeOK /\ TaskState /\ http.pc = "idle" /\ http.conn = "gone" /\ pending[c] # <<>>
    BY DEF Inv, TaskState, Take
<1>2. pending[c] \in Seq(Requests)
    BY <1>1 DEF TypeOK
<1>3. u \in Requests /\ Tail(pending[c]) \in Seq(Requests)
    BY <1>1, <1>2
<1>4. /\ http'.conn = c /\ http'.req = u
      /\ http'.pc \in {"refuse", "file", "camera", "ble", "last"}
      /\ http'.pc = "camera" => u \in CameraRequests
    <2> DEFINE found == \E k \in 1 .. registered : Handlers[k] = Path(u)
               at == CASE ~found -> "refuse"
                       [] found /\ u = WithQuery -> "refuse"
                       [] found /\ u = "/" -> "file"
                       [] found /\ u \in CameraRequests -> "camera"
                       [] found /\ u \in BleRequests -> "ble"
                       [] OTHER -> "last"
    <2>1. http' = [conn |-> c, req |-> u, pc |-> at]
        BY DEF Take
    <2>2. at \in {"refuse", "file", "camera", "ble", "last"}
        <3> HIDE DEF found
        <3> QED
            BY DEF WithQuery, CameraRequests, BleRequests
    <2>3. at = "camera" => u \in CameraRequests
        <3> HIDE DEF found
        <3> QED
            BY DEF WithQuery, CameraRequests, BleRequests
    <2> HIDE DEF at
    <2>4. QED
        BY <2>1, <2>2, <2>3
<1>5. TypeOK'
    <2>1. http' \in [ pc : {"idle", "refuse", "file", "camera", "ble", "last"},
                      conn : Conns \cup {"gone"}, req : Requests \cup {None} ]
        BY <1>3 DEF Take
    <2>2. pending' \in [Conns -> Seq(Requests)]
        BY <1>1, <1>3 DEF Take, TypeOK
    <2>3. QED
        BY <1>1, <2>1, <2>2 DEF Take, TypeOK, bootVars
<1>6. TaskState'
    BY <1>3, <1>4 DEF TaskState
<1>7. ASSUME NEW d \in PageConns PROVE PageState(d)'
    <2>1. PageState(d) /\ d \in Conns
        BY <1>7, ConnsAssumption DEF Inv
    <2>2. CASE d = c
        <3>1. waiting[c] \in PageRequests /\ pending[c] = <<waiting[c]>> /\ wire[c] = <<>>
            BY <1>1, <2>1, <2>2 DEF PageState, Asleep, OnItsWay, AtHandler, Answered
        <3>2. u = waiting[c] /\ Tail(pending[c]) = <<>>
            BY <3>1
        <3>3. pending'[c] = <<>>
            BY <1>1, <3>2 DEF Take, TypeOK
        <3>4. waiting'[c] = waiting[c] /\ wire'[c] = wire[c]
            BY DEF Take
        <3>5. QED
            BY <1>4, <2>2, <3>1, <3>2, <3>3, <3>4 DEF PageState, AtHandler
    <2>3. CASE d # c
        <3>1. pending'[d] = pending[d] /\ waiting'[d] = waiting[d] /\ wire'[d] = wire[d]
            BY <1>1, <2>1, <2>3 DEF Take, TypeOK
        <3>2. http.conn # d /\ http'.conn # d
            BY <1>1, <1>4, <2>1, <2>3, ConnsAssumption
        <3>3. QED
            BY <2>1, <3>1, <3>2 DEF PageState, Asleep, OnItsWay, AtHandler, Answered
    <2>4. QED
        BY <2>2, <2>3
<1>8. BootState'
    BY KeepsBoot DEF Inv, Take
<1>9. QED
    BY <1>5, <1>6, <1>7, <1>8 DEF Inv

(* The camera request, but for a reset.                                    *)
LEMMA CameraAnswersInv ==
    ASSUME Inv, http.pc = "camera", Send, http' = [http EXCEPT !.pc = "last"],
           UNCHANGED <<bootVars, open, pending, waiting>>
    PROVE  Inv'
<1>1. TypeOK /\ http.req \in Requests /\ http.req \in CameraRequests
    BY DEF Inv, TaskState
<1>2. http'.pc = "last" /\ http'.conn = http.conn /\ http'.req = http.req
    BY <1>1 DEF TypeOK
<1>3. TypeOK'
    <2>1. http' \in [ pc : {"idle", "refuse", "file", "camera", "ble", "last"},
                      conn : Conns \cup {"gone"}, req : Requests \cup {None} ]
        BY <1>1 DEF TypeOK
    <2>2. wire' \in [Conns -> Seq(Requests)]
        BY <1>1, SendFacts
    <2>3. QED
        BY <1>1, <2>1, <2>2 DEF TypeOK, bootVars
<1>4. TaskState'
    BY <1>1, <1>2 DEF TaskState
<1>5. ASSUME NEW d \in PageConns PROVE PageState(d)'
    <2>1. PageState(d) /\ d \in Conns
        BY <1>5, ConnsAssumption DEF Inv
    <2>2. http.conn # d
        BY <1>1, <2>1, PageIsNoCamera DEF PageState, Asleep, OnItsWay, AtHandler, Answered
    <2>3. wire'[d] = wire[d]
        BY <1>1, <2>1, <2>2, SendFacts
    <2>4. QED
        BY <1>2, <2>1, <2>2, <2>3
           DEF PageState, Asleep, OnItsWay, AtHandler, Answered
<1>6. BootState'
    BY KeepsBoot DEF Inv
<1>7. QED
    BY <1>3, <1>4, <1>5, <1>6 DEF Inv

LEMMA BleCallInv == ASSUME Inv, BleCall PROVE Inv'
<1>1. CASE Reset
    BY <1>1, ResetInv
<1>2. CASE ~Reset
    <2>1. http' = [http EXCEPT !.pc = "last"] /\ UNCHANGED <<bootVars, clientVars>>
        BY <1>2 DEF BleCall
    <2>2. TypeOK /\ TaskState /\ http.pc = "ble"
        BY DEF Inv, BleCall
    <2>3. http'.pc = "last" /\ http'.conn = http.conn /\ http'.req = http.req
        BY <2>1, <2>2 DEF TypeOK
    <2>4. TypeOK'
        BY <2>1, <2>2 DEF TypeOK, bootVars, clientVars
    <2>5. TaskState'
        BY <2>2, <2>3 DEF TaskState
    <2>6. ASSUME NEW d \in PageConns PROVE PageState(d)'
        BY <2>1, <2>3, <2>6 DEF Inv, clientVars, PageState, Asleep, OnItsWay, AtHandler, Answered
    <2>7. BootState'
        BY <2>1, KeepsBoot DEF Inv
    <2>8. QED
        BY <2>4, <2>5, <2>6, <2>7 DEF Inv
<1>3. QED
    BY <1>1, <1>2

LEMMA HandlerInv == ASSUME Inv, Handler PROVE Inv'
<1>1. CASE Refuse
    BY <1>1, Finishes DEF Refuse
<1>2. CASE get_handler
    BY <1>2, Finishes DEF get_handler
<1>3. CASE CameraAnswers
    <2>1. CASE Reset
        BY <2>1, ResetInv
    <2>2. CASE ~Reset
        BY <1>3, <2>2, CameraAnswersInv DEF CameraAnswers
    <2>3. QED
        BY <2>1, <2>2
<1>4. CASE BleCall
    BY <1>4, BleCallInv
<1>5. CASE LastAnswer
    BY <1>5, Finishes DEF LastAnswer
<1>6. QED
    BY <1>1, <1>2, <1>3, <1>4, <1>5 DEF Handler, start_stop_recording, get_camera_info

LEMMA NextInv == Inv /\ [Next]_vars => Inv'
<1> SUFFICES ASSUME Inv, [Next]_vars PROVE Inv'
    OBVIOUS
<1>1. CASE app_main
    BY <1>1, AppMainInv
<1>2. CASE Handler
    BY <1>2, HandlerInv
<1>3. ASSUME NEW c \in Conns, Take(c) PROVE Inv'
    BY <1>3, TakeInv
<1>4. ASSUME NEW c \in Conns, Read(c) PROVE Inv'
    BY <1>4, ReadInv
<1>5. ASSUME NEW c \in Conns, Close(c) PROVE Inv'
    BY <1>5, CloseInv
<1>6. ASSUME NEW c \in Conns, NEW u \in Sent, Ask(c, u) PROVE Inv'
    BY <1>6, AskInv
<1>7. CASE UNCHANGED vars
    <2>1. UNCHANGED <<bootVars, http, clientVars>>
        BY <1>7 DEF vars
    <2>2. TypeOK' /\ BootState'
        BY <2>1 DEF Inv, TypeOK, BootState, bootVars, clientVars
    <2>3. QED
        BY <2>1, <2>2, KeepsClients
<1>8. CASE BleAborts
    BY <1>8, ResetInv DEF BleAborts
<1>9. QED
    BY <1>1, <1>2, <1>3, <1>4, <1>5, <1>6, <1>7, <1>8 DEF Next

LEMMA InvHolds == Spec => []Inv
BY InitInv, NextInv, PTL DEF Spec

(* The state of the web server has its type, whatever the clients send:    *)
(* no more handlers are registered than there are (app_main).              *)
THEOREM TypeCorrect == Spec => []TypeOK
<1>1. Inv => TypeOK
    BY DEF Inv
<1>2. QED
    BY <1>1, InvHolds, PTL

(* The page never takes the answer to one request for that to another,     *)
(* for any number of pages and other clients (post_handler, whose second   *)
(* answer to /start, /stop and /info goes to no page).                     *)
THEOREM PageGetsItsAnswer == Spec => []OwnAnswer
<1>1. Inv => OwnAnswer
    <2> SUFFICES ASSUME Inv, NEW c \in PageConns, waiting[c] # None, wire[c] # <<>>
                 PROVE  Head(wire[c]) = waiting[c]
        BY DEF OwnAnswer
    <2>1. wire[c] = <<waiting[c]>>
        BY DEF Inv, PageState, Asleep, OnItsWay, AtHandler, Answered
    <2>2. QED
        BY <2>1
<1>2. QED
    BY <1>1, InvHolds, PTL
=============================================================================
