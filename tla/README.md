# A verification project for the GoPro CAN-bus controller

The repository holds two ESP32 programs that let a race car control GoPro
cameras. `src/GoProCanBusController` is the current one: a soft access point
with a small web page, and a Bluetooth LE central (NimBLE) that scans for
cameras, connects, discovers their GATT tables and writes shutter commands.
`src/RCP_ESP32_GoPro_Control` is the older one: buttons, a camera list in flash
and HTTP requests to cameras that join the access point.

This directory models both programs with TLA+, most of it the BLE central, in
which the difficult behaviour lies: TLC checks small instances; for every
instance, TLAPS proves the main invariants of each of the models. Everything below about the
code was read in the code; paths are relative to
`src/GoProCanBusController/components` unless they start with `src`.

## 1. Inventory

| Component | State | Operations | Interacts with |
|---|---|---|---|
| **Peer discovery**, `ble_gopro/peer.c` | per peer: list of services, in it characteristics, in it descriptors; `disc_prev_chr_val`, `cur_svc`, `disc_cb`; four block pools; the peer list | `peer_add`, `peer_delete`, `peer_disc_all`, `peer_svc_disced`, `peer_chr_disced`, `peer_dsc_disced`, `peer_disc_complete` | started and torn down by gap.c; driven by callbacks of NimBLE's GATT client |
| **GAP events**, `ble_gopro/gap.c` | none of its own: `connected_camera`, the peer list, NimBLE's procedures | `ble_connect`, `blecent_gap_event`, `ble_on_disc_complete` | NimBLE's host task calls it; calls peer.c, gatt.c and NimBLE |
| **GATT client**, `ble_gopro/gatt.c` | `connected_camera.command_handle`; the camera's CCCDs | `subscribe_to_characteristics`, `assign_command_handle`, `gopro_write_command` | called by gap.c in the host task, `gopro_write_command` by the web server's task |
| **BLE set-up**, `ble_gopro/ble_gopro.c` | host configuration, pool sizes | `ble_gopro_init`, `ble_gopro_scan`, reset and sync callbacks | called by `app_main` and by the web server |
| **Web server**, `webServer/webServer.c` | none | `get_handler`, `post_handler` (`/start`, `/stop`, `/info`, `/shutter_start`, `/startscan`, `/stopscan`) | its own task; calls BLE and the camera's HTTP interface |
| **Wi-Fi camera control**, `cameraControls/` | none | `start_recording`, `stop_recording`, `get_camera_info`: blocking HTTP requests; `start_recording_ble` | called by the web server |
| **UDP server**, `udpServer/udpServer.c` | `udp_socket`, `remote_addr` | `udp_server_task`, `udp_send_message` | nothing calls it yet |
| **Soft AP**, `softAP/softAP.c` | Wi-Fi driver's configuration | `wifi_init_softap` | `app_main` |
| **Start**, `src/GoProCanBusController/main` | start order | `app_main` | all of the above |
| **Printing**, `ble_gopro/misc.c` | none | address and descriptor formatting | log only |
| **RCP program**, `src/RCP_ESP32_GoPro_Control/main` | button queue, camera array in NVS | button interrupts and task, saving and loading cameras | its camera control |
| **RCP camera control** | one UDP socket | HTTP requests, wake-up packets | RCP main |

What is hard here, and what makes each part correct:

* *Peer discovery* is one long sequence of callbacks, each of which picks the
  next GATT procedure from lists an earlier one filled, steered by a cursor
  (`disc_prev_chr_val`) that at once says "how far" and "whether at all". It
  has to terminate, to find every attribute once, to survive empty pools,
  refused and failed procedures and broken links, to be reported exactly once,
  and to give every block back. A new encryption event starts it over, possibly
  while it runs.
* *GAP events* come in any order the radio and the camera choose; a scan or
  connection request of the web server may come between any two. Every link
  must have its peer, be counted against the limit, and end up discovered or
  down; a failed attempt must not block the next.
* *connected_camera* is written by the host task, in two steps far apart, and
  read by the web server's task, without a lock, and outlives the link it names.
  A shutter command must be written to the shutter characteristic of the camera
  it reaches.
* An *advertising report* is walked twice with no bound on the reads but the
  report's own length bytes, which are the sender's. Exactly the GoPros must be
  recognised, the walks must end, and end inside the report, which they do not
  always.
* The *web server* has one task, which a camera that does not answer holds for
  5 s; it takes requests before its handlers and the BLE host are there; three
  of its handlers answer twice. The page must get an answer, also around a start
  that fails and a reset, and the answer to what it asked.
* The *RCP program* is cut off at any point by power or by a failed
  `ESP_ERROR_CHECK`, also between the two NVS calls that make one save. The
  flash must end up with the camera that joined last and never go back to an
  earlier one. Its button is polled, so a press may be missed but must not be
  reported twice.
* The *UDP server* shares its address buffer between two tasks, but nothing
  starts it.

`PROJECT.json` lists the hazards one by one with the lines where they bite and
the properties that cover them.

## 2. Modules

| Module | Models |
|---|---|
| `PeerTable` | what a camera's attribute table can look like (external), and what a complete discovery of it must have found (`Mirror`): the reference the discovery is checked against |
| `DiscoveryService` | the abstract service: a discovery begins, is reported, and a success hands over `Mirror(table)` in one step |
| `PeerDiscovery` | peer.c in detail, with the parts of gap.c and gatt.c that run when a discovery ends; shown to implement `DiscoveryService` |
| `GoProCentral` | gap.c, the peer list, `connected_camera`, `ble_gopro_scan` and `gopro_write_command`, the two tasks interleaved; discovery is one step here, as `DiscoveryService` allows |
| `AdvReport` | the two walks over an advertising report in gap.c, with every index they read |
| `WebServer` | the start of the controller (`app_main`) and its web server with all seven handlers, their clients, and the cameras' HTTP interface |
| `RcpProgram` | the older program: its start, the camera it saves to flash, its button |
| `PeerDiscoveryProofs`, `GoProCentralProofs`, `AdvReportProofs`, `WebServerProofs`, `RcpProgramProofs` | the theorems about the module they are named after |
| `PeerMirrorProofs`, `PeerOutcomeProofs` | further theorems about `PeerDiscovery`, each built on the invariant of the one before |
| `PeerPoolsProofs` | its types and its pools, built on `PeerDiscoveryProofs` |
| `MCPeerDiscovery`, `MCGoProCentral`, `MCAdvReport`, `MCWebServer`, `MCRcpProgram` | the instances TLC checks |

Three of the models meet in the handlers of the web server. What `/startscan` and
`/shutter_start` do to the BLE host in the server's task is in `GoProCentral`
(`ble_gopro_scan`, `gopro_write_command`), interleaved with the host task;
`WebServer` takes them as calls that return (`BleCall`), and models what comes
before and after: who asks, when, and what is answered. `AdvReport` is what
`GoProCentral` decides in one step when an advertisement is heard.
`PeerDiscovery` is what it takes as one step when a discovery ends; that step is
`DiscoveryService`, which `PeerDiscovery` implements.

### PeerDiscovery and peer.c

`svcs` is `peer->svcs` with its nested lists, in list order; `prev` is
`disc_prev_chr_val`; `cur` is `cur_svc`, as the start handle it leads to and
whether the block behind it was freed; `used` counts the blocks taken from the
service, characteristic and descriptor pools. `chain[c]` is the GATT procedure
that the c-th discovery of this link waits for (kind, next handle, end, and the
value handle passed along for descriptors), `outcome[c]` what became of it.

An action is one callback run to its end in the host task. For each kind of
procedure there is a `peer_*_disced(c)` for a reported attribute and a
`peer_*_done(c, starts)` for `BLE_HS_EDONE`, which calls `peer_disc_chrs` or
`peer_disc_dscs` as the code does, and so starts the next procedure, or fails
because the GATT client takes no more (`starts = FALSE`), or completes the
discovery and runs `ble_on_disc_complete` to its end, with its CCCD writes and
the command handle. `ProcError` is any other status. `Connect`, `Disconnect`
and `peer_disc_all` are the events of gap.c that add, delete and (re)discover
the peer. Answers of a camera come in handle order and within the range asked,
which NimBLE enforces.

Details that matter and are kept: the lists' search and insertion rules
(`find_prev`, `Insert`, and `Link`, which for characteristics and descriptors
cuts off what followed the insertion point); the duplicate test for
characteristics, which looks a definition handle up among value handles; the
tests `disc_prev_chr_val > 0` that silently drop a discovery; the comparison of
`disc_prev_chr_val`, a value handle, with definition handles; a refused
descriptor procedure, after which the cursor is set although the discovery was
already reported as failed; `cur_svc` read after its block was freed and
perhaps handed out again (`CurStart`: the handle it still holds, or that of
any service now on the list).

### GoProCentral and gap.c

`op` is NimBLE's one GAP procedure; `hostPc = "cancelled"` is the point inside
`ble_connect` between `ble_gap_disc_cancel` and `ble_gap_connect`, where the web
server's task can step in; `link[h]` is the camera connected under handle h;
`peers` is the list of peer.c; `sm`, `phase` and `closing` say what security,
discovery and termination are doing on the link; `bonds` is the key store;
`camera` is `connected_camera`; `http` holds the arguments
`gopro_write_command` has read so far, each read being a step of its own since
nothing orders or protects them; `delivered` is the last write that went out.
`alone` is a history variable: the link that has been the only one since it
came up. Every other action is one case of `blecent_gap_event` run to its end. While the
host task is inside `ble_connect` it handles no event (`hostPc = "idle"` in
every host action).

### AdvReport and the case DISC

One step is one round of a loop: a field of the first walk (`FindField`), a
UUID in one of its lists (`FindUuid`), a field of the second walk
(`NamesField`, in which the `memcpy` of a name, of at most 30 bytes, and the
loop over UUIDs are one step with the highest index they read). `top` is the
highest index read so far, `data[len]` the byte that follows the report in
memory. What is read has no effect but the decision, so the text of the log is
left out. A report is any sequence of up to 255 bytes, which is what
`length_data` can say, with other memory behind it: its fields may fill it, stop
at an empty field, be cut short, or claim more than there is, and a list may
hold half a UUID. `LaidOut` tells the reports that keep to the format from the
others; it is a premise of what `Recognised` says of a GoPro, and of the second
half of `ReadsBounded`, and no restriction of the model. `Reach` is how far behind
the last byte a length byte can lead: the memory up to there is given contents
so that a read there has a value, of which nothing is assumed.

### WebServer, webServer.c and goPro_canBus_main.c

`boot` is where `app_main` is; each of its calls is a step, with the failures
it logs, returns on, or turns into a reset. `http` is the one task of
`esp_http_server`, which runs a request to the end of its handler; a handler's
sends are steps of their own, since clients act between them. `wire[c]` are the
answers on connection c, each named by the request it answers, `waiting[c]` the
request its client waits for. So `CameraAnswers` sends one answer, as
`start_recording`, `stop_recording` and `get_camera_info` do, and `LastAnswer`
the other, at the end of `post_handler`; where `esp_http_client_init` returns
NULL, which nothing checks, the request ends in a reset. `BleAborts` is an assert
of peer.c that fails in the host task while the server is at anything else
(`discovery_overlap` shows how one can). A request whose URI has a query finds
its handler by its path and then no branch of `post_handler`. A call into BLE
before `nimble_port_init` succeeded is undefined: it returns or resets the
chip. The page (`data/index.html`) has three requests and is assumed to have one of
them under way on a connection; any other client may send anything.

### RcpProgram and softap_example_main.c

A station's MAC address is the number of its join. `save` says which call of
`save_camera_info_array_to_nvs` is next; `nvs_set_blob` may write at once or
leave the list in `cached` for `nvs_commit`; any of them may fail, which resets.
`Restart` clears all but the flash. `presses` and `reports` are history: how
often the line went down since the task started, and how many reports the task
made between one press and the next. `camera_array.rest` is what the stack held:
`wifi_event_handler` sets element 0 alone and saves all. `button_task` is one
poll. The functions the program never runs
(`retrieve_camera_info_array_from_nvs`, `udp_client_task`,
`button_isr_handler`, whose interrupt type is disabled) are left out.

Three things the model follows and a reader of the log or the flash should
know: the stored address is not 10.71.79.2 but 79, the bitwise or of its bytes
(`softap_example_main.c:125`); the other elements of the stored array are uninitialised; and
the line has a pull-up, "if your button is connected to ground" (`:58`), while the
loop takes a high line for a press, "Assuming the button is active-high"
(`:261`). With the button to ground "Button pressed!" is logged when it is
released, and once at the start for an idle line. The two comments contradict
each other, so no property takes a side.

### Outside the code

These are not in `src` and are modelled from how the code uses them: the
camera's attribute table and answers; NimBLE's GATT client (a limited number of
procedures, an error for each when the link breaks, ATT's timeout of 30 s); its
GAP procedure, connection table and security manager; the radio. Assumed: a
link is reported by LINK_ESTAB before its security events are; one security
procedure runs per link; `ble_gap_terminate` is accepted: the code ignores its
result (`gap.c:33`, `:199`), and a link NimBLE refused to end would stay up, half
discovered, against `FailedLinkGoesDown` and `LinkResolves`; a host reset
reports a DISCONNECT for each link before anything else happens. `cccd` holds what was sent to a CCCD: whether the camera accepts it is
told to no one (the write has no callback), so it makes no difference to the
program.

## 3. What TLC checks

Runs about discovery (`MCPeerDiscovery`):

* `discovery_tables`: every well-formed table of up to six handles without a
  barren service (one with attributes and no characteristic, which
  `discovery_barren` is about), with
  handles nobody uses and with includes, and seven GoPro-like tables of up to
  eleven, one with more characteristics and one with more descriptors than their
  pool holds; two successive
  discoveries; errors, refusals and disconnections anywhere. A reported success
  means `svcs = Mirror(table)` (`MirrorOnComplete`); a running discovery always
  has a procedure that will call back, and a cursor that does not drop it
  (`RunningIsDriven`); blocks taken are blocks listed (`NoLeak`); no assert is
  reached (`NoAssertFailure`); success leaves the right command handle and no
  notifying characteristic without its CCCD write as long as the GATT client
  has a procedure for each (`OkIsUsable`); no characteristic is listed twice
  (`NoDuplicateChr`); a discovery goes from services to characteristics to
  descriptors, from range to range and from handle to handle, and never back
  (`NeverReturns`). `ImplementsService` is the refinement to
  `DiscoveryService`; `DiscoveryEnds` and `FailedLinkGoesDown` are its liveness.
  Six handles hold two services, or one with two characteristics, or one with
  three descriptors: every pair of neighbours that the range computations and
  the cursor tell apart. The pools of two, three and three blocks are too
  small for some of the tables each.
* `discovery_shared`: two discoveries of one peer at the same time. The lists
  suffer (`discovery_overlap`) but no more blocks are given back than were taken
  (`NoDoubleFree`). Besides the types that is all that is left: see section 5.

Runs about the central (`MCGoProCentral`):

* `central_two`: two cameras of different models, two handles, two connections,
  web requests at any point. `PeersMirrorLinks`: a link always finds a free peer
  block, and none is left behind. `HandlesKnown`: no handle is made up.
  `ReadyMeansShutter`: a discovery that succeeded on a link that came up alone
  leaves `connected_camera` naming that link and its own command characteristic,
  whatever was connected before. With a second link up, the two handles may
  belong to two cameras, which the code does not prevent:
  `MYNEWT_VAL(BLE_MAX_CONNECTIONS)` (`ble_gopro.c:93`) is not set in
  `sdkconfig.defaults` and is 3 by default.
* `central_live`: with one handle, and a camera without a command
  characteristic, `LinkResolves` and `ProcedureFrees`.

The other runs:

* `adv_reports` (`MCAdvReport`): all reports of up to three fields out of eleven
  kinds (flags; UUID lists that are empty, hold the GoPro's UUID first, second
  or alone, or hold its two bytes across two UUIDs; names and service data with
  the same bytes; an odd number of bytes), followed by nothing, by the empty
  field that ends a report early, or by that and a field that must not be seen;
  and a full report of 31 bytes with the service after a name; every report of
  two fields cut short at every byte; and reports with a field that
  claims up to 255 bytes or holds half a UUID. `Recognised`: of the reports laid
  out in fields, exactly the GoPros' lead to a connection. `ReadsBounded`: no
  read goes further behind a report than one length byte leads, and a report
  laid out in fields is read to its end and no further, unless it ends in
  service data of odd size, which the loop that logs UUIDs takes two bytes at a
  time. `Decides`: the walks end.
  Three fields give every kind every pair of neighbours; the walks keep no more
  than `pos` and `is_gopro` from one field to the next.
* `web_requests` (`MCWebServer`): the page and one other client ask from the
  moment the server runs, through failing starts, failing cameras and resets.
  `OwnAnswer`: what the page takes for the answer to a request is the answer to
  that request. It is not so for a client of `/start`, `/stop` or `/info`, which
  gets a second answer that the next request on the connection is met with;
  the page is spared because it never sends those. `PageAnswered`: the page is
  answered, or its connection closed: before the handlers are registered, before
  BLE is there or when it never will be, without a file system, through resets,
  and however busy the other client keeps the task. Bounds: one
  request ahead of the server (`MaxAhead`), one unread answer when the next is
  asked (`MaxUnread`), which is what the second answers need to get in the way.
  `/stop` takes the same path as `/start` and is not sent.
* `rcp_program` (`MCRcpProgram`): `LastJoinSaved`, `StoredGoesForward` and
  `JoinSaved` for the flash, `OncePerPress` for the button: from one press to the
  next at most one is reported, whichever changes of the line the polls see.
  Three joins over all restarts, two events waiting, two stations at a
  time (four in the program) and three presses: enough for a join to wait
  while another is being saved, for a restart between the two, and for any
  changes of the line between two polls.

Two cameras and two connections are the least in which one camera's events come
between another's, a camera that is connected advertises again, the limit is met
and a handle is reused by another camera. `central_stale` has a limit of one
connection, which makes its finding the stronger: it takes no two links at a
time. More would only repeat these roles.

Bounds: the tables, pool sizes and GATT procedures are constants, smaller than
the program's 64 blocks and its NimBLE configuration; `MaxChains` bounds the
encryption events in the life of a link (two: one rediscovery, or one overlap);
`Overlap` says whether the second may come while the first runs. `GoProCentral`
excludes overlapping discoveries by the last conjunct of `SecurityRequest`'s
guard and leaves them to `PeerDiscovery`. The overlap runs switch deadlock
checking off because a failed assert stops the program.

### Fairness

In `PeerDiscovery`, a procedure gets its answers or its error, because the ATT
transaction timeout turns silence into an error: weak fairness of
`Answer(c, TRUE)` and not of the refusals, which nothing obliges to happen. A
link that is being terminated goes down, by the supervision timeout at the
latest; a link that is up need not. In `GoProCentral`, scans, connection
attempts and security procedures end by their 30 s timers, and discovery is
reported (`DiscoveryEnds`). These are strongly fair because the host task takes
its events from a queue in order: an event that waits is handled although the
task is in `ble_connect` time and again. Nothing is assumed of web requests,
advertisements, cameras asking for security, or disconnections.

In `WebServer` both tasks run (weak fairness of `app_main` and of `Handler`; a
request to a camera ends by its timeout of 5 s), and each connection with a
request gets its turn, since the server's loop goes through all of them
(strong fairness of `Take(c)`, which is disabled while another request is
handled). The page reads an answer that has come and notices that its
connection was closed. Other clients need not do anything. In `RcpProgram` the
three FreeRTOS tasks run; stations, the button and power do as they like. In
`AdvReport` the callback runs to its end.

### What the violated runs show

* `discovery_overlap`: `peer_disc_all` frees the services under a running
  discovery; its next characteristic finds no service, "this shouldn't happen"
  (`peer.c:320`), and the assert stops the program.
* `discovery_barren`: a service with attributes and no characteristic (an
  include declaration is enough) is chosen again every time its characteristic
  discovery ends. The discovery goes on for ever, the next service is never
  reached, nothing is reported.
* `discovery_cccd`: "Write to the CCCD to enable notifications" writes the
  characteristic *property* bit 0x10, where a CCCD enables with bit 0.
* `central_stale`: DISCONNECT leaves `connected_camera` alone and LINK_ESTAB
  replaces only the connection handle: a shutter command before the end of
  discovery goes to the new camera at the old camera's attribute handle.
* `adv_overread`: a report of `adv_length` bytes (`gap.c:123`) whose last length
  byte says more than is there is read behind its end by both walks
  (`ReadsInside`).

## 4. What is proved

`GoProCentralProofs`, for any set of cameras, any finite set of handles that
contains 0, any connection limit and any layouts (the four named assumptions of
`GoProCentral`):

* `PeersAreLinks` (`PeersMirrorLinks`) and `CentralTypes` (`TypeOK`). Neither is
  inductive alone. That a link finds a free peer block when it comes up needs
  `SlotReserved`: while a connection attempt is pending, fewer links than
  `MaxConn` are up and none is to its camera. This in turn needs `WorkIsOnLinks`:
  security, discovery and termination concern live links only, and `hostPc` a
  pending attempt. These two are about what NimBLE does and are no properties of
  the code, only parts of the invariant `CentralInv`. One lemma
  per group of actions, under it one step per conjunct the action can disturb.
* `HandlesAreKnown` (`HandlesKnown`), by itself inductive on top of `CentralInv`.
* `ReadyWhenAlone` (`ReadyMeansShutter`), for any connection limit. Its invariant
  adds that a link in `alone` is the only one, and the one `camera.conn` names.

Four modules are about `PeerDiscovery`, for any set of attribute tables that
are well formed and have at most 65535 handles (`TablesAssumption`; a handle is
a `uint16_t`), any pool sizes, any number of GATT procedures and of encryption
events.

`PeerDiscoveryProofs`:

* `DiscoveryIsDriven`: if discoveries do not overlap,
  `Spec => []RunningIsDriven`: one that has not been reported has a procedure
  that will call back and a cursor above 0. The inductive invariant `DrivenInv`
  adds that at most one discovery runs (otherwise another one's end clears the
  shared cursor), that a procedure waits for running discoveries only, and the
  types of the lists, in which value handles are above 0 (the cursor is set to
  one). Its first lemmas say that what the definitions choose exists: the
  smallest element, the insertion point of a list, the first position. The
  overlap the theorem excludes is what `discovery_overlap` shows to go wrong.

* `NoAssertIsReached` (`NoAssertFailure`) and `NoChrIsListedTwice`
  (`NoDuplicateChr`), with the same premise. `ListsInv`, which contains
  `DrivenInv`, says that the lists name
  attributes of the table in the order of their handles, that services end
  before the next one begins, and that the range of the procedure that waits
  begins behind what its list already holds. So a search for a service or a
  characteristic finds it, and what is listed is new and goes to the end, where
  the lists' two ways to insert agree; the duplicate test that compares
  different kinds of handles is never what keeps duplicates out.

Two modules go on from there, each with an inductive invariant that contains
the one before, and with the same premise.

* `PeerMirrorProofs`: `SuccessIsComplete` (`MirrorOnComplete`). `ProgressInv`
  says how far each of the three phases has come: what is behind the place
  reached is listed, and what the cursor has passed has all its descriptors.
  The step that needs care is `peer_disc_dscs`: a characteristic skipped because
  `disc_prev_chr_val` is beyond it was visited, or is empty by the handle of the
  next one (`EndHandle`), because positions in the lists, and so the cursor,
  follow the handles (`PlacesRise`).
  `StepsImplementService`: `Spec => Service!Init /\ [][Service!Next]_(Service!vars)`,
  the safety half of `ImplementsService`: every step of peer.c is a step of the
  abstract service or none. It needs `OutcomesInOrder`, that a running discovery
  is the link's latest.
* `PeerOutcomeProofs`: `SuccessIsUsable` (`OkIsUsable`): the command handle is the
  value handle of the camera's first command characteristic, and as long as the
  GATT client has procedures for them, every CCCD of a notifying characteristic
  of the GoPro service is written.
  `SearchNeverReturns` (`NeverReturns`): `FrontInv` adds to `MirrorInv` that
  while the characteristics of a service are sought, no service before it waits
  for its own, and that the procedure is where it began as long as none is
  listed. The next range then ends behind the last one: services, because their
  ends rise with the list; characteristics, because the cursor is the value
  handle of the one just searched, so the next lies behind it, and the next is
  not empty. `AnswersAdvance` sharpens this: if no service of any table is
  barren, every answer ends the discovery or takes it further, so the only thing
  in peer.c that can keep a discovery from its end is the barren service of
  `discovery_barren`. That is the safety half of `DiscoveryEnds`; that answers
  come, and that the places of a finite table run out, is left to TLC.

`PeerPoolsProofs`:

* `TypeCorrect` (`TypeOK`, in which a handle is anything of 16 bits) and
  `PoolsNotOverfilled` (`NoDoubleFree`) need no
  premise: they survive overlapping discoveries. `TypeInv` is stronger: it bounds every handle in
  the lists and in the procedures by the length of the table, so that what is
  computed from one, the end of a range or a value handle, is one again.
  `PoolInv` says that at least as many blocks were taken as are listed, and no
  more than the pool has. Blocks are counted by their positions in the lists: an
  insertion maps the new positions to the old ones without merging two, all but
  one (`Moves`, `OneMore`), and cutting off what followed it only removes some.
* `NothingLeaks` (`NoLeak`), if discoveries do not overlap: by `ListsInv` what is
  listed goes to the end, nothing is cut off, and the count grows by just one.

The premise "if discoveries do not overlap" is not guaranteed by the code: a
second ENC_CHANGE can come at any time. The theorems say what holds until then;
`discovery_overlap` shows what goes wrong after it.

`AdvReportProofs`, for any reports of up to the 255 bytes that a length byte can
say, with any bytes in them and behind them:

* `RecognisesGoPros` (`Recognised`). The invariant, for reports laid out in
  fields, says that `pos` is the start of field `n`, that `i` is even and inside
  the field, and that `is_gopro` is true just when a UUID of an earlier field, or
  an earlier one of this field, is the GoPro's.
* `ReadsAreBounded` (`ReadsBounded`). Its second half comes from the same
  invariant; its first half, for every report, from a weaker one (`AnyReport`):
  each round starts at a length byte inside the report and stays within what
  that byte says.

`WebServerProofs`, for any connections, any of them the page's, any requests
sent and any bounds:

* `TypeCorrect` (`TypeOK`) and `PageGetsItsAnswer` (`OwnAnswer`). For `OwnAnswer`
  the invariant adds that on a page's connection a
  request is at one place at a time: sent, in the server's task, or answered,
  each of them for the request the page waits for, and that the task sends a
  first of two answers for requests of `CameraRequests` only.

`RcpProgramProofs`, for any number of joins, events, stations and presses and
any junk on the stack:

* `TypeCorrect`, `FlashHasLastJoin` (`LastJoinSaved`) and `FlashGoesForward`
  (`StoredGoesForward`). The joins are one rising sequence from the flash through
  `cached` and the array being saved to the events that wait, and the newest
  join since the start is always in the last of these that is not empty.
* `ReportedOncePerPress` (`OncePerPress`): inductive with the addition that after a
  report the line is high and seen to be, until the next press.

Every invariant and every action property that a passing run checks is proved.
Only model-checked is liveness, which under fairness is beyond the proof system
(`DiscoveryEnds`, `FailedLinkGoesDown`, `LinkResolves`, `ProcedureFrees`,
`Decides`, `PageAnswered`, `JoinSaved`), and with it the
other half of `ImplementsService`, that the service's reports come.

## 5. What is left

1. Overlapping discoveries. Of the invariants of `PeerDiscovery`, TLC finds all
   but `TypeOK` and `NoDoubleFree` violated when they may overlap, also with
   pools large enough for both (8, 12 and 12 blocks) and six GATT procedures:
   the second discovery frees what the first is filling (`NoAssertFailure`), the
   first one's end clears the cursor of the second (`RunningIsDriven`), or leaves
   it one with which the second skips characteristics and reports a success
   (`MirrorOnComplete`, `OkIsUsable`), an insertion in the middle of a list
   unlinks what follows (`NoLeak`), and a characteristic reported to both is
   listed twice (`NoDuplicateChr`). What a repaired `peer_disc_all` would have to
   do to save them is not modelled.
2. `GoProCentral` composed with one `DiscoveryService` per link, so that
   `Cmd[d]` comes from the table discovered.

Not modelled:

* `udpServer.c`: nothing calls it, so from which tasks and when it would be
  used is unknown, and that is what its shared buffer and socket depend on.
* A refusal of `ble_gap_terminate` (see "Outside the code").
* `misc.c`, which formats addresses and descriptors for the log.
* The soft AP's configuration calls (one step of the start) and its empty event
  handlers.
* `peer_disc_svc_by_uuid`, `peer_traverse_all`, `ble_on_read`, `ble_on_write` and the
  `find_uuid` lookups: no caller, or what `subscribe_to_characteristics` and
  `assign_command_handle` compare is the attribute's type in the table.
* Allocation failures of `peer_init` other than as the reset they cause.
* The text of answers: the page, the camera's status, error messages.
* `camera_control.c` of the RCP program: `camera_setup_udp` opens a socket nobody
  uses; its other functions have no caller.
