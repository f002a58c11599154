----------------------------- MODULE MCWebServer -----------------------------
(* Instances of WebServer for TLC: a connection of the page and one of any *)
(* other client.                                                           *)
EXTENDS WebServer

CONSTANTS page, curl

(* /stop takes the path of /start.                                         *)
SentRequests == {"/", "/info", "/start", "/startscan", "/shutter_start", "/stopscan", WithQuery}
=============================================================================
