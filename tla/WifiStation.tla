----------------------------- MODULE WifiStation -----------------------------
(***************************************************************************)
(* The WiFi station of the ESP32 port (example/esp-im/main/wifi.c): the    *)
(* task that starts the station and waits, the event handler that runs in  *)
(* the task of the event loop, and the driver below them, which posts its  *)
(* events to the loop's queue (external).                                  *)
(***************************************************************************)
EXTENDS Integers, Sequences

CONSTANT MaxRetry   \* EXAMPLE_ESP_MAXIMUM_RETRY

ASSUME WifiAssumption == MaxRetry \in Nat

VARIABLES
  driver,       \* the station: "off", "idle", "connecting", "associated", "online"
  events,       \* the queue of the event loop
  s_retry_num,
  bits,         \* s_wifi_event_group: subset of {"CONNECTED", "FAIL"}
  waiter,       \* wifi_init_sta: "called", "waits", "connected", "failed"
  refused       \* history: disconnections handled since an address was given

wifiVars == <<driver, events, s_retry_num, bits, waiter, refused>>

WifiInit ==
  /\ driver = "off" /\ events = <<>>
  /\ s_retry_num = 0 /\ bits = {} /\ waiter = "called"
  /\ refused = 0

(* Up to the call that waits.                                              *)
wifi_init_sta ==
  /\ waiter = "called"
  /\ waiter' = "waits"
  /\ driver' = "idle" /\ events' = <<"STA_START">>
  /\ UNCHANGED <<s_retry_num, bits, refused>>

(* xEventGroupWaitBits returns and leaves the bits set.  When both are set *)
(* the connection counts.                                                  *)
WaitReturns ==
  /\ waiter = "waits" /\ bits # {}
  /\ waiter' = IF "CONNECTED" \in bits THEN "connected" ELSE "failed"
  /\ UNCHANGED <<driver, events, s_retry_num, bits, refused>>

----------------------------------------------------------------------------
Handles(event) == events # <<>> /\ Head(events) = event /\ events' = Tail(events)

Starts ==
  /\ Handles("STA_START")
  /\ driver' = "connecting"
  /\ UNCHANGED <<s_retry_num, bits, waiter, refused>>

Faulty_Disconnected ==
  /\ Handles("STA_DISCONNECTED")
  /\ refused' = refused + 1
  /\ driver' = driver
  /\ IF s_retry_num < MaxRetry
     THEN s_retry_num' = s_retry_num + 1 /\ UNCHANGED bits
     ELSE bits' = bits \cup {"FAIL"} /\ UNCHANGED s_retry_num
  /\ UNCHANGED waiter

Disconnected ==
  /\ Handles("STA_DISCONNECTED")
  /\ refused' = refused + 1
  /\ IF s_retry_num < MaxRetry
     THEN driver' = "connecting" /\ s_retry_num' = s_retry_num + 1 /\ UNCHANGED bits
     ELSE bits' = bits \cup {"FAIL"} /\ UNCHANGED <<driver, s_retry_num>>
  /\ UNCHANGED waiter

GotIp ==
  /\ Handles("STA_GOT_IP")
  /\ s_retry_num' = 0 /\ refused' = 0
  /\ bits' = bits \cup {"CONNECTED"}
  /\ UNCHANGED <<driver, waiter>>

event_handler == Starts \/ Disconnected \/ GotIp

----------------------------------------------------------------------------
(* The driver: an attempt fails, or the station is associated, given an    *)
(* address, and may be dropped at either stage.                            *)
Post(from, to, event) ==
  /\ driver = from /\ driver' = to
  /\ events' = events \o event
  /\ UNCHANGED <<s_retry_num, bits, waiter, refused>>

Attempt ==
  \/ Post("connecting", "idle", <<"STA_DISCONNECTED">>)
  \/ Post("connecting", "associated", <<>>)
  \/ Post("associated", "idle", <<"STA_DISCONNECTED">>)
  \/ Post("associated", "online", <<"STA_GOT_IP">>)

Drop_Link == Post("online", "idle", <<"STA_DISCONNECTED">>)

WifiNext == wifi_init_sta \/ WaitReturns \/ event_handler \/ Attempt \/ Drop_Link

----------------------------------------------------------------------------
(* The station is never left alone: while it is neither trying nor         *)
(* connected, an event under way will make it try again, unless it has     *)
(* given up, and that only after one try and MaxRetry more, in a row, were *)
(* refused (wifi.c 41-42).                                                 *)
StationPersists ==
  /\ driver = "idle" /\ events = <<>> => "FAIL" \in bits /\ refused = MaxRetry + 1
  /\ s_retry_num <= refused /\ refused <= MaxRetry + 1
=============================================================================
