-------------------------------- MODULE EspIm --------------------------------
(***************************************************************************)
(* The example client as a program of the ESP32 (example/esp-im): app_main *)
(* brings up the WiFi station and then runs the client over it.            *)
(***************************************************************************)
EXTENDS XmppClient, WifiStation

VARIABLE app   \* "setup": before RunIm; "prompt": no stream; "online"

espVars == <<vars, wifiVars, app>>

EspInit ==
  /\ app = "setup"
  /\ Init /\ WifiInit

Station ==
  /\ WifiNext
  /\ (driver = "online" /\ driver' # "online") => app # "online"
  /\ UNCHANGED <<vars, app>>

(* RunIm is called whether the station is connected or not.                *)
RunIm ==
  /\ app = "setup" /\ waiter \in {"connected", "failed"}
  /\ app' = "prompt"
  /\ UNCHANGED <<vars, wifiVars>>

(* InitializeConn asserts that the server can be reached.                  *)
Initialize ==
  /\ app = "prompt" /\ driver = "online"
  /\ app' = "online"
  /\ UNCHANGED <<vars, wifiVars>>

(* A failed assertion resets the chip: when there is no network at the     *)
(* login, and when the network goes while the client is connected, since   *)
(* the next read or write fails.                                           *)
Panic ==
  /\ (app = "prompt" /\ driver # "online") \/ app = "online"
  /\ app' = "setup"
  /\ c' \in {xmppInitClient(opts) : opts \in OptSets}
  /\ ret' = "OK" /\ tls' = FALSE /\ formatted' = 0 /\ got' = <<>>
  /\ server' = NewServer /\ toServer' = <<>> /\ toClient' = <<>>
  /\ driver' = "off" /\ events' = <<>> /\ s_retry_num' = 0 /\ bits' = {}
  /\ waiter' = "called" /\ refused' = 0

Client(A) == app = "online" /\ A /\ UNCHANGED <<wifiVars, app>>

EspNext == Station \/ RunIm \/ Initialize \/ Panic \/ Client(Next)

(* The station's tasks and the client's loop are scheduled; the user need  *)
(* not log in, and the network may go at any time.                         *)
EspSpec ==
  /\ EspInit /\ [][EspNext]_espVars
  /\ WF_espVars(Station /\ (wifi_init_sta \/ WaitReturns))
  /\ WF_espVars(Station /\ event_handler) /\ WF_espVars(Station /\ Attempt)
  /\ WF_espVars(Client(xmppIterate)) /\ WF_espVars(Client(Loop)) /\ WF_espVars(Client(Answers))

----------------------------------------------------------------------------
(* Every stream is negotiated or its password is refused, and a refused    *)
(* password closes the stream (xmpp.h 472-473).                            *)
NegotiationEnds ==
  /\ app = "online" /\ c.state = "INIT" ~> ret \in {"READY", "EPASS"} \/ app # "online"
  /\ ret = "EPASS" ~> ret = "STREAMEND" \/ app # "online"

(* A stanza in the output buffer is sent, and the server acknowledges it,  *)
(* however the connection cuts up what goes out and what comes in.         *)
AckArrives ==
  \A k \in 1..MaxTo :
    StanzasIn(c.out) > 0 /\ c.actualsent = k
      ~> (ret = "ACK" /\ c.stanza.k >= k) \/ app # "online"
=============================================================================
