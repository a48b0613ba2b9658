-------------------------- MODULE WifiStation_proofs --------------------------
(***************************************************************************)
(* Proofs about the WiFi station of the ESP32 port within the whole        *)
(* program (EspIm), for every number of retries.                           *)
(***************************************************************************)
EXTENDS EspIm, SequenceTheorems, TLAPS

(* What the event loop may hold for each state of the driver.  The driver  *)
(* posts at most the address and the disconnection that followed it before *)
(* it waits for the handler.                                               *)
EventsMatch ==
  \/ driver = "off" /\ events = <<>> /\ refused = 0
  \/ driver = "idle" /\ events = <<>> /\ "FAIL" \in bits /\ refused = MaxRetry + 1
  \/ driver = "idle" /\ events \in {<<"STA_START">>, <<"STA_DISCONNECTED">>,
                                    <<"STA_GOT_IP", "STA_DISCONNECTED">>}
  \/ driver \in {"connecting", "associated"} /\ events = <<>>
  \/ driver = "online" /\ events \in {<<>>, <<"STA_GOT_IP">>}

(* The retries that are left: one is used up by every disconnection since  *)
(* an address was given, and the disconnection that finds none ends the    *)
(* tries.                                                                  *)
RetriesCounted ==
  /\ refused \in 0..MaxRetry + 1
  /\ refused = MaxRetry + 1 <=> driver = "idle" /\ events = <<>>
  /\ s_retry_num = IF refused <= MaxRetry THEN refused ELSE MaxRetry

(* The station is off until the task that starts it does.                  *)
StartedOnce == waiter = "called" <=> driver = "off"

WifiInv == EventsMatch /\ RetriesCounted /\ StartedOnce

(* Queues of one and of two events.                                        *)
LEMMA Queues ==
  ASSUME NEW a, NEW b
  PROVE  /\ Head(<<a>>) = a /\ Tail(<<a>>) = <<>>
         /\ Head(<<a, b>>) = a /\ Tail(<<a, b>>) = <<b>>
         /\ <<>> \o <<>> = <<>> /\ <<>> \o <<a>> = <<a>> /\ <<a>> \o <<b>> = <<a, b>>
         /\ <<a>> # <<>> /\ <<a, b>> # <<>>
<1>1. Head(<<a>>) = a /\ Head(<<a, b>>) = a
  OBVIOUS
<1>2. Tail(<<a>>) = <<>>
  OBVIOUS
<1>3. Tail(<<a, b>>) = <<b>>
  OBVIOUS
<1>4. <<>> \o <<>> = <<>> /\ <<>> \o <<a>> = <<a>>
  OBVIOUS
<1>5. <<a>> \o <<b>> = <<a, b>>
  <2> DEFINE s == <<a>> \o <<b>>
  <2>1. <<a>> \in Seq({a, b}) /\ <<b>> \in Seq({a, b}) /\ <<a, b>> \in Seq({a, b})
    OBVIOUS
  <2>2. s \in Seq({a, b}) /\ Len(s) = 2
    BY <2>1, ConcatProperties
  <2>3. s[1] = a /\ s[2] = b
    BY <2>1
  <2>4. Len(<<a, b>>) = 2
    OBVIOUS
  <2> HIDE DEF s
  <2>5. \A i \in 1..Len(s) : s[i] = <<a, b>>[i]
    BY <2>2, <2>3
  <2>6. s = <<a, b>>
    BY <2>1, <2>2, <2>4, <2>5, SeqEqual
  <2> QED BY <2>6 DEF s
<1>6. <<a>> # <<>> /\ <<a, b>> # <<>>
  OBVIOUS
<1> QED BY <1>1, <1>2, <1>3, <1>4, <1>5, <1>6

(* The tasks and the driver keep the invariant.                            *)
LEMMA WifiStep == WifiInv /\ WifiNext => WifiInv'
<1> SUFFICES ASSUME WifiInv, WifiNext PROVE WifiInv'
  OBVIOUS
<1> USE WifiAssumption DEF WifiInv
<1>1. CASE wifi_init_sta
  BY <1>1, Queues DEF wifi_init_sta, EventsMatch, RetriesCounted, StartedOnce
<1>2. CASE WaitReturns
  BY <1>2 DEF WaitReturns, EventsMatch, RetriesCounted, StartedOnce
<1>3. CASE Starts
  <2>1. driver = "idle" /\ events = <<"STA_START">> /\ events' = <<>>
    BY <1>3, Queues DEF Starts, Handles, EventsMatch
  <2> QED BY <1>3, <2>1, Queues DEF Starts, EventsMatch, RetriesCounted, StartedOnce
<1>4. CASE Disconnected
  <2>1. driver = "idle" /\ events = <<"STA_DISCONNECTED">> /\ events' = <<>>
    BY <1>4, Queues DEF Disconnected, Handles, EventsMatch
  <2>2. refused \in 0..MaxRetry /\ s_retry_num = refused /\ waiter # "called"
    BY <2>1, Queues DEF RetriesCounted, StartedOnce
  <2>3. CASE s_retry_num < MaxRetry
    BY <1>4, <2>1, <2>2, <2>3 DEF Disconnected, EventsMatch, RetriesCounted, StartedOnce
  <2>4. CASE ~ (s_retry_num < MaxRetry)
    BY <1>4, <2>1, <2>2, <2>4 DEF Disconnected, EventsMatch, RetriesCounted, StartedOnce
  <2> QED BY <2>3, <2>4
<1>5. CASE GotIp
  <2>1. \/ /\ driver = "idle" /\ events = <<"STA_GOT_IP", "STA_DISCONNECTED">>
           /\ events' = <<"STA_DISCONNECTED">>
        \/ driver = "online" /\ events = <<"STA_GOT_IP">> /\ events' = <<>>
    <3>1. events # <<>> /\ Head(events) = "STA_GOT_IP" /\ events' = Tail(events)
      BY <1>5 DEF GotIp, Handles
    <3>2. \/ driver = "idle" /\ events = <<"STA_GOT_IP", "STA_DISCONNECTED">>
          \/ driver = "online" /\ events = <<"STA_GOT_IP">>
      BY <3>1, Queues DEF EventsMatch
    <3>3. /\ Tail(<<"STA_GOT_IP", "STA_DISCONNECTED">>) = <<"STA_DISCONNECTED">>
          /\ Tail(<<"STA_GOT_IP">>) = <<>>
      BY Queues
    <3> QED BY <3>1, <3>2, <3>3
  <2> QED BY <1>5, <2>1, Queues DEF GotIp, EventsMatch, RetriesCounted, StartedOnce
<1>6. CASE Attempt
  <2>1. events = <<>> /\ refused <= MaxRetry
    BY <1>6, Queues DEF Attempt, Post, EventsMatch, RetriesCounted
  <2> QED BY <1>6, <2>1, Queues DEF Attempt, Post, EventsMatch, RetriesCounted, StartedOnce
<1>7. CASE Drop_Link
  <2>1. events \in {<<>>, <<"STA_GOT_IP">>} /\ refused <= MaxRetry
    BY <1>7, Queues DEF Drop_Link, Post, EventsMatch, RetriesCounted
  <2>2. /\ driver' = "idle" /\ UNCHANGED <<s_retry_num, bits, waiter, refused>>
        /\ driver = "online" /\ events' = events \o <<"STA_DISCONNECTED">>
    BY <1>7 DEF Drop_Link, Post
  <2>3. events' \in {<<"STA_DISCONNECTED">>, <<"STA_GOT_IP", "STA_DISCONNECTED">>}
    BY <2>1, <2>2, Queues
  <2>4. events' # <<>>
    BY <2>3, Queues
  <2> HIDE DEF WifiInv
  <2> QED BY <2>1, <2>2, <2>3, <2>4 DEF WifiInv, EventsMatch, RetriesCounted, StartedOnce
<1> QED BY <1>1, <1>2, <1>3, <1>4, <1>5, <1>6, <1>7 DEF WifiNext, event_handler

(* So does the rest of the program, which resets the chip or leaves the    *)
(* station alone.                                                          *)
LEMMA EspStep == WifiInv /\ [EspNext]_espVars => WifiInv'
<1> SUFFICES ASSUME WifiInv, [EspNext]_espVars PROVE WifiInv'
  OBVIOUS
<1>1. CASE Station
  BY <1>1, WifiStep DEF Station
<1>2. ASSUME UNCHANGED wifiVars PROVE WifiInv'
  BY <1>2 DEF wifiVars, WifiInv, EventsMatch, RetriesCounted, StartedOnce
<1>3. CASE Panic
  BY <1>3, WifiAssumption DEF Panic, WifiInv, EventsMatch, RetriesCounted, StartedOnce
<1>4. RunIm \/ Initialize \/ Client(Next) \/ UNCHANGED espVars => UNCHANGED wifiVars
  BY DEF RunIm, Initialize, Client, espVars
<1> QED BY <1>1, <1>2, <1>3, <1>4 DEF EspNext

(* While the station is neither trying nor connected an event under way    *)
(* will make it try again, unless one try and every retry after it were    *)
(* refused in a row, whatever the number of retries and however the        *)
(* network, the client and the resets of the chip interleave.              *)
THEOREM StationNeverAlone == EspSpec => []StationPersists
<1>1. EspInit => WifiInv
  BY WifiAssumption
     DEF EspInit, WifiInit, WifiInv, EventsMatch, RetriesCounted, StartedOnce
<1>2. WifiInv => StationPersists
  BY WifiAssumption, Queues DEF WifiInv, EventsMatch, RetriesCounted, StationPersists
<1> QED BY <1>1, EspStep, <1>2, PTL DEF EspSpec
===============================================================================
