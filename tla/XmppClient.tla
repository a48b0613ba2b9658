----------------------------- MODULE XmppClient -----------------------------
(***************************************************************************)
(* The XMPP client of example/xmpp.c: one call of xmppIterate after the    *)
(* other, driven by the loop of example/im.c, over a connection that       *)
(* delivers in order but in pieces of any size, with a server that answers *)
(* what it reads and sends stanzas of its own.                             *)
(*                                                                         *)
(* Bytes are abstracted to parts: an element is a sequence of parts, the   *)
(* first of which opens it and the last of which closes it.                *)
(***************************************************************************)
EXTENDS Integers, Sequences, FiniteSets

CONSTANTS
  OptSets,    \* the XMPP_OPT_* sets that may be given to xmppInitClient
  Offers,     \* the STARTTLS and SASL features a server may announce
  Sizes,      \* how many parts an element of the server may have
  OutSize,    \* how many parts an element of the client has
  InCap,      \* parser.c: parts the input buffer holds
  OutCap,     \* builder.c: parts the output buffer holds
  Survives,   \* errors after which the application iterates again
  ServerMay,  \* "fail", "unsolvable", "nosm", "early", "iqerror", "close"
  AppMay,     \* "end", "resume"
  MaxFrom,    \* bound: stanzas the server sends unasked
  MaxTo       \* bound: stanzas the application formats

Sasl == {"SCRAMSHA1", "PLAIN"}

Options == {"ALLOWUNENCRYPTED", "FORCEUNENCRYPTED", "FORCESCRAM", "ALLOWUNENCRYPTEDPLAIN",
            "FORCEPLAIN", "DISABLESMACKS", "NOAUTH"}

ASSUME XmppAssumption ==
  /\ OptSets \subseteq SUBSET Options
  /\ Offers \subseteq SUBSET (Sasl \cup {"STARTTLS"})
  /\ Sizes \subseteq Nat \ {0} /\ \E n \in Sizes : n <= InCap
  /\ OutSize \in Nat \ {0} /\ InCap \in Nat \ {0} /\ OutCap \in Nat \ {0}
  /\ MaxFrom \in Nat /\ MaxTo \in Nat

VARIABLES
  c,          \* struct xmppClient
  ret,        \* what xmppIterate returned; "OK": it is called next
  tls,        \* has the application done the TLS handshake?
  formatted,  \* how many stanzas the application formatted
  got,        \* numbers of the server's stanzas handed to the application
  server,     \* the server's side of the connection
  toServer,   \* parts sent and not yet read by the server
  toClient    \* parts sent by the server and not yet received

vars == <<c, ret, tls, formatted, got, server, toServer, toClient>>
net == <<tls, formatted, got, server, toServer, toClient>>

Names == {"none", "stream", "streamerror", "starttls", "proceed", "auth", "authplain",
          "challenge", "response", "success", "failure", "bind", "enable", "enabled",
          "presence", "message", "iq", "r", "a", "/stream"}

(* k is the number of a stanza or the h of an acknowledgement, ok whether a *)
(* challenge can be solved, a session resumed, a password be right.         *)
Element == [name : Names, child : {"none", "bind", "error"}, k : Nat,
            features : SUBSET (Sasl \cup {"STARTTLS", "BIND", "SMACKS"}),
            ok : BOOLEAN]

E(name) == [name |-> name, child |-> "none", k |-> 0, features |-> {}, ok |-> FALSE]

Parts(e, n) == [j \in 1..n |-> [el |-> e, first |-> j = 1, last |-> j = n]]

(* The stanzas of the server that the application is to have.              *)
Numbered(e) == e.name \in {"iq", "message"} /\ e.k > 0

Elements(parts) == {parts[j].el : j \in DOMAIN parts}

FirstEnd(parts) ==
  CHOOSE j \in DOMAIN parts :
    parts[j].last /\ \A h \in 1..(j - 1) : ~parts[h].last

HasEnd(parts) == \E j \in DOMAIN parts : parts[j].last

Drop(parts, n) == SubSeq(parts, n + 1, Len(parts))

(* What xmppParseStanza makes of an element.                               *)
StanzaType(e) ==
  CASE e.name = "stream" -> "STREAM"
    [] e.name = "proceed" -> "STARTTLSPROCEED"
    [] e.name = "challenge" -> "SASLCHALLENGE"
    [] e.name = "success" -> "SASLSUCCESS"
    [] e.name = "failure" -> "FAILURE"
    [] e.name = "enabled" -> "SMACKSENABLED"
    [] e.name = "r" -> "ACKREQUEST"
    [] e.name = "a" -> "ACKANSWER"
    [] e.name = "/stream" -> "STREAMEND"
    [] e.name = "streamerror" -> "EMPTY"
    [] e.name = "message" -> "MESSAGE"
    [] e.name = "iq" /\ e.child = "bind" -> "BINDJID"
    [] e.name = "iq" /\ e.child = "error" -> "ERROR"
    [] e.name = "iq" /\ e.child = "none" -> "IQ"

-----------------------------------------------------------------------------
(* The output buffer.                                                      *)

(* xmppFlush looks at the input buffer, not at the one it flushes.         *)
CanFlush(d) == Len(d.in) < InCap

xmppAppendXml(d, e) ==
  [d EXCEPT !.out = LET all == d.out \o Parts(e, OutSize)
                    IN  SubSeq(all, 1, IF Len(all) < OutCap THEN Len(all) ELSE OutCap)]

Unasked_xmppFormatStanza(d, e) ==
  IF ~CanFlush(d) THEN d
  ELSE IF "SMACKS" \in d.features
       THEN [xmppAppendXml(d, e) EXCEPT !.actualsent = @ + 1]
       ELSE xmppAppendXml(d, e)

(* xmppFormatStanza: a failed flush takes back what was appended.          *)
xmppFormatStanza(d, e) ==
  IF ~CanFlush(d) THEN d
  ELSE IF "SMACKS" \in d.features
       THEN [xmppAppendXml(xmppAppendXml(d, e), E("r")) EXCEPT !.actualsent = @ + 1]
       ELSE xmppAppendXml(d, e)

-----------------------------------------------------------------------------
(* xmppIterate: one action for each way it returns.                        *)

(* The function goes past its first two returns.                           *)
Iterates == ret = "OK" /\ c.state # "UNINIT" /\ c.out = <<>>

Finished ==
  /\ ret = "OK" /\ c.state = "UNINIT"
  /\ ret' = "STREAMEND"
  /\ UNCHANGED <<c, net>>

SendFirst ==
  /\ ret = "OK" /\ c.state # "UNINIT" /\ c.out # <<>>
  /\ ret' = "SEND"
  /\ UNCHANGED <<c, net>>

Skips == Iterates /\ c.in # <<>> /\ c.skippingdepth > 0

Unskipped == Drop(c.in, c.i)

(* After the skipped element the XML parser takes no further element: it   *)
(* was set up without the enclosing stream, and is not set up again.       *)
SkipFails ==
  /\ Skips /\ c.rootclosed /\ Unskipped # <<>>
  /\ c' = [c EXCEPT !.i = @ + 1]
  /\ ret' = "EXML"
  /\ UNCHANGED net

SkipEnds ==
  /\ Skips /\ ~c.rootclosed /\ HasEnd(Unskipped)
  /\ c' = [c EXCEPT !.i = @ + FirstEnd(Unskipped),
                    !.skippingdepth = 1, !.rootclosed = TRUE]
  /\ ret' = "ESKIP"
  /\ UNCHANGED net

SkipGoesOn ==
  /\ Skips
  /\ IF c.rootclosed THEN Unskipped = <<>> ELSE ~HasEnd(Unskipped)
  /\ c' = [c EXCEPT !.in = <<>>, !.i = 0,
                    !.skippingdepth = @ + Cardinality({j \in DOMAIN Unskipped : Unskipped[j].first})]
  /\ ret' = "RECV"
  /\ UNCHANGED net

OpenStream ==
  /\ Iterates /\ ~Skips /\ c.state = "INIT"
  /\ IF CanFlush(c)
     THEN c' = [xmppAppendXml(c, E("stream")) EXCEPT !.state = "STREAMSENT"] /\ ret' = "SEND"
     ELSE c' = [c EXCEPT !.i = 0] /\ ret' = "EMEM"
  /\ UNCHANGED net

EndStream ==
  /\ Iterates /\ ~Skips /\ c.state = "ENDSTREAM"
  /\ IF CanFlush(c)
     THEN c' = [xmppAppendXml(c, E("/stream")) EXCEPT !.state = "UNINIT"] /\ ret' = "SEND"
     ELSE c' = [c EXCEPT !.state = "UNINIT"] /\ ret' = "OK"
  /\ UNCHANGED net

Reads == Iterates /\ ~Skips /\ c.state \notin {"INIT", "ENDSTREAM"}

Faulty_MoveStanza(d) == [d EXCEPT !.in = Drop(d.in, d.i)]

MoveStanza(d) == [d EXCEPT !.in = Drop(d.in, d.i), !.i = 0]

Faulty_Partial ==
  /\ Reads /\ ~HasEnd(Drop(c.in, c.i))
  /\ c' = [c EXCEPT !.in = <<>>, !.i = 0]
  /\ ret' = IF c.isnegotiationdone THEN "READY" ELSE "RECV"
  /\ UNCHANGED net

Early_Partial ==
  /\ Reads /\ ~HasEnd(Drop(c.in, c.i))
  /\ IF Len(MoveStanza(c).in) = InCap
     THEN c' = [MoveStanza(c) EXCEPT !.skippingdepth = 1, !.rootclosed = FALSE] /\ ret' = "OK"
     ELSE c' = MoveStanza(c) /\ ret' = IF c.features \cap Sasl # {} THEN "READY" ELSE "RECV"
  /\ UNCHANGED net

Partial ==
  /\ Reads /\ ~HasEnd(Drop(c.in, c.i))
  /\ IF Len(MoveStanza(c).in) = InCap
     THEN c' = [MoveStanza(c) EXCEPT !.skippingdepth = 1, !.rootclosed = FALSE] /\ ret' = "OK"
     ELSE c' = MoveStanza(c) /\ ret' = IF c.isnegotiationdone THEN "READY" ELSE "RECV"
  /\ UNCHANGED net

(* The client once a whole stanza is parsed, and that stanza.              *)
Parsed == [MoveStanza(c) EXCEPT !.i = FirstEnd(MoveStanza(c).in),
                                !.stanza = MoveStanza(c).in[FirstEnd(MoveStanza(c).in)].el]
Stanza == Parsed.stanza

ReadsStanza == Reads /\ HasEnd(Drop(c.in, c.i))

Return(d, r) == c' = d /\ ret' = r /\ UNCHANGED net

(* Send e and go to state s; ReturnRetry when that is refused.             *)
Say(d, e, s) ==
  IF CanFlush(d)
  THEN Return([xmppAppendXml(d, e) EXCEPT !.state = s], "SEND")
  ELSE Return([d EXCEPT !.i = 0], "EMEM")

(* An assert that fails.                                                   *)
Abort == Return(Parsed, "ABORT")

(* An error in place of the features fails while it is parsed, and the     *)
(* parser goes back to where it began.                                     *)
BadStream ==
  /\ ReadsStanza /\ c.state = "STREAMSENT" /\ StanzaType(Stanza) # "STREAM"
  /\ Return(IF Stanza.name = "streamerror" THEN MoveStanza(c) ELSE Parsed, "ESPEC")

ReadsFeatures ==
  ReadsStanza /\ c.state = "STREAMSENT" /\ StanzaType(Stanza) = "STREAM"

WantsTls == {"STARTTLS"} \cap c.features = {} /\ "FORCEUNENCRYPTED" \notin c.opts

StartTls ==
  /\ ReadsFeatures /\ WantsTls /\ "STARTTLS" \in Stanza.features
  /\ Say(Parsed, E("starttls"), "STARTTLS")

NoTls ==
  /\ ReadsFeatures /\ WantsTls /\ "STARTTLS" \notin Stanza.features
  /\ "ALLOWUNENCRYPTED" \notin c.opts
  /\ Return(Parsed, "ENEGOTIATE")

(* The stream is as encrypted as it will be.                               *)
Encrypted ==
  /\ ReadsFeatures
  /\ WantsTls => "STARTTLS" \notin Stanza.features /\ "ALLOWUNENCRYPTED" \in c.opts

Authenticates == Encrypted /\ "NOAUTH" \notin c.opts /\ c.features \cap Sasl = {}

TakesScram == "SCRAMSHA1" \in Stanza.features /\ "FORCEPLAIN" \notin c.opts

Faulty_TakesPlain == "PLAIN" \in Stanza.features /\ "FORCESCRAM" \notin c.opts

TakesPlain ==
  /\ "PLAIN" \in Stanza.features /\ "FORCESCRAM" \notin c.opts
  /\ "STARTTLS" \in c.features \/ "ALLOWUNENCRYPTEDPLAIN" \in c.opts

StartScram ==
  /\ Authenticates /\ TakesScram
  /\ Say([Parsed EXCEPT !.solved = FALSE], E("auth"), "SASLINIT")

AskPlain ==
  /\ Authenticates /\ ~TakesScram /\ TakesPlain
  /\ Return([Parsed EXCEPT !.state = "SASLPLAIN"], "GIVEPWD")

NoMechanism ==
  /\ Authenticates /\ ~TakesScram /\ ~TakesPlain
  /\ Return(Parsed, "ENEGOTIATE")

(* smackidn stays zero, so the branch that resumes a session is not taken. *)
BindResource ==
  /\ Encrypted /\ ~Authenticates
  /\ IF "BIND" \in Stanza.features
     THEN Say(IF "SMACKS" \in Stanza.features THEN Parsed
              ELSE [Parsed EXCEPT !.opts = @ \cup {"DISABLESMACKS"}],
              E("bind"), "BIND")
     ELSE Abort

Negotiates ==
  ReadsStanza /\ c.state # "STREAMSENT" /\ ~c.isnegotiationdone

TlsProceeds ==
  /\ Negotiates /\ c.state = "STARTTLS" /\ StanzaType(Stanza) = "STARTTLSPROCEED"
  /\ Return([Parsed EXCEPT !.features = @ \cup {"STARTTLS"}, !.state = "INIT"], "STARTTLS")

Challenged ==
  /\ Negotiates /\ c.state = "SASLINIT"
  /\ IF StanzaType(Stanza) = "SASLCHALLENGE"
     THEN Return([Parsed EXCEPT !.state = "SASLPWD"], "GIVEPWD")
     ELSE Abort

Faulty_PasswordRefused ==
  /\ Negotiates /\ c.state \in {"SASLCHECKRESULT", "SASLRESULT"}
  /\ StanzaType(Stanza) = "FAILURE"
  /\ Return(Parsed, "EPASS")

PasswordRefused ==
  /\ Negotiates /\ c.state \in {"SASLCHECKRESULT", "SASLRESULT"}
  /\ StanzaType(Stanza) = "FAILURE"
  /\ Return([Parsed EXCEPT !.state = "ENDSTREAM"], "EPASS")

(* VerifySaslSuccess needs a solved challenge, and a server that knows the *)
(* password signs what it verifies.                                        *)
ScramEnds ==
  /\ Negotiates /\ c.state = "SASLCHECKRESULT" /\ StanzaType(Stanza) # "FAILURE"
  /\ CASE StanzaType(Stanza) # "SASLSUCCESS" ->
            Return([Parsed EXCEPT !.state = "ENDSTREAM"], "ESPEC")
       [] StanzaType(Stanza) = "SASLSUCCESS" /\ ~c.solved -> Abort
       [] OTHER ->
            Return([Parsed EXCEPT !.features = @ \cup {"SCRAMSHA1"}, !.state = "INIT"], "OK")

PlainEnds ==
  /\ Negotiates /\ c.state = "SASLRESULT" /\ StanzaType(Stanza) # "FAILURE"
  /\ IF StanzaType(Stanza) = "SASLSUCCESS"
     THEN Return([Parsed EXCEPT !.features = @ \cup {"PLAIN"}, !.state = "INIT"], "OK")
     ELSE Abort

Bound ==
  /\ Negotiates /\ c.state = "BIND"
  /\ IF StanzaType(Stanza) # "BINDJID" THEN Return(Parsed, "ESPEC")
     ELSE IF "DISABLESMACKS" \in c.opts
     THEN Return([Parsed EXCEPT !.state = "ACCEPTSTANZA", !.isnegotiationdone = TRUE], "OK")
     ELSE IF CanFlush(Parsed)
     THEN Return([xmppAppendXml(Parsed, E("enable")) EXCEPT
                    !.features = @ \cup {"SMACKS"}, !.state = "ACCEPTSTANZA",
                    !.isnegotiationdone = TRUE], "SEND")
     ELSE Return([Parsed EXCEPT !.i = 0], "EMEM")

(* A stanza no state of the negotiation expects.                           *)
Unexpected ==
  /\ Negotiates
  /\ c.state = "STARTTLS" => StanzaType(Stanza) # "STARTTLSPROCEED"
  /\ c.state \notin {"SASLINIT", "SASLCHECKRESULT", "SASLRESULT", "BIND"}
  /\ Return(Parsed, "ESTATE")

Established ==
  ReadsStanza /\ c.state # "STREAMSENT" /\ c.isnegotiationdone

SmacksEnabled ==
  /\ Established /\ StanzaType(Stanza) = "SMACKSENABLED"
  /\ Return([Parsed EXCEPT !.features = @ \cup {"SMACKS"},
                            !.cansmackresume = IF "DISABLESMACKS" \in c.opts THEN @ ELSE Stanza.ok],
            "OK")

AckAnswer ==
  /\ Established /\ StanzaType(Stanza) = "ACKANSWER"
  /\ Return(Parsed, "ACK")

(* The one failure to send that does not go through ReturnRetry.           *)
AckRequest ==
  /\ Established /\ StanzaType(Stanza) = "ACKREQUEST"
  /\ IF CanFlush(Parsed)
     THEN Return(xmppAppendXml(Parsed, [E("a") EXCEPT !.k = c.actualrecv]), "SEND")
     ELSE Return(Parsed, "EMEM")

Faulty_Counted(d) == StanzaType(d.stanza) \in {"IQ", "MESSAGE", "PRESENCE"}

Counted(d) == "SMACKS" \in d.features /\ StanzaType(d.stanza) \in {"IQ", "MESSAGE", "PRESENCE"}

HandOver ==
  /\ Established /\ StanzaType(Stanza) \notin {"SMACKSENABLED", "ACKANSWER", "ACKREQUEST"}
  /\ c' = IF Counted(Parsed) THEN [Parsed EXCEPT !.actualrecv = @ + 1] ELSE Parsed
  /\ ret' = "STANZA"
  /\ got' = IF Stanza.k > 0 THEN Append(got, Stanza.k) ELSE got
  /\ UNCHANGED <<tls, formatted, server, toServer, toClient>>

xmppIterate ==
  \/ Finished \/ SendFirst
  \/ SkipFails \/ SkipEnds \/ SkipGoesOn
  \/ OpenStream \/ EndStream \/ Partial
  \/ BadStream \/ StartTls \/ NoTls \/ StartScram \/ AskPlain \/ NoMechanism
  \/ BindResource
  \/ TlsProceeds \/ Challenged \/ PasswordRefused \/ ScramEnds \/ PlainEnds
  \/ Bound \/ Unexpected
  \/ SmacksEnabled \/ AckAnswer \/ AckRequest \/ HandOver

-----------------------------------------------------------------------------
(* The application: the loop of example/im.c.                              *)

Errors == {"EMEM", "EXML", "ENEGOTIATE", "ESTATE", "EPASS", "ESPEC", "ESKIP"}

(* xmppAddAmountSent, after a write that took some of the output.          *)
Send(n) ==
  /\ ret = "SEND"
  /\ c' = [c EXCEPT !.out = Drop(@, n)]
  /\ toServer' = toServer \o SubSeq(c.out, 1, n)
  /\ ret' = "OK"
  /\ UNCHANGED <<tls, formatted, got, server, toClient>>

(* A read into the room xmppGetReceiveBuffer reports.                      *)
Receive(n) ==
  /\ ret \in {"RECV", "READY"}
  /\ n <= Len(toClient) /\ Len(c.in) + n <= InCap
  /\ c' = [c EXCEPT !.in = @ \o SubSeq(toClient, 1, n)]
  /\ toClient' = Drop(toClient, n)
  /\ ret' = "OK"
  /\ UNCHANGED <<tls, formatted, got, server, toServer>>

Handshake ==
  /\ ret = "STARTTLS" /\ server.tls
  /\ tls' = TRUE /\ ret' = "OK"
  /\ UNCHANGED <<c, formatted, got, server, toServer, toClient>>

(* The password is right or not; the result of solving the challenge is    *)
(* not looked at, and im.c does not look at the function's own.            *)
xmppSupplyPassword(right) ==
  /\ ret = "GIVEPWD" /\ ret' = "OK"
  /\ c' = LET scram == c.state = "SASLPWD"
               solved == scram /\ c.stanza.ok
           IN  IF ~CanFlush(c) THEN [c EXCEPT !.solved = solved]
               ELSE [xmppAppendXml(c, [E(IF scram THEN "response" ELSE "authplain")
                                        EXCEPT !.ok = right /\ (scram => solved)]) EXCEPT
                       !.solved = solved,
                       !.state = IF scram THEN "SASLCHECKRESULT" ELSE "SASLRESULT"]
  /\ UNCHANGED net

(* A stanza formatted when the client is ready, or in answer to one; an iq *)
(* asks the server for something.                                          *)
Format(name) ==
  /\ ret \in {"READY", "STANZA"} /\ formatted < MaxTo
  /\ c' = xmppFormatStanza(c, E(name))
  /\ formatted' = formatted + 1
  /\ ret' = "OK"
  /\ UNCHANGED <<tls, got, server, toServer, toClient>>

(* Nothing to do but to call xmppIterate again.                            *)
GoOn ==
  /\ ret \in {"STANZA", "ACK"} \cup (Errors \cap Survives)
  /\ ret' = "OK"
  /\ UNCHANGED <<c, net>>

Exit ==
  /\ ret \in Errors \ Survives
  /\ ret' = "EXIT"
  /\ UNCHANGED <<c, net>>

xmppEndStream ==
  /\ "end" \in AppMay /\ ret = "READY"
  /\ c' = [c EXCEPT !.state = "ENDSTREAM"]
  /\ ret' = "OK"
  /\ UNCHANGED net

(* The connection is lost between two stanzas and made anew.               *)
xmppResume ==
  /\ "resume" \in AppMay /\ ret = "READY" /\ c.in = <<>>
  /\ c.cansmackresume
  /\ c' = [c EXCEPT !.state = "INIT", !.features = @ \ ({"STARTTLS"} \cup Sasl),
                    !.out = <<>>]
  /\ ret' = "OK" /\ tls' = FALSE
  /\ server' = [server EXCEPT !.tls = FALSE, !.auth = FALSE, !.offered = {},
                              !.bound = FALSE, !.sm = FALSE,
                              !.lost = @ \cup {e.k : e \in {f \in Elements(toClient) : Numbered(f)}}]
  /\ toServer' = <<>> /\ toClient' = <<>>
  /\ UNCHANGED <<formatted, got>>

Application ==
  \/ \E n \in 1..Len(c.out) : Send(n)
  \/ \E n \in 1..Len(toClient) : Receive(n)
  \/ Handshake
  \/ \E right \in BOOLEAN : xmppSupplyPassword(right)
  \/ \E name \in {"presence", "iq"} : Format(name)
  \/ GoOn \/ Exit \/ xmppEndStream \/ xmppResume

-----------------------------------------------------------------------------
(* The server, as the client and the test expect it (external).            *)

Got(names) ==
  ~server.closed /\ HasEnd(toServer) /\ toServer[FirstEnd(toServer)].el.name \in names

Request == toServer[FirstEnd(toServer)].el

(* The server reads an element and sends e.                                *)
Answer(s, e) ==
  /\ toServer' = Drop(toServer, FirstEnd(toServer))
  /\ \E n \in Sizes : n <= InCap /\ toClient' = toClient \o Parts(e, n)
  /\ server' = s
  /\ UNCHANGED <<c, ret, tls, formatted, got>>

Ignore(s) ==
  /\ toServer' = Drop(toServer, FirstEnd(toServer))
  /\ server' = s
  /\ UNCHANGED <<c, ret, tls, formatted, got, toClient>>

May(what) == what \in ServerMay

OffersStream ==
  /\ Got({"stream"})
  /\ \/ \E F \in Offers :
          LET offer == IF server.tls THEN F \ {"STARTTLS"} ELSE F
          IN  ~server.auth /\ Answer(server, [E("stream") EXCEPT !.features = offer])
     \/ \E sm \in {{"SMACKS"}} \cup (IF May("nosm") THEN {{}} ELSE {}) :
          server.auth /\ Answer([server EXCEPT !.offered = sm],
                                [E("stream") EXCEPT !.features = {"BIND"} \cup sm])
     \/ May("fail") /\ Answer(server, E("streamerror"))

AnswersStartTls ==
  /\ Got({"starttls"})
  /\ \/ Answer([server EXCEPT !.tls = TRUE], E("proceed"))
     \/ May("fail") /\ Answer(server, E("failure"))

AnswersAuth ==
  /\ Got({"auth"})
  /\ \/ \E ok \in {TRUE} \cup (IF May("unsolvable") THEN {FALSE} ELSE {}) :
          Answer(server, [E("challenge") EXCEPT !.ok = ok])
     \/ May("fail") /\ Answer(server, E("failure"))

ChecksPassword ==
  /\ Got({"response", "authplain"})
  /\ IF Request.ok THEN Answer([server EXCEPT !.auth = TRUE], E("success"))
     ELSE Answer(server, E("failure"))

AnswersBind ==
  /\ Got({"bind"})
  /\ \/ Answer([server EXCEPT !.bound = TRUE], [E("iq") EXCEPT !.child = "bind"])
     \/ May("fail") /\ Answer(server, [E("iq") EXCEPT !.child = "error"])

EnablesAcks ==
  /\ Got({"enable"})
  /\ Answer([server EXCEPT !.sm = TRUE], [E("enabled") EXCEPT !.ok = TRUE])

Handling(s) == IF s.sm THEN [s EXCEPT !.handled = @ + 1] ELSE s

Counting(s) == [s EXCEPT !.n = @ + 1, !.counted = IF s.sm THEN @ + 1 ELSE @]

HandlesStanza ==
  \/ Got({"presence"}) /\ Ignore(Handling(server))
  \/ Got({"iq"}) /\ ~server.bound /\ Ignore(server)
  \/ /\ Got({"iq"}) /\ server.bound
     /\ \E child \in {"none"} \cup (IF May("iqerror") THEN {"error"} ELSE {}) :
          Answer(Counting(Handling(server)),
                 [E("iq") EXCEPT !.child = child, !.k = server.n + 1])

Acknowledges ==
  /\ Got({"r"})
  /\ Answer(server, [E("a") EXCEPT !.k = server.handled])

TakesNote == Got({"a", "/stream"}) /\ Ignore(server)

(* What the server sends unasked.                                          *)
Push(s, e, n) ==
  /\ ~server.closed
  /\ toClient' = toClient \o Parts(e, n)
  /\ server' = s
  /\ UNCHANGED <<c, ret, tls, formatted, got, toServer>>

PushesMessage ==
  /\ server.bound /\ server.n < MaxFrom
  /\ server.sm \/ server.offered = {} \/ May("early")
  /\ \E n \in Sizes :
       Push([Counting(server) EXCEPT !.large = IF n > InCap THEN @ \cup {server.n + 1} ELSE @],
            [E("message") EXCEPT !.k = server.n + 1], n)

AsksAck ==
  /\ server.sm /\ server.asked < server.n
  /\ Push([server EXCEPT !.asked = server.n], E("r"), 1)

ClosesStream ==
  /\ May("close") /\ server.bound
  /\ Push([server EXCEPT !.closed = TRUE], E("/stream"), 1)

Answers ==
  \/ OffersStream \/ AnswersStartTls \/ AnswersAuth \/ ChecksPassword \/ AnswersBind
  \/ EnablesAcks \/ HandlesStanza \/ Acknowledges \/ TakesNote

-----------------------------------------------------------------------------
xmppInitClient(opts) ==
  [state |-> "INIT", opts |-> opts, features |-> {}, isnegotiationdone |-> FALSE,
   stanza |-> E("none"), in |-> <<>>, i |-> 0, skippingdepth |-> 0, rootclosed |-> FALSE,
   out |-> <<>>, actualsent |-> 0, actualrecv |-> 0, cansmackresume |-> FALSE,
   solved |-> FALSE]

NewServer ==
  [tls |-> FALSE, auth |-> FALSE, offered |-> {}, bound |-> FALSE, sm |-> FALSE,
   closed |-> FALSE, handled |-> 0, counted |-> 0, n |-> 0, asked |-> 0,
   large |-> {}, lost |-> {}]

Init ==
  /\ c \in {xmppInitClient(opts) : opts \in OptSets}
  /\ ret = "OK" /\ tls = FALSE /\ formatted = 0 /\ got = <<>>
  /\ server = NewServer
  /\ toServer = <<>> /\ toClient = <<>>

Next ==
  \/ xmppIterate \/ Application
  \/ Answers \/ PushesMessage \/ AsksAck \/ ClosesStream

Spec == Init /\ [][Next]_vars

(* The loop of im.c gives every result of xmppIterate its due, and the     *)
(* server answers what it reads.  Nobody needs to send a stanza.           *)
Loop ==
  \/ \E n \in 1..Len(c.out) : Send(n)
  \/ \E n \in 1..Len(toClient) : Receive(n)
  \/ Handshake
  \/ \E right \in BOOLEAN : xmppSupplyPassword(right)
  \/ GoOn \/ Exit

-----------------------------------------------------------------------------
States == {"UNINIT", "INIT", "STREAMSENT", "STARTTLS", "SASLINIT", "SASLPWD",
           "SASLCHECKRESULT", "SASLPLAIN", "SASLRESULT", "BIND", "ACCEPTSTANZA", "ENDSTREAM"}

IsParts(parts) ==
  \A j \in DOMAIN parts : parts[j].el \in Element /\ {parts[j].first, parts[j].last} \subseteq BOOLEAN

(* The client's fields stay in their types, and the buffers within their   *)
(* capacity: what xmppAddAmountReceived asserts.                           *)
TypeOK ==
  /\ c.state \in States /\ c.stanza \in Element
  /\ c.features \subseteq Sasl \cup {"STARTTLS", "SMACKS"}
  /\ {c.isnegotiationdone, c.rootclosed, c.cansmackresume, c.solved, tls} \subseteq BOOLEAN
  /\ {c.actualsent, c.actualrecv, c.skippingdepth, formatted} \subseteq Nat
  /\ Len(c.in) <= InCap /\ c.i \in 0..Len(c.in) /\ Len(c.out) <= OutCap
  /\ \A parts \in {c.in, c.out, toServer, toClient} : IsParts(parts)
  /\ ret \in Errors \cup {"OK", "SEND", "RECV", "READY", "STARTTLS", "GIVEPWD", "STANZA",
                          "ACK", "STREAMEND", "EXIT", "ABORT"}

(* The parser always goes on at the beginning of an element.  Until the    *)
(* stream fails, the stanzas the server sent are those handed to the       *)
(* application followed by those under way, in order, each once: only      *)
(* those that do not fit the input buffer or were lost with a connection   *)
(* are left out.  This is what the bookkeeping of parser.i and parser.n,   *)
(* MoveStanza and the reads of any size have to add up to.                 *)
DeliveredInOrder ==
  LET parts == Unskipped \o toClient
      under == {j \in DOMAIN parts : parts[j].last /\ Numbered(parts[j].el)}
      delivered == {got[j] : j \in DOMAIN got}
  IN  /\ c.skippingdepth = 0 /\ Unskipped # <<>> => Unskipped[1].first
      /\ ret \notin {"EXML", "EXIT"} =>
           /\ \A j, h \in DOMAIN got : j < h => got[j] < got[h]
           /\ \A j, h \in under : j < h => parts[j].el.k < parts[h].el.k
           /\ \A k \in delivered : \A j \in under : k < parts[j].el.k
           /\ (delivered \cup {parts[j].el.k : j \in under}) \ server.large =
              (1..server.n) \ (server.large \cup server.lost)

(* The stanzas of the client that end in a sequence of parts.              *)
StanzasIn(parts) ==
  Cardinality({j \in DOMAIN parts : parts[j].last /\ parts[j].el.name \in {"presence", "iq"}})

(* Both ends count the same stanzas.  actualsent, with which               *)
(* xmppIsSynchronized compares the server's answer, counts those the       *)
(* server has handled and those it will handle; neither actualrecv nor an  *)
(* answer under way is ahead of what the server counted.                   *)
CountsAgree ==
  /\ "SMACKS" \in c.features =>
       c.actualsent = server.handled + StanzasIn(toServer \o c.out)
  /\ c.actualrecv <= server.counted
  /\ \A e \in Elements(c.out \o toServer) : e.name = "a" => e.k <= server.counted

(* XMPP_ITER_READY means that the negotiation of this stream is complete   *)
(* (xmpp.h 171-172): the server has authenticated and bound the client.    *)
ReadyMeansNegotiated == ret = "READY" => server.auth /\ server.bound

(* The names of the elements the client sent that are under way.           *)
Sending == {e.name : e \in Elements(toServer \o c.out)}

(* The options of xmpp.h 133-147: without them nothing but the opening of  *)
(* a stream and its end is sent before TLS is up; FORCEUNENCRYPTED has no  *)
(* TLS; without TLS no plain password is sent unless it is allowed; and a  *)
(* mechanism that is ruled out is not used.  The exception is SCRAM under  *)
(* ALLOWUNENCRYPTED, "TLS optional, SCRAM forced." (136): the code forces  *)
(* it without TLS only, and over TLS it sends a plain password as ever.    *)
OptionsHonoured ==
  /\ Sending \subseteq {"stream", "starttls", "/stream"} \/ tls
     \/ c.opts \cap {"ALLOWUNENCRYPTED", "FORCEUNENCRYPTED"} # {}
  /\ "FORCEUNENCRYPTED" \in c.opts => ~tls /\ "starttls" \notin Sending
  /\ "authplain" \in Sending =>
       /\ tls \/ "ALLOWUNENCRYPTEDPLAIN" \in c.opts
       /\ "FORCESCRAM" \notin c.opts
  /\ "FORCEPLAIN" \in c.opts => Sending \cap {"auth", "response"} = {}
=============================================================================
