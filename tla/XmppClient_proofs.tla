------------------------- MODULE XmppClient_proofs -------------------------
(***************************************************************************)
(* Proofs about the XMPP client, for elements and buffers of every size,   *)
(* every choice of options and every server of the model.                  *)
(***************************************************************************)
EXTENDS XmppClient, FiniteSetTheorems, SequenceTheorems, WellFoundedInduction, TLAPS

USE XmppAssumption

Fields == {"state", "opts", "features", "isnegotiationdone", "stanza", "in", "i",
           "skippingdepth", "rootclosed", "out", "actualsent", "actualrecv",
           "cansmackresume", "solved"}

(* Clients that differ in the fields fs at most.                           *)
Alike(d, e, fs) == DOMAIN e = Fields /\ \A f \in Fields \ fs : e[f] = d[f]

(* The output buffer with as much of an element as fits.                   *)
Appended(out, e) ==
  LET all == out \o Parts(e, OutSize)
  IN  SubSeq(all, 1, IF Len(all) < OutCap THEN Len(all) ELSE OutCap)

Rest == Drop(c.in, c.i)

LEMMA AppendIs ==
  ASSUME NEW d, NEW e, DOMAIN d = Fields
  PROVE  /\ Alike(d, xmppAppendXml(d, e), {"out"})
         /\ xmppAppendXml(d, e).out = Appended(d.out, e)
BY DEF Alike, xmppAppendXml, Appended, Fields

LEMMA ParsedIs ==
  ASSUME DOMAIN c = Fields
  PROVE  /\ Alike(c, Parsed, {"in", "i", "stanza"})
         /\ Parsed.in = Rest /\ Parsed.i = FirstEnd(Rest)
         /\ Parsed.stanza = Rest[FirstEnd(Rest)].el
         /\ Stanza = Rest[FirstEnd(Rest)].el
BY Zenon DEF Alike, Parsed, MoveStanza, Stanza, Fields, Rest

(* What xmppIterate makes of the client when it has read a stanza: the     *)
(* fields fs and those of the parser change, and the parser is behind the  *)
(* stanza, or before it again.                                             *)
Took(fs) ==
  /\ Alike(c, c', fs \cup {"in", "i", "stanza"})
  /\ c'.in = Rest /\ c'.stanza = Stanza

After == c'.i = FirstEnd(Rest)
Before == c'.i = 0

Said(e, s, fs) ==
  \/ /\ Took(fs \cup {"out", "state"}) /\ After
     /\ c'.out = Appended(<<>>, e) /\ c'.state = s /\ ret' = "SEND"
  \/ /\ Took(fs) /\ Before /\ ret' = "EMEM"

LEMMA SayIs ==
  ASSUME DOMAIN c = Fields, ReadsStanza, NEW d, NEW e, NEW s, NEW fs,
         Alike(Parsed, d, fs), fs \subseteq Fields \ {"out", "in", "i", "stanza", "state"},
         Say(d, e, s)
  PROVE  Said(e, s, fs) /\ \A f \in fs : c'[f] = d[f]
<1>1. /\ Alike(c, Parsed, {"in", "i", "stanza"}) /\ Parsed.in = Rest /\ Parsed.i = FirstEnd(Rest)
      /\ Parsed.stanza = Stanza /\ c.out = <<>>
  BY ParsedIs DEF Stanza, ReadsStanza, Reads, Iterates
<1>2. /\ Alike(c, d, fs \cup {"in", "i", "stanza"}) /\ d.in = Rest /\ d.i = FirstEnd(Rest)
      /\ d.stanza = Stanza /\ d.out = <<>>
  BY <1>1 DEF Alike, Fields
<1>3. CASE CanFlush(d)
  <2> DEFINE w == xmppAppendXml(d, e)
  <2>1. c' = [w EXCEPT !.state = s] /\ ret' = "SEND"
    BY <1>3 DEF Say, Return
  <2>2. Alike(d, w, {"out"}) /\ w.out = Appended(d.out, e)
    BY <1>2, AppendIs DEF Alike
  <2> HIDE DEF w
  <2>3. /\ Alike(d, c', {"out", "state"})
        /\ c'.out = Appended(<<>>, e) /\ c'.state = s /\ ret' = "SEND"
    BY <2>1, <2>2, <1>2 DEF Alike, Fields
  <2>4. c'.in = Rest /\ c'.stanza = Stanza /\ c'.i = FirstEnd(Rest)
    BY <2>3, <1>2 DEF Alike, Fields
  <2>5. Alike(c, c', fs \cup {"out", "state"} \cup {"in", "i", "stanza"})
    BY <2>3, <1>2 DEF Alike
  <2>6. \A f \in fs : c'[f] = d[f]
    BY <2>3, <1>2 DEF Alike
  <2> QED BY <2>3, <2>4, <2>5, <2>6 DEF Said, Took, After
<1>4. CASE ~ CanFlush(d)
  <2>1. c' = [d EXCEPT !.i = 0] /\ ret' = "EMEM"
    BY <1>4 DEF Say, Return
  <2>2. Alike(d, c', {"i"}) /\ c'.i = 0
    BY <2>1, <1>2 DEF Alike, Fields
  <2>4. c'.in = Rest /\ c'.stanza = Stanza
    BY <2>2, <1>2 DEF Alike, Fields
  <2>5. Alike(c, c', fs \cup {"in", "i", "stanza"})
    BY <2>2, <1>2 DEF Alike
  <2>6. \A f \in fs : c'[f] = d[f]
    BY <2>2, <1>2 DEF Alike
  <2> QED BY <2>1, <2>2, <2>4, <2>5, <2>6 DEF Said, Took, Before
<1> QED BY <1>3, <1>4

LEMMA ReturnIs ==
  ASSUME DOMAIN c = Fields, ReadsStanza, NEW d, NEW r, NEW fs,
         Alike(Parsed, d, fs), fs \subseteq Fields \ {"in", "i", "stanza"},
         Return(d, r)
  PROVE  Took(fs) /\ After /\ c' = d /\ ret' = r
<1>1. Alike(c, Parsed, {"in", "i", "stanza"}) /\ Parsed.in = Rest /\ Parsed.i = FirstEnd(Rest)
      /\ Parsed.stanza = Stanza
  BY ParsedIs
<1>2. c' = d /\ ret' = r
  BY DEF Return
<1>3. Alike(c, c', fs \cup {"in", "i", "stanza"})
  BY <1>1, <1>2 DEF Alike
<1>4. c'.in = Rest /\ c'.stanza = Stanza /\ c'.i = FirstEnd(Rest)
  BY <1>1, <1>2 DEF Alike, Fields
<1> QED BY <1>2, <1>3, <1>4 DEF Took, After

(* The stanza read is only looked at.                                      *)
Looked == Took({}) /\ After

LEMMA LookedIs ==
  ASSUME DOMAIN c = Fields, ReadsStanza, NEW r, Return(Parsed, r)
  PROVE  Looked /\ ret' = r
<1>1. Alike(Parsed, Parsed, {})
  BY ParsedIs DEF Alike
<1> QED BY <1>1, ReturnIs DEF Looked

(* The rows of the actions that read a stanza.                             *)
Turned(s, r) == Took({"state"}) /\ After /\ c'.state = s /\ ret' = r

LEMMA TurnedIs ==
  ASSUME DOMAIN c = Fields, ReadsStanza, NEW s, NEW r, Return([Parsed EXCEPT !.state = s], r)
  PROVE  Turned(s, r)
<1> DEFINE d == [Parsed EXCEPT !.state = s]
<1>1. Alike(Parsed, d, {"state"}) /\ d.state = s
  BY ParsedIs DEF Alike, Fields
<1>2. Return(d, r)
  OBVIOUS
<1> HIDE DEF d
<1> QED BY <1>1, <1>2, ReturnIs DEF Turned, Fields

(* A feature is on, and the stream begins again.                           *)
Restarted(feature, r) ==
  /\ Took({"features", "state"}) /\ After /\ ret' = r
  /\ c'.features = c.features \cup {feature} /\ c'.state = "INIT"

LEMMA RestartedIs ==
  ASSUME DOMAIN c = Fields, ReadsStanza, NEW feature, NEW r,
         Return([Parsed EXCEPT !.features = @ \cup {feature}, !.state = "INIT"], r)
  PROVE  Restarted(feature, r)
<1> DEFINE d == [Parsed EXCEPT !.features = @ \cup {feature}, !.state = "INIT"]
<1>1. /\ Alike(Parsed, d, {"features", "state"})
      /\ d.features = c.features \cup {feature} /\ d.state = "INIT"
  BY ParsedIs, Zenon DEF Alike, Fields
<1>2. Return(d, r)
  OBVIOUS
<1> HIDE DEF d
<1> QED BY <1>1, <1>2, ReturnIs DEF Restarted, Fields

(* The input moves to the beginning of its buffer.                         *)
Moved == Alike(c, c', {"in", "i"}) /\ c'.in = Rest /\ c'.i = 0

LEMMA MovedIs ==
  ASSUME DOMAIN c = Fields, c' = MoveStanza(c)
  PROVE  Moved
BY Zenon DEF MoveStanza, Moved, Alike, Fields, Rest

Aborted == Looked /\ ret' = "ABORT"

LEMMA StreamRows ==
  ASSUME DOMAIN c = Fields
  PROVE  /\ BadStream => (Looked \/ Moved) /\ ret' = "ESPEC"
         /\ StartTls => Said(E("starttls"), "STARTTLS", {})
         /\ NoTls \/ NoMechanism => Looked /\ ret' = "ENEGOTIATE"
         /\ StartScram => Said(E("auth"), "SASLINIT", {"solved"}) /\ c'.solved = FALSE
         /\ AskPlain => Turned("SASLPLAIN", "GIVEPWD")
         /\ BindResource =>
              \/ Aborted
              \/ /\ Said(E("bind"), "BIND", {"opts"}) /\ "BIND" \in Stanza.features
                 /\ c'.opts = c.opts \cup (IF "SMACKS" \in Stanza.features THEN {}
                                           ELSE {"DISABLESMACKS"})
<1>1. ASSUME BadStream PROVE (Looked \/ Moved) /\ ret' = "ESPEC"
  <2>1. CASE Stanza.name = "streamerror"
    <3>1. c' = MoveStanza(c) /\ ret' = "ESPEC"
      BY <1>1, <2>1 DEF BadStream, Return
    <3> QED BY <3>1, MovedIs
  <2>2. CASE Stanza.name # "streamerror"
    <3>1. ReadsStanza /\ Return(Parsed, "ESPEC")
      BY <1>1, <2>2 DEF BadStream
    <3> QED BY <3>1, LookedIs
  <2> QED BY <2>1, <2>2
<1>2. ASSUME StartTls PROVE Said(E("starttls"), "STARTTLS", {})
  <2>1. ReadsStanza /\ Say(Parsed, E("starttls"), "STARTTLS") /\ Alike(Parsed, Parsed, {})
    BY <1>2, ParsedIs DEF StartTls, ReadsFeatures, Alike
  <2> QED BY <2>1, SayIs
<1>3. ASSUME NoTls \/ NoMechanism PROVE Looked /\ ret' = "ENEGOTIATE"
  <2>1. ReadsStanza /\ Return(Parsed, "ENEGOTIATE")
    BY <1>3 DEF NoTls, NoMechanism, Authenticates, Encrypted, ReadsFeatures
  <2> QED BY <2>1, LookedIs
<1>4. ASSUME StartScram PROVE Said(E("auth"), "SASLINIT", {"solved"}) /\ c'.solved = FALSE
  <2> DEFINE d == [Parsed EXCEPT !.solved = FALSE]
  <2>1. ReadsStanza /\ Say(d, E("auth"), "SASLINIT")
    BY <1>4 DEF StartScram, Authenticates, Encrypted, ReadsFeatures
  <2>2. Alike(Parsed, d, {"solved"}) /\ d.solved = FALSE
    BY ParsedIs DEF Alike, Fields
  <2> HIDE DEF d
  <2>3. {"solved"} \subseteq Fields \ {"out", "in", "i", "stanza", "state"}
    BY DEF Fields
  <2>4. Said(E("auth"), "SASLINIT", {"solved"}) /\ \A f \in {"solved"} : c'[f] = d[f]
    BY <2>1, <2>2, <2>3, SayIs, Zenon
  <2> QED BY <2>2, <2>4
<1>5. ASSUME AskPlain PROVE Turned("SASLPLAIN", "GIVEPWD")
  <2>1. ReadsStanza /\ Return([Parsed EXCEPT !.state = "SASLPLAIN"], "GIVEPWD")
    BY <1>5 DEF AskPlain, Authenticates, Encrypted, ReadsFeatures
  <2> QED BY <2>1, TurnedIs
<1>6. ASSUME BindResource
      PROVE  \/ Aborted
             \/ /\ Said(E("bind"), "BIND", {"opts"}) /\ "BIND" \in Stanza.features
                /\ c'.opts = c.opts \cup (IF "SMACKS" \in Stanza.features THEN {}
                                          ELSE {"DISABLESMACKS"})
  <2>1. ReadsStanza
    BY <1>6 DEF BindResource, Encrypted, ReadsFeatures
  <2>2. CASE "BIND" \notin Stanza.features
    BY <1>6, <2>1, <2>2, LookedIs DEF BindResource, Abort, Aborted
  <2>3. CASE "BIND" \in Stanza.features
    <3> DEFINE d == IF "SMACKS" \in Stanza.features THEN Parsed
                    ELSE [Parsed EXCEPT !.opts = @ \cup {"DISABLESMACKS"}]
    <3>1. Say(d, E("bind"), "BIND")
      BY <1>6, <2>3 DEF BindResource
    <3>2. /\ Alike(Parsed, d, {"opts"})
          /\ d.opts = c.opts \cup (IF "SMACKS" \in Stanza.features THEN {}
                                   ELSE {"DISABLESMACKS"})
      <4>1. CASE "SMACKS" \in Stanza.features
        BY <4>1, ParsedIs DEF Alike, Fields
      <4>2. CASE "SMACKS" \notin Stanza.features
        BY <4>2, ParsedIs DEF Alike, Fields
      <4> QED BY <4>1, <4>2
    <3> HIDE DEF d
    <3>3. {"opts"} \subseteq Fields \ {"out", "in", "i", "stanza", "state"}
      BY DEF Fields
    <3>4. Alike(Parsed, d, {"opts"})
      BY <3>2
    <3>5. Said(E("bind"), "BIND", {"opts"}) /\ \A f \in {"opts"} : c'[f] = d[f]
      BY <2>1, <3>1, <3>3, <3>4, SayIs, Zenon
    <3>6. c'.opts = d.opts
      BY <3>5
    <3> QED BY <2>3, <3>2, <3>5, <3>6
  <2> QED BY <2>2, <2>3
<1> QED BY <1>1, <1>2, <1>3, <1>4, <1>5, <1>6, Zenon

LEMMA SaslRows ==
  ASSUME DOMAIN c = Fields
  PROVE  /\ TlsProceeds => Restarted("STARTTLS", "STARTTLS")
         /\ Challenged => Turned("SASLPWD", "GIVEPWD") \/ Aborted
         /\ PasswordRefused => Turned("ENDSTREAM", "EPASS")
         /\ ScramEnds => Turned("ENDSTREAM", "ESPEC") \/ Aborted \/ Restarted("SCRAMSHA1", "OK")
         /\ PlainEnds => Restarted("PLAIN", "OK") \/ Aborted
<1>1. TlsProceeds => Restarted("STARTTLS", "STARTTLS")
  BY RestartedIs, Zenon DEF TlsProceeds, Negotiates
<1>2. Challenged => Turned("SASLPWD", "GIVEPWD") \/ Aborted
  BY TurnedIs, LookedIs DEF Challenged, Negotiates, Abort, Aborted
<1>3. PasswordRefused => Turned("ENDSTREAM", "EPASS")
  BY TurnedIs DEF PasswordRefused, Negotiates
<1>4. ScramEnds => Turned("ENDSTREAM", "ESPEC") \/ Aborted \/ Restarted("SCRAMSHA1", "OK")
  BY TurnedIs, LookedIs, RestartedIs, Zenon DEF ScramEnds, Negotiates, Abort, Aborted
<1>5. PlainEnds => Restarted("PLAIN", "OK") \/ Aborted
  BY LookedIs, RestartedIs, Zenon DEF PlainEnds, Negotiates, Abort, Aborted
<1> QED BY <1>1, <1>2, <1>3, <1>4, <1>5

(* The negotiation is over, with acknowledgements or without.              *)
Accepted ==
  \/ /\ Took({"state", "isnegotiationdone"}) /\ After /\ ret' = "OK"
     /\ c'.state = "ACCEPTSTANZA" /\ c'.isnegotiationdone = TRUE
     /\ "DISABLESMACKS" \in c.opts
  \/ /\ Took({"state", "isnegotiationdone", "features", "out"}) /\ After /\ ret' = "SEND"
     /\ c'.state = "ACCEPTSTANZA" /\ c'.isnegotiationdone = TRUE
     /\ c'.features = c.features \cup {"SMACKS"} /\ c'.out = Appended(<<>>, E("enable"))
     /\ "DISABLESMACKS" \notin c.opts

LEMMA BoundIs ==
  ASSUME DOMAIN c = Fields, Bound
  PROVE  \/ Looked /\ ret' = "ESPEC"
         \/ Took({}) /\ Before /\ ret' = "EMEM"
         \/ StanzaType(Stanza) = "BINDJID" /\ Accepted
<1>1. ReadsStanza
  BY DEF Bound, Negotiates
<1>2. /\ Alike(c, Parsed, {"in", "i", "stanza"}) /\ Parsed.in = Rest /\ Parsed.i = FirstEnd(Rest)
      /\ Parsed.stanza = Stanza /\ c.out = <<>>
  BY <1>1, ParsedIs DEF Stanza, ReadsStanza, Reads, Iterates
<1>3. CASE StanzaType(Stanza) # "BINDJID"
  BY <1>1, <1>3, LookedIs DEF Bound
<1>4. CASE StanzaType(Stanza) = "BINDJID" /\ "DISABLESMACKS" \in c.opts
  <2> DEFINE d == [Parsed EXCEPT !.state = "ACCEPTSTANZA", !.isnegotiationdone = TRUE]
  <2>1. Return(d, "OK")
    BY <1>4 DEF Bound
  <2>2. /\ Alike(Parsed, d, {"state", "isnegotiationdone"})
        /\ d.state = "ACCEPTSTANZA" /\ d.isnegotiationdone = TRUE
    BY <1>2, Zenon DEF Alike, Fields
  <2> HIDE DEF d
  <2>3. {"state", "isnegotiationdone"} \subseteq Fields \ {"in", "i", "stanza"}
    BY DEF Fields
  <2>4. Alike(Parsed, d, {"state", "isnegotiationdone"})
    BY <2>2
  <2>5. Took({"state", "isnegotiationdone"}) /\ After /\ c' = d /\ ret' = "OK"
    BY <1>1, <2>1, <2>3, <2>4, ReturnIs
  <2> QED BY <1>4, <2>2, <2>5 DEF Accepted
<1>5. CASE /\ StanzaType(Stanza) = "BINDJID" /\ "DISABLESMACKS" \notin c.opts
           /\ CanFlush(Parsed)
  <2> DEFINE w == xmppAppendXml(Parsed, E("enable"))
             d == [w EXCEPT !.features = @ \cup {"SMACKS"}, !.state = "ACCEPTSTANZA",
                            !.isnegotiationdone = TRUE]
  <2>1. Return(d, "SEND")
    BY <1>5 DEF Bound
  <2>2. Alike(Parsed, w, {"out"}) /\ w.out = Appended(<<>>, E("enable"))
    <3>1. DOMAIN Parsed = Fields /\ Parsed.out = <<>>
      BY <1>2 DEF Alike, Fields
    <3> QED BY <3>1, AppendIs
  <2> HIDE DEF w
  <2>3. /\ Alike(Parsed, d, {"state", "isnegotiationdone", "features", "out"})
        /\ d.state = "ACCEPTSTANZA" /\ d.isnegotiationdone = TRUE
        /\ d.features = c.features \cup {"SMACKS"} /\ d.out = Appended(<<>>, E("enable"))
    BY <1>2, <2>2, Zenon DEF Alike, Fields
  <2> HIDE DEF d
  <2>4. {"state", "isnegotiationdone", "features", "out"} \subseteq Fields \ {"in", "i", "stanza"}
    BY DEF Fields
  <2>5. Alike(Parsed, d, {"state", "isnegotiationdone", "features", "out"})
    BY <2>3
  <2>6. /\ Took({"state", "isnegotiationdone", "features", "out"}) /\ After
        /\ c' = d /\ ret' = "SEND"
    BY <1>1, <2>1, <2>4, <2>5, ReturnIs
  <2> QED BY <1>5, <2>3, <2>6 DEF Accepted
<1>6. CASE /\ StanzaType(Stanza) = "BINDJID" /\ "DISABLESMACKS" \notin c.opts
           /\ ~ CanFlush(Parsed)
  <2>1. c' = [Parsed EXCEPT !.i = 0] /\ ret' = "EMEM"
    BY <1>6 DEF Bound, Return
  <2>2. Alike(c, c', {"in", "i", "stanza"}) /\ c'.i = 0 /\ c'.in = Rest /\ c'.stanza = Stanza
    BY <1>2, <2>1 DEF Alike, Fields
  <2> QED BY <2>1, <2>2 DEF Took, Before
<1> QED BY <1>3, <1>4, <1>5, <1>6

LEMMA StanzaRows ==
  ASSUME DOMAIN c = Fields
  PROVE  /\ Unexpected => Looked /\ ret' = "ESTATE"
         /\ AckAnswer => Looked /\ ret' = "ACK"
         /\ SmacksEnabled =>
              /\ Took({"features", "cansmackresume"}) /\ After /\ ret' = "OK"
              /\ c'.features = c.features \cup {"SMACKS"}
              /\ c'.cansmackresume \in {c.cansmackresume, Stanza.ok}
         /\ AckRequest =>
              \/ Looked /\ ret' = "EMEM"
              \/ /\ Took({"out"}) /\ After /\ ret' = "SEND"
                 /\ c'.out = Appended(<<>>, [E("a") EXCEPT !.k = c.actualrecv])
         /\ HandOver =>
              /\ Took({"actualrecv"}) /\ After /\ ret' = "STANZA"
              /\ c'.actualrecv = IF /\ "SMACKS" \in c.features
                                    /\ StanzaType(Stanza) \in {"IQ", "MESSAGE", "PRESENCE"}
                                 THEN c.actualrecv + 1 ELSE c.actualrecv
<1>1. Unexpected => Looked /\ ret' = "ESTATE"
  BY LookedIs DEF Unexpected, Negotiates
<1>2. AckAnswer => Looked /\ ret' = "ACK"
  BY LookedIs DEF AckAnswer, Established
<1>3. /\ Alike(c, Parsed, {"in", "i", "stanza"}) /\ Parsed.in = Rest /\ Parsed.i = FirstEnd(Rest)
      /\ Parsed.stanza = Stanza
  BY ParsedIs DEF Stanza
<1>4. ASSUME SmacksEnabled
      PROVE  /\ Took({"features", "cansmackresume"}) /\ After /\ ret' = "OK"
             /\ c'.features = c.features \cup {"SMACKS"}
             /\ c'.cansmackresume \in {c.cansmackresume, Stanza.ok}
  <2> DEFINE d == [Parsed EXCEPT !.features = @ \cup {"SMACKS"},
                                 !.cansmackresume = IF "DISABLESMACKS" \in c.opts THEN @
                                                    ELSE Stanza.ok]
  <2>1. ReadsStanza /\ Return(d, "OK")
    BY <1>4 DEF SmacksEnabled, Established
  <2>2. Alike(Parsed, d, {"features", "cansmackresume"})
    BY <1>3, Zenon DEF Alike, Fields
  <2>3. d.features = c.features \cup {"SMACKS"} /\ d.cansmackresume \in {c.cansmackresume, Stanza.ok}
    BY <1>3 DEF Alike, Fields
  <2> HIDE DEF d
  <2>4. {"features", "cansmackresume"} \subseteq Fields \ {"in", "i", "stanza"}
    BY DEF Fields
  <2>5. Took({"features", "cansmackresume"}) /\ After /\ c' = d /\ ret' = "OK"
    BY <2>1, <2>2, <2>4, ReturnIs
  <2> QED BY <2>3, <2>5
<1>5. ASSUME AckRequest
      PROVE  \/ Looked /\ ret' = "EMEM"
             \/ /\ Took({"out"}) /\ After /\ ret' = "SEND"
                /\ c'.out = Appended(<<>>, [E("a") EXCEPT !.k = c.actualrecv])
  <2>1. ReadsStanza /\ c.out = <<>>
    BY <1>5 DEF AckRequest, Established, ReadsStanza, Reads, Iterates
  <2>2. CASE CanFlush(Parsed)
    <3> DEFINE a == [E("a") EXCEPT !.k = c.actualrecv]
               d == xmppAppendXml(Parsed, a)
    <3>1. Return(d, "SEND")
      BY <1>5, <2>2 DEF AckRequest
    <3>2. DOMAIN Parsed = Fields /\ Parsed.out = <<>>
      BY <1>3, <2>1 DEF Alike, Fields
    <3> HIDE DEF a
    <3>3. Alike(Parsed, d, {"out"}) /\ d.out = Appended(<<>>, a)
      BY <3>2, AppendIs
    <3> HIDE DEF d
    <3>4. {"out"} \subseteq Fields \ {"in", "i", "stanza"}
      BY DEF Fields
    <3>5. Took({"out"}) /\ After /\ c' = d /\ ret' = "SEND"
      BY <2>1, <3>1, <3>3, <3>4, ReturnIs
    <3> QED BY <3>3, <3>5 DEF a
  <2>3. CASE ~ CanFlush(Parsed)
    BY <1>5, <2>1, <2>3, LookedIs DEF AckRequest
  <2> QED BY <2>2, <2>3
<1>6. ASSUME HandOver
      PROVE  /\ Took({"actualrecv"}) /\ After /\ ret' = "STANZA"
             /\ c'.actualrecv = IF /\ "SMACKS" \in c.features
                                   /\ StanzaType(Stanza) \in {"IQ", "MESSAGE", "PRESENCE"}
                                THEN c.actualrecv + 1 ELSE c.actualrecv
  <2> DEFINE all == "SMACKS" \in c.features /\ StanzaType(Stanza) \in {"IQ", "MESSAGE", "PRESENCE"}
  <2>1. Counted(Parsed) <=> all
    BY <1>3 DEF Counted, Alike, Fields
  <2>2. c' = (IF Counted(Parsed) THEN [Parsed EXCEPT !.actualrecv = @ + 1] ELSE Parsed)
        /\ ret' = "STANZA"
    BY <1>6 DEF HandOver
  <2> HIDE DEF all
  <2>3. /\ Alike(Parsed, c', {"actualrecv"})
        /\ c'.actualrecv = IF all THEN c.actualrecv + 1 ELSE c.actualrecv
    BY <1>3, <2>1, <2>2 DEF Alike, Fields
  <2>4. /\ Alike(c, c', {"actualrecv"} \cup {"in", "i", "stanza"}) /\ c'.in = Rest
        /\ c'.stanza = Stanza /\ c'.i = FirstEnd(Rest)
    BY <1>3, <2>3 DEF Alike, Fields
  <2> QED BY <2>2, <2>3, <2>4 DEF Took, After, all
<1> QED BY <1>1, <1>2, <1>4, <1>5, <1>6

(* The rows of the other actions of xmppIterate.                           *)
LEMMA OtherRows ==
  ASSUME DOMAIN c = Fields
  PROVE  /\ SkipFails =>
              Alike(c, c', {"i"}) /\ c'.i = c.i + 1 /\ ret' = "EXML" /\ Rest # <<>>
         /\ SkipEnds =>
              /\ Alike(c, c', {"i", "skippingdepth", "rootclosed"})
              /\ c'.i = c.i + FirstEnd(Rest) /\ c'.skippingdepth = 1 /\ c'.rootclosed = TRUE
              /\ ret' = "ESKIP" /\ HasEnd(Rest)
         /\ SkipGoesOn =>
              /\ Alike(c, c', {"in", "i", "skippingdepth"}) /\ c'.in = <<>> /\ c'.i = 0
              /\ c'.skippingdepth =
                   c.skippingdepth + Cardinality({j \in DOMAIN Rest : Rest[j].first})
              /\ ret' = "RECV"
         /\ Partial =>
              \/ /\ Alike(c, c', {"in", "i", "skippingdepth", "rootclosed"})
                 /\ c'.in = Rest /\ c'.i = 0 /\ Len(Rest) = InCap
                 /\ c'.skippingdepth = 1 /\ c'.rootclosed = FALSE /\ ret' = "OK"
              \/ /\ Moved /\ ret' = IF c.isnegotiationdone THEN "READY" ELSE "RECV"
                 /\ Len(Rest) # InCap
<1>1. SkipFails =>
        Alike(c, c', {"i"}) /\ c'.i = c.i + 1 /\ ret' = "EXML" /\ Rest # <<>>
  BY DEF SkipFails, Unskipped, Rest, Alike, Fields
<1>2. SkipEnds =>
        /\ Alike(c, c', {"i", "skippingdepth", "rootclosed"})
        /\ c'.i = c.i + FirstEnd(Rest) /\ c'.skippingdepth = 1 /\ c'.rootclosed = TRUE
        /\ ret' = "ESKIP" /\ HasEnd(Rest)
  BY Zenon DEF SkipEnds, Unskipped, Rest, Alike, Fields
<1>3. SkipGoesOn =>
        /\ Alike(c, c', {"in", "i", "skippingdepth"}) /\ c'.in = <<>> /\ c'.i = 0
        /\ c'.skippingdepth =
             c.skippingdepth + Cardinality({j \in DOMAIN Rest : Rest[j].first})
        /\ ret' = "RECV"
  <2> SUFFICES ASSUME SkipGoesOn
               PROVE  /\ Alike(c, c', {"in", "i", "skippingdepth"}) /\ c'.in = <<>> /\ c'.i = 0
                      /\ c'.skippingdepth =
                           c.skippingdepth + Cardinality({j \in DOMAIN Rest : Rest[j].first})
                      /\ ret' = "RECV"
    OBVIOUS
  <2> DEFINE n == Cardinality({j \in DOMAIN Rest : Rest[j].first})
  <2>1. c' = [c EXCEPT !.in = <<>>, !.i = 0, !.skippingdepth = @ + n] /\ ret' = "RECV"
    BY DEF SkipGoesOn, Unskipped, Rest
  <2> HIDE DEF n
  <2>2. /\ Alike(c, c', {"in", "i", "skippingdepth"}) /\ c'.in = <<>> /\ c'.i = 0
        /\ c'.skippingdepth = c.skippingdepth + n
    BY <2>1, Zenon DEF Alike, Fields
  <2> QED BY <2>1, <2>2 DEF n
<1>4. ASSUME Partial
      PROVE  \/ /\ Alike(c, c', {"in", "i", "skippingdepth", "rootclosed"})
                /\ c'.in = Rest /\ c'.i = 0 /\ Len(Rest) = InCap
                /\ c'.skippingdepth = 1 /\ c'.rootclosed = FALSE /\ ret' = "OK"
             \/ /\ Moved /\ ret' = IF c.isnegotiationdone THEN "READY" ELSE "RECV"
                /\ Len(Rest) # InCap
  <2> DEFINE m == MoveStanza(c)
  <2>1. Alike(c, m, {"in", "i"}) /\ m.in = Rest /\ m.i = 0
    BY Zenon DEF MoveStanza, Alike, Fields, Rest
  <2>2. IF Len(m.in) = InCap
        THEN c' = [m EXCEPT !.skippingdepth = 1, !.rootclosed = FALSE] /\ ret' = "OK"
        ELSE c' = m /\ ret' = IF c.isnegotiationdone THEN "READY" ELSE "RECV"
    BY <1>4 DEF Partial
  <2> HIDE DEF m
  <2>3. CASE Len(m.in) = InCap
    <3>1. c' = [m EXCEPT !.skippingdepth = 1, !.rootclosed = FALSE] /\ ret' = "OK"
      BY <2>2, <2>3
    <3>2. /\ Alike(c, c', {"in", "i", "skippingdepth", "rootclosed"})
          /\ c'.in = Rest /\ c'.i = 0 /\ c'.skippingdepth = 1 /\ c'.rootclosed = FALSE
      BY <2>1, <3>1, Zenon DEF Alike, Fields
    <3> QED BY <2>1, <2>3, <3>1, <3>2
  <2>4. CASE Len(m.in) # InCap
    BY <2>1, <2>2, <2>4 DEF Moved
  <2> QED BY <2>3, <2>4, Zenon
<1> QED BY <1>1, <1>2, <1>3, <1>4, Zenon

LEMMA EndRows ==
  ASSUME DOMAIN c = Fields
  PROVE  /\ OpenStream =>
              \/ /\ Alike(c, c', {"out", "state"}) /\ c'.state = "STREAMSENT"
                 /\ c'.out = Appended(<<>>, E("stream")) /\ ret' = "SEND"
              \/ Alike(c, c', {"i"}) /\ c'.i = 0 /\ ret' = "EMEM"
         /\ EndStream =>
              \/ /\ Alike(c, c', {"out", "state"}) /\ c'.state = "UNINIT"
                 /\ c'.out = Appended(<<>>, E("/stream")) /\ ret' = "SEND"
              \/ Alike(c, c', {"state"}) /\ c'.state = "UNINIT" /\ ret' = "OK"
<1>1. ASSUME OpenStream
      PROVE  \/ /\ Alike(c, c', {"out", "state"}) /\ c'.state = "STREAMSENT"
                /\ c'.out = Appended(<<>>, E("stream")) /\ ret' = "SEND"
             \/ Alike(c, c', {"i"}) /\ c'.i = 0 /\ ret' = "EMEM"
  <2>1. c.out = <<>>
    BY <1>1 DEF OpenStream, Iterates
  <2>2. CASE CanFlush(c)
    <3> DEFINE w == xmppAppendXml(c, E("stream"))
    <3>1. c' = [w EXCEPT !.state = "STREAMSENT"] /\ ret' = "SEND"
      BY <1>1, <2>2 DEF OpenStream
    <3>2. Alike(c, w, {"out"}) /\ w.out = Appended(<<>>, E("stream"))
      BY <2>1, AppendIs
    <3> HIDE DEF w
    <3> QED BY <3>1, <3>2 DEF Alike, Fields
  <2>3. CASE ~ CanFlush(c)
    BY <1>1, <2>3 DEF OpenStream, Alike, Fields
  <2> QED BY <2>2, <2>3
<1>2. ASSUME EndStream
      PROVE  \/ /\ Alike(c, c', {"out", "state"}) /\ c'.state = "UNINIT"
                /\ c'.out = Appended(<<>>, E("/stream")) /\ ret' = "SEND"
             \/ Alike(c, c', {"state"}) /\ c'.state = "UNINIT" /\ ret' = "OK"
  <2>1. c.out = <<>>
    BY <1>2 DEF EndStream, Iterates
  <2>2. CASE CanFlush(c)
    <3> DEFINE w == xmppAppendXml(c, E("/stream"))
    <3>1. c' = [w EXCEPT !.state = "UNINIT"] /\ ret' = "SEND"
      BY <1>2, <2>2 DEF EndStream
    <3>2. Alike(c, w, {"out"}) /\ w.out = Appended(<<>>, E("/stream"))
      BY <2>1, AppendIs
    <3> HIDE DEF w
    <3> QED BY <3>1, <3>2 DEF Alike, Fields
  <2>3. CASE ~ CanFlush(c)
    BY <1>2, <2>3 DEF EndStream, Alike, Fields
  <2> QED BY <2>2, <2>3
<1> QED BY <1>1, <1>2

(* The rows of the application.                                            *)
LEMMA PasswordRows ==
  ASSUME DOMAIN c = Fields, NEW right \in BOOLEAN, xmppSupplyPassword(right)
  PROVE  \/ Alike(c, c', {"solved"}) /\ c'.solved = (c.state = "SASLPWD" /\ c.stanza.ok)
         \/ /\ Alike(c, c', {"solved", "out", "state"})
            /\ c'.solved = (c.state = "SASLPWD" /\ c.stanza.ok)
            /\ c'.state = IF c.state = "SASLPWD" THEN "SASLCHECKRESULT" ELSE "SASLRESULT"
            /\ \E ok \in BOOLEAN :
                 c'.out = Appended(c.out, [E(IF c.state = "SASLPWD" THEN "response"
                                             ELSE "authplain") EXCEPT !.ok = ok])
<1> DEFINE scram == c.state = "SASLPWD"
           solved == scram /\ c.stanza.ok
           ok == right /\ (scram => solved)
           e == [E(IF scram THEN "response" ELSE "authplain") EXCEPT !.ok = ok]
           w == xmppAppendXml(c, e)
<1>1. c' = IF ~CanFlush(c) THEN [c EXCEPT !.solved = solved]
           ELSE [w EXCEPT !.solved = solved,
                          !.state = IF scram THEN "SASLCHECKRESULT" ELSE "SASLRESULT"]
  BY DEF xmppSupplyPassword
<1>2. ok \in BOOLEAN
  OBVIOUS
<1> HIDE DEF ok
<1>3. \E b \in BOOLEAN :
        e = [E(IF scram THEN "response" ELSE "authplain") EXCEPT !.ok = b]
  BY <1>2
<1> HIDE DEF e
<1>4. Alike(c, w, {"out"}) /\ w.out = Appended(c.out, e)
  BY AppendIs
<1> HIDE DEF w
<1>5. CASE ~CanFlush(c)
  <2> HIDE DEF solved
  <2>1. Alike(c, c', {"solved"}) /\ c'.solved = solved
    BY <1>1, <1>5 DEF Alike, Fields
  <2> QED BY <2>1 DEF solved
<1>6. CASE CanFlush(c)
  <2> DEFINE s == IF scram THEN "SASLCHECKRESULT" ELSE "SASLRESULT"
  <2>1. c' = [w EXCEPT !.solved = solved, !.state = s]
    BY <1>1, <1>6
  <2> HIDE DEF solved, s
  <2>2. /\ Alike(c, c', {"solved", "out", "state"}) /\ c'.solved = solved /\ c'.state = s
        /\ c'.out = Appended(c.out, e)
    BY <2>1, <1>4, Zenon DEF Alike, Fields
  <2> QED BY <2>2, <1>3 DEF solved, s
<1> QED BY <1>5, <1>6

LEMMA FormatRows ==
  ASSUME DOMAIN c = Fields, NEW name, Format(name)
  PROVE  \/ c' = c
         \/ /\ "SMACKS" \in c.features /\ Alike(c, c', {"out", "actualsent"})
            /\ c'.out = Appended(Appended(c.out, E(name)), E("r"))
            /\ c'.actualsent = c.actualsent + 1
         \/ /\ "SMACKS" \notin c.features /\ Alike(c, c', {"out"})
            /\ c'.out = Appended(c.out, E(name))
<1>1. c' = xmppFormatStanza(c, E(name))
  BY DEF Format
<1> DEFINE w == xmppAppendXml(c, E(name))
<1>2. Alike(c, w, {"out"}) /\ w.out = Appended(c.out, E(name)) /\ DOMAIN w = Fields
  BY AppendIs DEF Alike
<1> DEFINE x == xmppAppendXml(w, E("r"))
<1>3. Alike(w, x, {"out"}) /\ x.out = Appended(w.out, E("r"))
  <2> HIDE DEF w
  <2> QED BY <1>2, AppendIs
<1>4. \/ c' = c
      \/ "SMACKS" \in c.features /\ c' = [x EXCEPT !.actualsent = @ + 1]
      \/ "SMACKS" \notin c.features /\ c' = w
  BY <1>1 DEF xmppFormatStanza
<1> HIDE DEF w, x
<1>5. CASE "SMACKS" \in c.features /\ c' = [x EXCEPT !.actualsent = @ + 1]
  BY <1>2, <1>3, <1>5 DEF Alike, Fields
<1> QED BY <1>2, <1>4, <1>5

LEMMA OwnRows ==
  ASSUME DOMAIN c = Fields
  PROVE  /\ \A n : Send(n) => Alike(c, c', {"out"}) /\ c'.out = Drop(c.out, n)
         /\ \A n : Receive(n) => Alike(c, c', {"in"}) /\ c'.in = c.in \o SubSeq(toClient, 1, n)
         /\ xmppEndStream => Alike(c, c', {"state"}) /\ c'.state = "ENDSTREAM"
         /\ xmppResume =>
              /\ Alike(c, c', {"state", "features", "out"}) /\ c'.state = "INIT"
              /\ c'.features = c.features \ ({"STARTTLS"} \cup Sasl) /\ c'.out = <<>>
<1>1. ASSUME NEW n, Send(n) PROVE Alike(c, c', {"out"}) /\ c'.out = Drop(c.out, n)
  BY <1>1 DEF Send, Alike, Fields
<1>2. ASSUME NEW n, Receive(n)
      PROVE  Alike(c, c', {"in"}) /\ c'.in = c.in \o SubSeq(toClient, 1, n)
  BY <1>2, Zenon DEF Receive, Alike, Fields
<1>3. xmppEndStream => Alike(c, c', {"state"}) /\ c'.state = "ENDSTREAM"
  BY DEF xmppEndStream, Alike, Fields
<1>4. xmppResume =>
        /\ Alike(c, c', {"state", "features", "out"}) /\ c'.state = "INIT"
        /\ c'.features = c.features \ ({"STARTTLS"} \cup Sasl) /\ c'.out = <<>>
  BY Zenon DEF xmppResume, Alike, Fields
<1> QED BY <1>1, <1>2, <1>3, <1>4, Zenon

-----------------------------------------------------------------------------
(* Sequences of parts.                                                     *)

Part == [el : Element, first : BOOLEAN, last : BOOLEAN]

(* A set of natural numbers has a least one.                               *)
LEMMA LeastIs ==
  ASSUME NEW S \in SUBSET Nat, S # {}
  PROVE  \E n \in S : \A m \in S : n <= m
<1> DEFINE R == {ss \in Nat \X Nat : ss[1] < ss[2]}
<1>1. IsWellFoundedOn(R, Nat)
  BY NatLessThanWellFounded DEF OpToRel
<1>2. \E n \in S : \A m \in S : ~ (<<m, n>> \in R)
  <2> HIDE DEF R
  <2> QED BY <1>1, WFMin, ZenonT(60)
<1>3. PICK n \in S : \A m \in S : ~ (<<m, n>> \in R)
  BY <1>2, Zenon
<1>4. ASSUME NEW m \in S PROVE n <= m
  <2>1. m \in Nat /\ n \in Nat
    OBVIOUS
  <2>2. ~ (m < n)
    BY <1>3, <2>1, Zenon
  <2> QED BY <2>1, <2>2
<1> QED BY <1>4

LEMMA PartsIs ==
  ASSUME NEW e \in Element, NEW n \in Nat
  PROVE  /\ Parts(e, n) \in Seq(Part) /\ Len(Parts(e, n)) = n
         /\ \A j \in 1..n : Parts(e, n)[j].el = e /\ (Parts(e, n)[j].first <=> j = 1)
                            /\ (Parts(e, n)[j].last <=> j = n)
<1>1. \A j \in 1..n : [el |-> e, first |-> j = 1, last |-> j = n] \in Part
  BY DEF Part
<1>2. Parts(e, n) \in [1..n -> Part]
  BY <1>1 DEF Parts
<1>3. Parts(e, n) \in Seq(Part) /\ Len(Parts(e, n)) = n
  BY <1>2
<1> QED BY <1>3, Zenon DEF Parts

LEMMA DropIs ==
  ASSUME NEW S, NEW s \in Seq(S), NEW n \in 0..Len(s)
  PROVE  /\ Drop(s, n) \in Seq(S) /\ Len(Drop(s, n)) = Len(s) - n
         /\ \A j \in 1..(Len(s) - n) : Drop(s, n)[j] = s[j + n]
<1>1. n + 1 \in 1..Len(s) + 1 /\ Len(s) \in 0..Len(s)
  OBVIOUS
<1> QED BY <1>1, SubSeqProperties DEF Drop

LEMMA FrontIs ==
  ASSUME NEW S, NEW s \in Seq(S), NEW n \in 0..Len(s)
  PROVE  /\ SubSeq(s, 1, n) \in Seq(S) /\ Len(SubSeq(s, 1, n)) = n
         /\ \A j \in 1..n : SubSeq(s, 1, n)[j] = s[j]
<1>1. 1 \in 1..Len(s) + 1 /\ n \in (1 - 1)..Len(s)
  OBVIOUS
<1> QED BY <1>1, SubSeqProperties

HIDE XmppAssumption

(* What is left behind a number of parts when more parts are added.        *)
LEMMA DropConcat ==
  ASSUME NEW s \in Seq(Part), NEW f \in Seq(Part), NEW i \in 0..Len(s)
  PROVE  Drop(s \o f, i) = Drop(s, i) \o f
<1> DEFINE a == s \o f
           r == Drop(s, i)
           g == Drop(a, i)
           b == r \o f
<1>1. /\ a \in Seq(Part) /\ Len(a) = Len(s) + Len(f)
      /\ \A j \in 1..(Len(s) + Len(f)) : a[j] = IF j <= Len(s) THEN s[j] ELSE f[j - Len(s)]
  BY ConcatProperties
<1>2. r \in Seq(Part) /\ Len(r) = Len(s) - i /\ \A j \in 1..(Len(s) - i) : r[j] = s[j + i]
  BY DropIs
<1> HIDE DEF a, r
<1>3. Len(s) \in Nat /\ Len(f) \in Nat /\ i \in Nat /\ i <= Len(s)
  OBVIOUS
<1>4. i \in 0..Len(a)
  BY <1>1, <1>3
<1>5. g \in Seq(Part) /\ Len(g) = Len(a) - i /\ \A j \in 1..(Len(a) - i) : g[j] = a[j + i]
  BY <1>1, <1>4, DropIs, Zenon
<1>6. /\ b \in Seq(Part) /\ Len(b) = Len(r) + Len(f)
      /\ \A j \in 1..(Len(r) + Len(f)) : b[j] = IF j <= Len(r) THEN r[j] ELSE f[j - Len(r)]
  BY <1>2, ConcatProperties, Zenon
<1> HIDE DEF g, b
<1>7. Len(g) = Len(b) /\ Len(b) = (Len(s) - i) + Len(f)
  BY <1>1, <1>2, <1>3, <1>5, <1>6
<1>8. ASSUME NEW j \in 1..Len(b) PROVE g[j] = b[j]
  <2>1. j \in Nat /\ j >= 1 /\ j <= (Len(s) - i) + Len(f)
    BY <1>3, <1>7
  <2>2. g[j] = a[j + i]
    BY <1>5, <1>7
  <2>3. j + i \in 1..(Len(s) + Len(f))
    BY <1>3, <2>1
  <2>4. j \in 1..(Len(r) + Len(f))
    BY <1>6
  <2>5. CASE j <= Len(s) - i
    <3>1. j + i <= Len(s) /\ j \in 1..(Len(s) - i)
      BY <1>3, <2>1, <2>5
    <3>2. a[j + i] = s[j + i]
      BY <1>1, <2>3, <3>1
    <3>3. b[j] = r[j]
      BY <1>2, <1>6, <2>4, <2>5
    <3> QED BY <1>2, <2>2, <3>1, <3>2, <3>3
  <2>6. CASE ~ (j <= Len(s) - i)
    <3>1. ~ (j + i <= Len(s)) /\ (j + i) - Len(s) = j - (Len(s) - i)
      BY <1>3, <2>1, <2>6
    <3>2. a[j + i] = f[(j + i) - Len(s)]
      BY <1>1, <2>3, <3>1
    <3>3. b[j] = f[j - (Len(s) - i)]
      BY <1>2, <1>6, <2>4, <2>6
    <3> QED BY <2>2, <3>1, <3>2, <3>3
  <2> QED BY <2>5, <2>6
<1>9. g = b
  BY <1>5, <1>6, <1>7, <1>8, SeqEqual
<1> QED BY <1>9 DEF g, b, a, r

LEMMA DropAgain ==
  ASSUME NEW s \in Seq(Part), NEW i \in 0..Len(s), NEW k \in i..Len(s)
  PROVE  Drop(s, k) = Drop(Drop(s, i), k - i)
<1> DEFINE d == Drop(s, k)
           r == Drop(s, i)
           m == k - i
           g == Drop(r, m)
<1>1. /\ Len(s) \in Nat /\ i \in Nat /\ k \in Nat /\ i <= k /\ k <= Len(s)
      /\ k \in 0..Len(s) /\ k = m + i /\ m \in Nat
  OBVIOUS
<1>2. d \in Seq(Part) /\ Len(d) = Len(s) - k /\ \A j \in 1..(Len(s) - k) : d[j] = s[j + k]
  BY <1>1, DropIs
<1>3. r \in Seq(Part) /\ Len(r) = Len(s) - i /\ \A j \in 1..(Len(s) - i) : r[j] = s[j + i]
  BY DropIs
<1> HIDE DEF d, r, m
<1>4. m \in 0..Len(r)
  BY <1>1, <1>3
<1>5. g \in Seq(Part) /\ Len(g) = Len(r) - m /\ \A j \in 1..(Len(r) - m) : g[j] = r[j + m]
  BY <1>3, <1>4, DropIs, Zenon
<1> HIDE DEF g
<1>6. Len(g) = Len(d) /\ Len(r) - m = Len(s) - k
  BY <1>1, <1>2, <1>3, <1>5
<1>7. ASSUME NEW j \in 1..Len(d) PROVE g[j] = d[j]
  <2>1. j \in 1..(Len(s) - k) /\ j \in 1..(Len(r) - m)
    BY <1>2, <1>6
  <2>2. j + m \in 1..(Len(s) - i) /\ (j + m) + i = j + k
    BY <1>1, <2>1
  <2>3. g[j] = r[j + m] /\ d[j] = s[j + k]
    BY <1>2, <1>5, <2>1
  <2>4. r[j + m] = s[(j + m) + i]
    BY <1>3, <2>2
  <2> QED BY <2>2, <2>3, <2>4
<1>8. g = d
  BY <1>2, <1>5, <1>6, <1>7, SeqEqual
<1> QED BY <1>8 DEF g, d, r, m

LEMMA Associates ==
  ASSUME NEW x \in Seq(Part), NEW y \in Seq(Part), NEW z \in Seq(Part)
  PROVE  (x \o y) \o z = x \o (y \o z)
BY ConcatAssociative

USE XmppAssumption

LEMMA AppendedIs ==
  ASSUME NEW out \in Seq(Part), NEW e \in Element
  PROVE  /\ Appended(out, e) \in Seq(Part) /\ Len(Appended(out, e)) <= OutCap
         /\ Len(Appended(out, e)) <= Len(out) + OutSize
         /\ \A j \in 1..Len(Appended(out, e)) :
              Appended(out, e)[j] = (out \o Parts(e, OutSize))[j]
<1> DEFINE all == out \o Parts(e, OutSize)
           n == IF Len(all) < OutCap THEN Len(all) ELSE OutCap
<1>1. Parts(e, OutSize) \in Seq(Part) /\ Len(Parts(e, OutSize)) = OutSize
  BY PartsIs DEF XmppAssumption
<1>2. all \in Seq(Part) /\ Len(all) = Len(out) + OutSize
  BY <1>1, ConcatProperties
<1>3. Appended(out, e) = SubSeq(all, 1, n)
  BY DEF Appended
<1> HIDE DEF all
<1>4. n \in 0..Len(all) /\ n <= OutCap
  BY <1>2 DEF XmppAssumption
<1> HIDE DEF n
<1>5. /\ Appended(out, e) \in Seq(Part) /\ Len(Appended(out, e)) = n
      /\ \A j \in 1..n : Appended(out, e)[j] = all[j]
  BY <1>2, <1>3, <1>4, FrontIs
<1> QED BY <1>2, <1>4, <1>5 DEF all

(* Where the first element ends.                                           *)
LEMMA FirstEndIs ==
  ASSUME NEW s \in Seq(Part), HasEnd(s)
  PROVE  /\ FirstEnd(s) \in 1..Len(s) /\ s[FirstEnd(s)].last /\ s[FirstEnd(s)] \in Part
         /\ \A h \in 1..(FirstEnd(s) - 1) : ~ s[h].last
<1> DEFINE T == {j \in DOMAIN s : s[j].last}
<1>1. T \in SUBSET Nat /\ T # {}
  BY DEF HasEnd
<1>2. PICK n \in T : \A m \in T : n <= m
  BY <1>1, LeastIs, Zenon
<1>3. n \in DOMAIN s /\ s[n].last /\ \A h \in 1..(n - 1) : ~ s[h].last
  BY <1>2
<1>4. FirstEnd(s) \in DOMAIN s /\ s[FirstEnd(s)].last /\ \A h \in 1..(FirstEnd(s) - 1) : ~ s[h].last
  BY <1>3 DEF FirstEnd
<1> QED BY <1>4

LEMMA ConcatElements ==
  ASSUME NEW s \in Seq(Part), NEW t \in Seq(Part)
  PROVE  Elements(s \o t) = Elements(s) \cup Elements(t)
<1>1. /\ s \o t \in Seq(Part) /\ Len(s \o t) = Len(s) + Len(t)
      /\ \A j \in 1..(Len(s) + Len(t)) :
           (s \o t)[j] = IF j <= Len(s) THEN s[j] ELSE t[j - Len(s)]
  BY ConcatProperties
<1>2. Elements(s) \subseteq Elements(s \o t)
  BY <1>1 DEF Elements
<1>3. Elements(t) \subseteq Elements(s \o t)
  <2> SUFFICES ASSUME NEW j \in DOMAIN t PROVE t[j].el \in Elements(s \o t)
    BY Zenon DEF Elements
  <2>1. j + Len(s) \in DOMAIN (s \o t) /\ (s \o t)[j + Len(s)] = t[j]
    BY <1>1
  <2> QED BY <2>1 DEF Elements
<1>4. Elements(s \o t) \subseteq Elements(s) \cup Elements(t)
  BY <1>1 DEF Elements
<1> QED BY <1>2, <1>3, <1>4

(* What is in a sequence of parts.                                         *)
LEMMA ElementsAre ==
  ASSUME NEW s \in Seq(Part)
  PROVE  /\ \A n \in 0..Len(s) : Elements(Drop(s, n)) \subseteq Elements(s)
         /\ \A n \in 0..Len(s) : Elements(SubSeq(s, 1, n)) \subseteq Elements(s)
         /\ \A t \in Seq(Part) : Elements(s \o t) = Elements(s) \cup Elements(t)
         /\ \A e \in Element, n \in Nat : Elements(Parts(e, n)) \subseteq {e}
         /\ \A e \in Element : Elements(Appended(s, e)) \subseteq Elements(s) \cup {e}
         /\ HasEnd(s) => s[FirstEnd(s)].el \in Elements(s)
         /\ Elements(s) \subseteq Element
<1>1. \A n \in 0..Len(s) : Elements(Drop(s, n)) \subseteq Elements(s)
  <2> TAKE n \in 0..Len(s)
  <2>1. /\ Drop(s, n) \in Seq(Part) /\ Len(Drop(s, n)) = Len(s) - n
        /\ \A j \in 1..(Len(s) - n) : Drop(s, n)[j] = s[j + n]
    BY DropIs
  <2> QED BY <2>1 DEF Elements
<1>2. \A n \in 0..Len(s) : Elements(SubSeq(s, 1, n)) \subseteq Elements(s)
  <2> TAKE n \in 0..Len(s)
  <2>1. /\ SubSeq(s, 1, n) \in Seq(Part) /\ Len(SubSeq(s, 1, n)) = n
        /\ \A j \in 1..n : SubSeq(s, 1, n)[j] = s[j]
    BY FrontIs
  <2> QED BY <2>1 DEF Elements
<1>3. \A t \in Seq(Part) : Elements(s \o t) = Elements(s) \cup Elements(t)
  BY ConcatElements
<1>4. \A e \in Element, n \in Nat : Elements(Parts(e, n)) \subseteq {e}
  <2> TAKE e \in Element, n \in Nat
  <2> DEFINE p == Parts(e, n)
  <2>1. p \in Seq(Part) /\ Len(p) = n /\ \A j \in 1..n : p[j].el = e
    BY PartsIs
  <2> HIDE DEF p
  <2>2. Elements(p) \subseteq {e}
    BY <2>1 DEF Elements
  <2> QED BY <2>2 DEF p
<1>5. \A e \in Element : Elements(Appended(s, e)) \subseteq Elements(s) \cup {e}
  <2> TAKE e \in Element
  <2>1. OutSize \in Nat /\ Parts(e, OutSize) \in Seq(Part) /\ Len(Parts(e, OutSize)) = OutSize
    BY PartsIs DEF XmppAssumption
  <2>2. Elements(s \o Parts(e, OutSize)) \subseteq Elements(s) \cup {e}
    BY <1>3, <1>4, <2>1 DEF XmppAssumption
  <2>3. /\ s \o Parts(e, OutSize) \in Seq(Part)
        /\ Len(s \o Parts(e, OutSize)) = Len(s) + OutSize
    BY <2>1, ConcatProperties
  <2>4. Elements(Appended(s, e)) \subseteq Elements(s \o Parts(e, OutSize))
    <3> DEFINE a == Appended(s, e)
               z == s \o Parts(e, OutSize)
    <3>1. /\ Appended(s, e) \in Seq(Part) /\ Len(Appended(s, e)) <= Len(s) + OutSize
          /\ \A j \in 1..Len(Appended(s, e)) :
               Appended(s, e)[j] = (s \o Parts(e, OutSize))[j]
      BY AppendedIs, Zenon
    <3>2. a \in Seq(Part) /\ z \in Seq(Part) /\ Len(a) <= Len(z)
          /\ \A j \in 1..Len(a) : a[j] = z[j]
      BY <2>3, <3>1
    <3> HIDE DEF a, z
    <3>3. Elements(a) \subseteq Elements(z)
      BY <3>2 DEF Elements
    <3> QED BY <3>3 DEF a, z
  <2> QED BY <2>2, <2>4
<1>6. HasEnd(s) => s[FirstEnd(s)].el \in Elements(s)
  BY FirstEndIs DEF Elements
<1>7. Elements(s) \subseteq Element
  <2>1. \A j \in DOMAIN s : s[j].el \in Element
    <3> TAKE j \in DOMAIN s
    <3>1. s[j] \in Part
      OBVIOUS
    <3> QED BY <3>1 DEF Part
  <2> QED BY <2>1 DEF Elements
<1> QED BY <1>1, <1>2, <1>3, <1>4, <1>5, <1>6, <1>7

-----------------------------------------------------------------------------
(* Types.                                                                  *)

Results == Errors \cup {"OK", "SEND", "RECV", "READY", "STARTTLS", "GIVEPWD", "STANZA",
                        "ACK", "STREAMEND", "EXIT", "ABORT"}

Features == Sasl \cup {"STARTTLS", "SMACKS"}

Flags == {"isnegotiationdone", "rootclosed", "cansmackresume", "solved"}

Counters == {"skippingdepth", "actualsent", "actualrecv"}

ClientOK(d) ==
  /\ DOMAIN d = Fields
  /\ d.state \in States /\ d.stanza \in Element
  /\ d.opts \subseteq Options /\ d.features \subseteq Features
  /\ d.in \in Seq(Part) /\ Len(d.in) <= InCap /\ d.i \in 0..Len(d.in)
  /\ d.out \in Seq(Part) /\ Len(d.out) <= OutCap
  /\ \A f \in Flags : d[f] \in BOOLEAN
  /\ \A f \in Counters : d[f] \in Nat

ServerFlags == {"tls", "auth", "bound", "sm", "closed"}

ServerCounters == {"handled", "counted", "n", "asked"}

ServerOK(s) ==
  /\ DOMAIN s = ServerFlags \cup ServerCounters \cup {"offered", "large", "lost"}
  /\ \A f \in ServerFlags : s[f] \in BOOLEAN
  /\ \A f \in ServerCounters : s[f] \in Nat
  /\ s.offered \in SUBSET {"SMACKS"} /\ s.large \in SUBSET Nat /\ s.lost \in SUBSET Nat

Typed ==
  /\ ClientOK(c) /\ ServerOK(server)
  /\ ret \in Results /\ tls \in BOOLEAN /\ formatted \in Nat /\ got \in Seq(Nat)
  /\ toServer \in Seq(Part) /\ toClient \in Seq(Part)

LEMMA ElementIs == \A name \in Names : E(name) \in Element
BY DEF E, Element

LEMMA ElementWith ==
  ASSUME NEW e \in Element
  PROVE  /\ \A k \in Nat : [e EXCEPT !.k = k] \in Element
         /\ \A ok \in BOOLEAN : [e EXCEPT !.ok = ok] \in Element
         /\ \A F \in SUBSET (Sasl \cup {"STARTTLS", "BIND", "SMACKS"}) :
              [e EXCEPT !.features = F] \in Element
         /\ \A child \in {"none", "bind", "error"} : [e EXCEPT !.child = child] \in Element
         /\ \A child \in {"none", "bind", "error"}, k \in Nat :
              [e EXCEPT !.child = child, !.k = k] \in Element
BY Zenon DEF Element

LEMMA TypesInitially == Init => Typed
<1> SUFFICES ASSUME Init PROVE Typed
  OBVIOUS
<1>1. PICK opts \in OptSets : c = xmppInitClient(opts)
  BY DEF Init
<1>2. opts \subseteq Options
  BY DEF XmppAssumption
<1>3. E("none") \in Element
  BY ElementIs DEF Names
<1>4. ClientOK(c)
  <2>1. DOMAIN c = Fields
    BY <1>1 DEF xmppInitClient, Fields
  <2>2. c.state \in States /\ c.stanza \in Element /\ c.opts \subseteq Options
        /\ c.features \subseteq Features
    BY <1>1, <1>2, <1>3 DEF xmppInitClient, States, Features
  <2>3. c.in = <<>> /\ c.i = 0 /\ c.out = <<>>
    BY <1>1 DEF xmppInitClient
  <2>4. c.in \in Seq(Part) /\ Len(c.in) = 0 /\ c.out \in Seq(Part) /\ Len(c.out) = 0
    BY <2>3
  <2>5. \A f \in Flags : c[f] \in BOOLEAN
    <3>1. /\ c.isnegotiationdone = FALSE /\ c.rootclosed = FALSE
          /\ c.cansmackresume = FALSE /\ c.solved = FALSE
      BY <1>1 DEF xmppInitClient
    <3> QED BY <3>1, Zenon DEF Flags
  <2>6. \A f \in Counters : c[f] \in Nat
    BY <1>1 DEF xmppInitClient, Counters
  <2>7. Len(c.in) <= InCap /\ c.i \in 0..Len(c.in) /\ Len(c.out) <= OutCap
    BY <2>3, <2>4 DEF XmppAssumption
  <2> QED BY <2>1, <2>2, <2>4, <2>5, <2>6, <2>7 DEF ClientOK
<1>5. ServerOK(server)
  BY DEF Init, NewServer, ServerOK, ServerFlags, ServerCounters
<1>6. ret \in Results /\ tls \in BOOLEAN /\ formatted \in Nat
  BY Zenon DEF Init, Results
<1>7. got \in Seq(Nat) /\ toServer \in Seq(Part) /\ toClient \in Seq(Part)
  BY DEF Init
<1> QED BY <1>4, <1>5, <1>6, <1>7 DEF Typed

LEMMA RestIs ==
  ASSUME Typed
  PROVE  /\ Rest \in Seq(Part) /\ Len(Rest) = Len(c.in) - c.i
         /\ \A j \in 1..Len(Rest) : Rest[j] = c.in[j + c.i]
         /\ Elements(Rest) \subseteq Elements(c.in)
<1>1. c.in \in Seq(Part) /\ c.i \in 0..Len(c.in)
  BY DEF Typed, ClientOK
<1>2. /\ Drop(c.in, c.i) \in Seq(Part) /\ Len(Drop(c.in, c.i)) = Len(c.in) - c.i
      /\ \A j \in 1..(Len(c.in) - c.i) : Drop(c.in, c.i)[j] = c.in[j + c.i]
  BY <1>1, DropIs, Zenon
<1>3. Elements(Drop(c.in, c.i)) \subseteq Elements(c.in)
  BY <1>1, ElementsAre
<1> QED BY <1>2, <1>3 DEF Rest

LEMMA StanzaIs ==
  ASSUME Typed, ReadsStanza
  PROVE  /\ HasEnd(Rest) /\ Rest \in Seq(Part) /\ FirstEnd(Rest) \in 1..Len(Rest)
         /\ Stanza = Rest[FirstEnd(Rest)].el /\ Stanza \in Element /\ Stanza \in Elements(c.in)
         /\ c.out = <<>> /\ ret = "OK"
<1>1. HasEnd(Rest) /\ DOMAIN c = Fields /\ c.out = <<>> /\ ret = "OK"
  BY DEF ReadsStanza, Rest, Typed, ClientOK, Reads, Iterates
<1>2. Stanza = Rest[FirstEnd(Rest)].el
  BY <1>1, ParsedIs
<1>3. Rest \in Seq(Part) /\ Elements(Rest) \subseteq Elements(c.in)
  BY RestIs
<1>4. FirstEnd(Rest) \in 1..Len(Rest) /\ Rest[FirstEnd(Rest)] \in Part
  BY <1>1, <1>3, FirstEndIs
<1>5. Rest[FirstEnd(Rest)].el \in Element
  BY <1>4 DEF Part
<1>6. Rest[FirstEnd(Rest)].el \in Elements(Rest)
  BY <1>1, <1>3, ElementsAre
<1> QED BY <1>1, <1>2, <1>3, <1>4, <1>5, <1>6

LEMMA TookTyped ==
  ASSUME Typed, ReadsStanza, NEW fs, fs \subseteq Fields \ {"in", "i", "stanza"},
         Took(fs), After \/ Before,
         c'.state \in States, c'.opts \subseteq Options, c'.features \subseteq Features,
         c'.out \in Seq(Part), Len(c'.out) <= OutCap,
         \A f \in Flags : c'[f] \in BOOLEAN, \A f \in Counters : c'[f] \in Nat
  PROVE  ClientOK(c')
<1>1. DOMAIN c' = Fields /\ c'.in = Rest /\ c'.stanza = Stanza
  BY DEF Took, Alike
<1>2. Rest \in Seq(Part) /\ Len(Rest) <= InCap
  <2>1. Len(c.in) \in Nat /\ Len(c.in) <= InCap /\ c.i \in 0..Len(c.in)
    BY DEF Typed, ClientOK
  <2> QED BY <2>1, RestIs DEF XmppAssumption
<1>3. Stanza \in Element /\ FirstEnd(Rest) \in 1..Len(Rest)
  BY StanzaIs
<1>4. c'.i \in 0..Len(c'.in)
  BY <1>1, <1>2, <1>3 DEF After, Before
<1> QED BY <1>1, <1>2, <1>3, <1>4 DEF ClientOK

LEMMA AppendedTyped ==
  /\ \A e \in Element : Appended(<<>>, e) \in Seq(Part) /\ Len(Appended(<<>>, e)) <= OutCap
  /\ <<>> \in Seq(Part) /\ Len(<<>>) <= OutCap
<1>1. <<>> \in Seq(Part) /\ Len(<<>>) <= OutCap
  BY DEF XmppAssumption
<1> QED BY <1>1, AppendedIs, Zenon

(* Each row of a stanza read keeps the types.                              *)
LEMMA LookedTyped ==
  ASSUME Typed, ReadsStanza
  PROVE  /\ Looked \/ (Took({}) /\ Before) => ClientOK(c')
         /\ \A e \in Element, s \in States : Said(e, s, {}) => ClientOK(c')
         /\ \A s \in States : \A r : Turned(s, r) => ClientOK(c')
         /\ \A f \in Features : \A r : Restarted(f, r) => ClientOK(c')
<1>1. ClientOK(c) /\ c.out = <<>>
  BY StanzaIs DEF Typed
<1>2. ASSUME Took({}), After \/ Before PROVE ClientOK(c')
  <2>1. /\ c'.state = c.state /\ c'.opts = c.opts /\ c'.features = c.features
        /\ c'.out = c.out /\ \A f \in Flags \cup Counters : c'[f] = c[f]
    BY <1>2 DEF Took, Alike, Fields, Flags, Counters
  <2>2. {} \subseteq Fields \ {"in", "i", "stanza"}
    OBVIOUS
  <2> QED BY <1>1, <1>2, <2>1, <2>2, TookTyped DEF ClientOK
<1>3. ASSUME NEW e \in Element, NEW s \in States, Said(e, s, {}) PROVE ClientOK(c')
  <2>1. CASE Took({}) /\ Before
    BY <1>2, <2>1
  <2>2. CASE /\ Took({} \cup {"out", "state"}) /\ After
             /\ c'.out = Appended(<<>>, e) /\ c'.state = s
    <3>1. Took({"out", "state"})
      <4>1. {} \cup {"out", "state"} = {"out", "state"}
        OBVIOUS
      <4> QED BY <2>2, <4>1
    <3>2. /\ c'.opts = c.opts /\ c'.features = c.features
          /\ \A f \in Flags \cup Counters : c'[f] = c[f]
      BY <3>1 DEF Took, Alike, Fields, Flags, Counters
    <3>3. {"out", "state"} \subseteq Fields \ {"in", "i", "stanza"}
      BY DEF Fields
    <3>4. c'.out \in Seq(Part) /\ Len(c'.out) <= OutCap
      BY <2>2, AppendedTyped
    <3> QED BY <1>1, <2>2, <3>1, <3>2, <3>3, <3>4, TookTyped DEF ClientOK
  <2> QED BY <1>3, <2>1, <2>2 DEF Said
<1>4. ASSUME NEW s \in States, NEW r, Turned(s, r) PROVE ClientOK(c')
  <2>1. Took({"state"}) /\ After /\ c'.state = s
    BY <1>4 DEF Turned
  <2>2. /\ c'.opts = c.opts /\ c'.features = c.features /\ c'.out = c.out
        /\ \A f \in Flags \cup Counters : c'[f] = c[f]
    BY <2>1 DEF Took, Alike, Fields, Flags, Counters
  <2>3. {"state"} \subseteq Fields \ {"in", "i", "stanza"}
    BY DEF Fields
  <2> QED BY <1>1, <2>1, <2>2, <2>3, TookTyped DEF ClientOK
<1>5. ASSUME NEW f \in Features, NEW r, Restarted(f, r) PROVE ClientOK(c')
  <2>1. /\ Took({"features", "state"}) /\ After /\ c'.features = c.features \cup {f}
        /\ c'.state = "INIT"
    BY <1>5 DEF Restarted
  <2>2. /\ c'.opts = c.opts /\ c'.out = c.out
        /\ \A g \in Flags \cup Counters : c'[g] = c[g]
    BY <2>1 DEF Took, Alike, Fields, Flags, Counters
  <2>3. {"features", "state"} \subseteq Fields \ {"in", "i", "stanza"}
    BY DEF Fields
  <2>4. c'.state \in States /\ c'.features \subseteq Features
    BY <1>1, <2>1 DEF States, ClientOK
  <2> QED BY <1>1, <2>1, <2>2, <2>3, <2>4, TookTyped DEF ClientOK
<1> QED BY <1>2, <1>3, <1>4, <1>5 DEF Looked

LEMMA ReadTyped ==
  ASSUME Typed
  PROVE  /\ BadStream \/ StartTls \/ NoTls \/ StartScram \/ AskPlain \/ NoMechanism
              \/ BindResource => ClientOK(c')
         /\ TlsProceeds \/ Challenged \/ PasswordRefused \/ ScramEnds \/ PlainEnds
              \/ Unexpected => ClientOK(c')
         /\ Bound \/ SmacksEnabled \/ AckAnswer \/ AckRequest \/ HandOver => ClientOK(c')
<1>1. ClientOK(c) /\ DOMAIN c = Fields
  BY DEF Typed, ClientOK
<1>2. ASSUME Moved PROVE ClientOK(c')
  <2>1. /\ DOMAIN c' = Fields /\ c'.in = Rest /\ c'.i = 0
        /\ c'.state = c.state /\ c'.stanza = c.stanza /\ c'.opts = c.opts
        /\ c'.features = c.features /\ c'.out = c.out
        /\ \A f \in Flags \cup Counters : c'[f] = c[f]
    BY <1>2 DEF Moved, Alike, Fields, Flags, Counters
  <2>2. Rest \in Seq(Part) /\ Len(Rest) <= InCap /\ 0 \in 0..Len(Rest)
    <3>1. Len(c.in) \in Nat /\ Len(c.in) <= InCap /\ c.i \in 0..Len(c.in)
      BY <1>1 DEF ClientOK
    <3>2. Rest \in Seq(Part) /\ Len(Rest) = Len(c.in) - c.i
      BY RestIs
    <3>3. Len(Rest) \in Nat
      BY <3>2
    <3> QED BY <3>1, <3>2, <3>3 DEF XmppAssumption
  <2> QED BY <1>1, <2>1, <2>2 DEF ClientOK
<1>3. /\ E("starttls") \in Element /\ E("auth") \in Element /\ E("bind") \in Element
      /\ E("enable") \in Element /\ [E("a") EXCEPT !.k = c.actualrecv] \in Element
  <2>1. c.actualrecv \in Nat
    BY <1>1 DEF ClientOK, Counters
  <2>2. E("a") \in Element
    BY ElementIs DEF Names
  <2>3. [E("a") EXCEPT !.k = c.actualrecv] \in Element
    BY <2>1, <2>2, ElementWith, Zenon
  <2> QED BY <2>3, ElementIs DEF Names
<1>4. ASSUME BadStream \/ StartTls \/ NoTls \/ StartScram \/ AskPlain \/ NoMechanism
               \/ BindResource
      PROVE  ClientOK(c')
  <2>1. ReadsStanza
    BY <1>4 DEF BadStream, StartTls, NoTls, StartScram, AskPlain, NoMechanism, BindResource,
       Authenticates, Encrypted, ReadsFeatures
  <2>2. CASE BadStream
    BY <1>1, <1>2, <2>1, <2>2, StreamRows, LookedTyped
  <2>3. CASE StartTls
    <3>1. Said(E("starttls"), "STARTTLS", {}) /\ "STARTTLS" \in States
      BY <1>1, <2>3, StreamRows DEF States
    <3> QED BY <1>3, <2>1, <3>1, LookedTyped
  <2>4. CASE NoTls \/ NoMechanism
    BY <1>1, <2>1, <2>4, StreamRows, LookedTyped
  <2>5. CASE StartScram
    <3>1. Said(E("auth"), "SASLINIT", {"solved"}) /\ c'.solved = FALSE
      BY <1>1, <2>5, StreamRows, Zenon
    <3>2. CASE Took({"solved"}) /\ Before
      <4>1. /\ c'.state = c.state /\ c'.opts = c.opts /\ c'.features = c.features
            /\ c'.out = c.out /\ \A f \in (Flags \cup Counters) \ {"solved"} : c'[f] = c[f]
        BY <3>2 DEF Took, Alike, Fields, Flags, Counters
      <4>2. \A f \in Flags : c'[f] \in BOOLEAN
        BY <1>1, <3>1, <4>1, Zenon DEF ClientOK
      <4>3. \A f \in Counters : c'[f] \in Nat
        BY <1>1, <4>1 DEF ClientOK, Counters
      <4>4. {"solved"} \subseteq Fields \ {"in", "i", "stanza"}
        BY DEF Fields
      <4> QED BY <1>1, <2>1, <3>2, <4>1, <4>2, <4>3, <4>4, TookTyped DEF ClientOK
    <3>3. CASE /\ Took({"solved"} \cup {"out", "state"}) /\ After
               /\ c'.out = Appended(<<>>, E("auth")) /\ c'.state = "SASLINIT"
      <4>1. /\ c'.opts = c.opts /\ c'.features = c.features
            /\ \A f \in (Flags \cup Counters) \ {"solved"} : c'[f] = c[f]
        BY <3>3 DEF Took, Alike, Fields, Flags, Counters
      <4>2. \A f \in Flags : c'[f] \in BOOLEAN
        BY <1>1, <3>1, <4>1, Zenon DEF ClientOK
      <4>3. \A f \in Counters : c'[f] \in Nat
        BY <1>1, <4>1 DEF ClientOK, Counters
      <4>4. {"solved"} \cup {"out", "state"} \subseteq Fields \ {"in", "i", "stanza"}
        BY DEF Fields
      <4>5. c'.out \in Seq(Part) /\ Len(c'.out) <= OutCap /\ c'.state \in States
        BY <1>3, <3>3, AppendedTyped DEF States
      <4> QED BY <1>1, <2>1, <3>3, <4>1, <4>2, <4>3, <4>4, <4>5, TookTyped DEF ClientOK
    <3> QED BY <3>1, <3>2, <3>3 DEF Said
  <2>6. CASE AskPlain
    <3>1. Turned("SASLPLAIN", "GIVEPWD") /\ "SASLPLAIN" \in States
      BY <1>1, <2>6, StreamRows DEF States
    <3> QED BY <2>1, <3>1, LookedTyped
  <2>7. CASE BindResource
    <3>1. \/ Aborted
          \/ Said(E("bind"), "BIND", {"opts"}) /\ c'.opts \subseteq c.opts \cup {"DISABLESMACKS"}
      BY <1>1, <2>7, StreamRows
    <3>2. c.opts \cup {"DISABLESMACKS"} \subseteq Options
      BY <1>1 DEF ClientOK, Options
    <3>3. CASE Aborted
      BY <2>1, <3>3, LookedTyped DEF Aborted
    <3>4. CASE Took({"opts"}) /\ Before /\ c'.opts \subseteq Options
      <4>1. /\ c'.state = c.state /\ c'.features = c.features /\ c'.out = c.out
            /\ \A f \in Flags \cup Counters : c'[f] = c[f]
        BY <3>4 DEF Took, Alike, Fields, Flags, Counters
      <4>2. {"opts"} \subseteq Fields \ {"in", "i", "stanza"}
        BY DEF Fields
      <4> QED BY <1>1, <2>1, <3>4, <4>1, <4>2, TookTyped DEF ClientOK
    <3>5. CASE /\ Took({"opts"} \cup {"out", "state"}) /\ After /\ c'.opts \subseteq Options
               /\ c'.out = Appended(<<>>, E("bind")) /\ c'.state = "BIND"
      <4>1. c'.features = c.features /\ \A f \in Flags \cup Counters : c'[f] = c[f]
        BY <3>5 DEF Took, Alike, Fields, Flags, Counters
      <4>2. {"opts"} \cup {"out", "state"} \subseteq Fields \ {"in", "i", "stanza"}
        BY DEF Fields
      <4>3. c'.out \in Seq(Part) /\ Len(c'.out) <= OutCap /\ c'.state \in States
        BY <1>3, <3>5, AppendedTyped DEF States
      <4> QED BY <1>1, <2>1, <3>5, <4>1, <4>2, <4>3, TookTyped DEF ClientOK
    <3> QED BY <3>1, <3>2, <3>3, <3>4, <3>5 DEF Said
  <2> QED BY <1>4, <2>2, <2>3, <2>4, <2>5, <2>6, <2>7
<1>5. ASSUME TlsProceeds \/ Challenged \/ PasswordRefused \/ ScramEnds \/ PlainEnds
               \/ Unexpected
      PROVE  ClientOK(c')
  <2>1. ReadsStanza
    BY <1>5 DEF TlsProceeds, Challenged, PasswordRefused, ScramEnds, PlainEnds, Unexpected,
       Negotiates
  <2>2. \/ \E f \in Features, r \in Results : Restarted(f, r)
        \/ \E s \in States, r \in Results : Turned(s, r)
        \/ Looked
    BY <1>1, <1>5, SaslRows, StanzaRows DEF Features, Sasl, States, Results, Errors, Aborted
  <2> QED BY <2>1, <2>2, LookedTyped
<1>6. ASSUME Bound \/ SmacksEnabled \/ AckAnswer \/ AckRequest \/ HandOver PROVE ClientOK(c')
  <2>1. ReadsStanza
    BY <1>6 DEF Bound, SmacksEnabled, AckAnswer, AckRequest, HandOver, Negotiates, Established
  <2>2. CASE Bound
    <3>1. Looked \/ (Took({}) /\ Before) \/ Accepted
      BY <1>1, <2>2, BoundIs
    <3>2. CASE /\ Took({"state", "isnegotiationdone"}) /\ After
               /\ c'.state = "ACCEPTSTANZA" /\ c'.isnegotiationdone = TRUE
      <4>1. /\ c'.opts = c.opts /\ c'.features = c.features /\ c'.out = c.out
            /\ \A f \in (Flags \cup Counters) \ {"isnegotiationdone"} : c'[f] = c[f]
        BY <3>2 DEF Took, Alike, Fields, Flags, Counters
      <4>2. \A f \in Flags : c'[f] \in BOOLEAN
        BY <1>1, <3>2, <4>1, Zenon DEF ClientOK
      <4>3. \A f \in Counters : c'[f] \in Nat
        BY <1>1, <4>1 DEF ClientOK, Counters
      <4>4. {"state", "isnegotiationdone"} \subseteq Fields \ {"in", "i", "stanza"}
        BY DEF Fields
      <4>5. c'.state \in States
        BY <3>2 DEF States
      <4> QED BY <1>1, <2>1, <3>2, <4>1, <4>2, <4>3, <4>4, <4>5, TookTyped DEF ClientOK
    <3>3. CASE /\ Took({"state", "isnegotiationdone", "features", "out"}) /\ After
               /\ c'.state = "ACCEPTSTANZA" /\ c'.isnegotiationdone = TRUE
               /\ c'.features = c.features \cup {"SMACKS"}
               /\ c'.out = Appended(<<>>, E("enable"))
      <4>1. /\ c'.opts = c.opts
            /\ \A f \in (Flags \cup Counters) \ {"isnegotiationdone"} : c'[f] = c[f]
        BY <3>3 DEF Took, Alike, Fields, Flags, Counters
      <4>2. \A f \in Flags : c'[f] \in BOOLEAN
        BY <1>1, <3>3, <4>1, Zenon DEF ClientOK
      <4>3. \A f \in Counters : c'[f] \in Nat
        BY <1>1, <4>1 DEF ClientOK, Counters
      <4>4. {"state", "isnegotiationdone", "features", "out"} \subseteq
              Fields \ {"in", "i", "stanza"}
        BY DEF Fields
      <4>5. c'.state \in States /\ c'.features \subseteq Features
        BY <1>1, <3>3 DEF States, Features, ClientOK
      <4>6. c'.out \in Seq(Part) /\ Len(c'.out) <= OutCap
        BY <1>3, <3>3, AppendedTyped
      <4> QED BY <1>1, <2>1, <3>3, <4>1, <4>2, <4>3, <4>4, <4>5, <4>6, TookTyped DEF ClientOK
    <3>4. CASE Looked \/ (Took({}) /\ Before)
      BY <2>1, <3>4, LookedTyped
    <3> QED BY <3>1, <3>2, <3>3, <3>4, Zenon DEF Accepted
  <2>3. CASE SmacksEnabled
    <3>1. /\ Took({"features", "cansmackresume"}) /\ After
          /\ c'.features = c.features \cup {"SMACKS"}
          /\ c'.cansmackresume \in {c.cansmackresume, Stanza.ok}
      BY <1>1, <2>3, StanzaRows
    <3>2. /\ c'.opts = c.opts /\ c'.state = c.state /\ c'.out = c.out
          /\ \A f \in (Flags \cup Counters) \ {"cansmackresume"} : c'[f] = c[f]
      BY <3>1 DEF Took, Alike, Fields, Flags, Counters
    <3>3. c'.cansmackresume \in BOOLEAN
      <4>1. Stanza.ok \in BOOLEAN
        BY <2>1, StanzaIs DEF Element
      <4>2. c.cansmackresume \in BOOLEAN
        BY <1>1 DEF ClientOK, Flags
      <4> QED BY <3>1, <4>1, <4>2
    <3>4. \A f \in Flags : c'[f] \in BOOLEAN
      BY <1>1, <3>2, <3>3 DEF ClientOK
    <3>5. \A f \in Counters : c'[f] \in Nat
      BY <1>1, <3>2 DEF ClientOK, Counters
    <3>6. {"features", "cansmackresume"} \subseteq Fields \ {"in", "i", "stanza"}
      BY DEF Fields
    <3>7. c'.features \subseteq Features
      BY <1>1, <3>1 DEF Features, ClientOK
    <3> QED BY <1>1, <2>1, <3>1, <3>2, <3>4, <3>5, <3>6, <3>7, TookTyped DEF ClientOK
  <2>4. CASE AckAnswer
    BY <1>1, <2>1, <2>4, StanzaRows, LookedTyped
  <2>5. CASE AckRequest
    <3> DEFINE a == [E("a") EXCEPT !.k = c.actualrecv]
    <3>1. Looked \/ (Took({"out"}) /\ After /\ c'.out = Appended(<<>>, a))
      BY <1>1, <2>5, StanzaRows
    <3> HIDE DEF a
    <3>2. CASE Looked
      BY <2>1, <3>2, LookedTyped
    <3>3. CASE Took({"out"}) /\ After /\ c'.out = Appended(<<>>, a)
      <4>1. /\ c'.opts = c.opts /\ c'.state = c.state /\ c'.features = c.features
            /\ \A f \in Flags \cup Counters : c'[f] = c[f]
        BY <3>3 DEF Took, Alike, Fields, Flags, Counters
      <4>2. {"out"} \subseteq Fields \ {"in", "i", "stanza"}
        BY DEF Fields
      <4>3. c'.out \in Seq(Part) /\ Len(c'.out) <= OutCap
        BY <1>3, <3>3, AppendedTyped DEF a
      <4> QED BY <1>1, <2>1, <3>3, <4>1, <4>2, <4>3, TookTyped DEF ClientOK
    <3> QED BY <3>1, <3>2, <3>3
  <2>6. CASE HandOver
    <3>1. Took({"actualrecv"}) /\ After /\ c'.actualrecv \in {c.actualrecv, c.actualrecv + 1}
      BY <1>1, <2>6, StanzaRows
    <3>2. /\ c'.opts = c.opts /\ c'.state = c.state /\ c'.features = c.features
          /\ c'.out = c.out
          /\ \A f \in (Flags \cup Counters) \ {"actualrecv"} : c'[f] = c[f]
      BY <3>1 DEF Took, Alike, Fields, Flags, Counters
    <3>3. \A f \in Counters : c'[f] \in Nat
      BY <1>1, <3>1, <3>2 DEF ClientOK, Counters
    <3>4. \A f \in Flags : c'[f] \in BOOLEAN
      BY <1>1, <3>2 DEF ClientOK, Flags
    <3>5. {"actualrecv"} \subseteq Fields \ {"in", "i", "stanza"}
      BY DEF Fields
    <3> QED BY <1>1, <2>1, <3>1, <3>2, <3>3, <3>4, <3>5, TookTyped DEF ClientOK
  <2> QED BY <1>6, <2>2, <2>3, <2>4, <2>5, <2>6
<1> QED BY <1>4, <1>5, <1>6

LEMMA OtherTyped ==
  ASSUME Typed
  PROVE  /\ SkipFails \/ SkipEnds \/ SkipGoesOn \/ Partial => ClientOK(c')
         /\ OpenStream \/ EndStream => ClientOK(c')
<1>1. ClientOK(c) /\ DOMAIN c = Fields
  BY DEF Typed, ClientOK
<1>2. /\ Rest \in Seq(Part) /\ Len(Rest) = Len(c.in) - c.i /\ Len(c.in) \in Nat
      /\ c.i \in 0..Len(c.in) /\ Len(Rest) <= InCap /\ Len(Rest) \in Nat
  <2>1. Len(c.in) \in Nat /\ Len(c.in) <= InCap /\ c.i \in 0..Len(c.in)
    BY <1>1 DEF ClientOK
  <2>2. Rest \in Seq(Part) /\ Len(Rest) = Len(c.in) - c.i
    BY RestIs
  <2> QED BY <2>1, <2>2 DEF XmppAssumption
<1>3. ASSUME SkipFails PROVE ClientOK(c')
  <2>1. Alike(c, c', {"i"}) /\ c'.i = c.i + 1 /\ Rest # <<>>
    BY <1>1, <1>3, OtherRows
  <2>2. /\ c'.state = c.state /\ c'.stanza = c.stanza /\ c'.opts = c.opts
        /\ c'.features = c.features /\ c'.out = c.out /\ c'.in = c.in /\ DOMAIN c' = Fields
        /\ \A f \in Flags \cup Counters : c'[f] = c[f]
    BY <2>1 DEF Alike, Fields, Flags, Counters
  <2>3. Len(Rest) # 0
    BY <1>2, <2>1, EmptySeq
  <2>4. c'.i \in 0..Len(c'.in)
    BY <1>2, <2>1, <2>2, <2>3
  <2> QED BY <1>1, <2>2, <2>4 DEF ClientOK
<1>4. ASSUME SkipEnds PROVE ClientOK(c')
  <2>1. /\ Alike(c, c', {"i", "skippingdepth", "rootclosed"})
        /\ c'.i = c.i + FirstEnd(Rest) /\ c'.skippingdepth = 1 /\ c'.rootclosed = TRUE
        /\ HasEnd(Rest)
    BY <1>1, <1>4, OtherRows, Zenon
  <2>2. /\ c'.state = c.state /\ c'.stanza = c.stanza /\ c'.opts = c.opts
        /\ c'.features = c.features /\ c'.out = c.out /\ c'.in = c.in /\ DOMAIN c' = Fields
        /\ \A f \in (Flags \cup Counters) \ {"skippingdepth", "rootclosed"} : c'[f] = c[f]
    BY <2>1 DEF Alike, Fields, Flags, Counters
  <2>3. FirstEnd(Rest) \in 1..Len(Rest)
    BY <1>2, <2>1, FirstEndIs
  <2>4. c'.i \in 0..Len(c'.in)
    BY <1>2, <2>1, <2>2, <2>3
  <2>5. \A f \in Flags : c'[f] \in BOOLEAN
    BY <1>1, <2>1, <2>2, Zenon DEF ClientOK, Flags
  <2>6. \A f \in Counters : c'[f] \in Nat
    BY <1>1, <2>1, <2>2 DEF ClientOK, Counters
  <2> QED BY <1>1, <2>2, <2>4, <2>5, <2>6 DEF ClientOK
<1>5. ASSUME SkipGoesOn PROVE ClientOK(c')
  <2> DEFINE n == Cardinality({j \in DOMAIN Rest : Rest[j].first})
  <2>1. /\ Alike(c, c', {"in", "i", "skippingdepth"}) /\ c'.in = <<>> /\ c'.i = 0
        /\ c'.skippingdepth = c.skippingdepth + n
    BY <1>1, <1>5, OtherRows
  <2>2. n \in Nat
    <3>1. {j \in DOMAIN Rest : Rest[j].first} \subseteq 1..Len(Rest)
      BY <1>2
    <3>2. IsFiniteSet(1..Len(Rest))
      BY <1>2, FS_Interval
    <3>3. IsFiniteSet({j \in DOMAIN Rest : Rest[j].first})
      BY <3>1, <3>2, FS_Subset
    <3> QED BY <3>3, FS_CardinalityType
  <2> HIDE DEF n
  <2>3. /\ c'.state = c.state /\ c'.stanza = c.stanza /\ c'.opts = c.opts
        /\ c'.features = c.features /\ c'.out = c.out /\ DOMAIN c' = Fields
        /\ \A f \in (Flags \cup Counters) \ {"skippingdepth"} : c'[f] = c[f]
    BY <2>1 DEF Alike, Fields, Flags, Counters
  <2>4. c'.in \in Seq(Part) /\ Len(c'.in) = 0
    BY <2>1
  <2>5. Len(c'.in) <= InCap /\ c'.i \in 0..Len(c'.in)
    BY <2>1, <2>4 DEF XmppAssumption
  <2>6. \A f \in Flags : c'[f] \in BOOLEAN
    BY <1>1, <2>3 DEF ClientOK, Flags
  <2>7. \A f \in Counters : c'[f] \in Nat
    BY <1>1, <2>1, <2>2, <2>3 DEF ClientOK, Counters
  <2> QED BY <1>1, <2>3, <2>4, <2>5, <2>6, <2>7 DEF ClientOK
<1>6. ASSUME Partial PROVE ClientOK(c')
  <2>1. /\ Alike(c, c', {"in", "i", "skippingdepth", "rootclosed"}) /\ c'.in = Rest /\ c'.i = 0
        /\ c'.skippingdepth \in {c.skippingdepth, 1} /\ c'.rootclosed \in {c.rootclosed, FALSE}
    <3>1. CASE Moved
      <4>1. /\ Alike(c, c', {"in", "i", "skippingdepth", "rootclosed"})
            /\ c'.skippingdepth = c.skippingdepth /\ c'.rootclosed = c.rootclosed
        BY <3>1 DEF Moved, Alike, Fields
      <4> QED BY <3>1, <4>1 DEF Moved
    <3>2. CASE ~ Moved
      BY <1>1, <1>6, <3>2, OtherRows, Zenon
    <3> QED BY <3>1, <3>2, Zenon
  <2>2. /\ c'.state = c.state /\ c'.stanza = c.stanza /\ c'.opts = c.opts
        /\ c'.features = c.features /\ c'.out = c.out /\ DOMAIN c' = Fields
        /\ \A f \in (Flags \cup Counters) \ {"skippingdepth", "rootclosed"} : c'[f] = c[f]
    BY <2>1 DEF Alike, Fields, Flags, Counters
  <2>3. c'.in \in Seq(Part) /\ Len(c'.in) <= InCap /\ c'.i \in 0..Len(c'.in)
    BY <1>2, <2>1
  <2>4. \A f \in Flags : c'[f] \in BOOLEAN
    <3>1. c.rootclosed \in BOOLEAN /\ c'.rootclosed \in BOOLEAN
      BY <1>1, <2>1, Zenon DEF ClientOK, Flags
    <3> QED BY <1>1, <2>2, <3>1 DEF ClientOK, Flags
  <2>5. \A f \in Counters : c'[f] \in Nat
    BY <1>1, <2>1, <2>2 DEF ClientOK, Counters
  <2> QED BY <1>1, <2>2, <2>3, <2>4, <2>5 DEF ClientOK
<1>7. ASSUME OpenStream \/ EndStream PROVE ClientOK(c')
  <2>1. \/ /\ Alike(c, c', {"out", "state"}) /\ c'.state \in States
           /\ c'.out \in Seq(Part) /\ Len(c'.out) <= OutCap
        \/ Alike(c, c', {"i"}) /\ c'.i = 0
        \/ Alike(c, c', {"state"}) /\ c'.state \in States
    <3>1. E("stream") \in Element /\ E("/stream") \in Element
      BY ElementIs DEF Names
    <3> QED BY <1>1, <1>7, <3>1, EndRows, AppendedTyped DEF States
  <2>2. CASE /\ Alike(c, c', {"out", "state"}) /\ c'.state \in States
             /\ c'.out \in Seq(Part) /\ Len(c'.out) <= OutCap
    <3>1. /\ c'.stanza = c.stanza /\ c'.opts = c.opts /\ c'.features = c.features
          /\ c'.in = c.in /\ c'.i = c.i /\ DOMAIN c' = Fields
          /\ \A f \in Flags \cup Counters : c'[f] = c[f]
      BY <2>2 DEF Alike, Fields, Flags, Counters
    <3> QED BY <1>1, <2>2, <3>1 DEF ClientOK
  <2>3. CASE Alike(c, c', {"i"}) /\ c'.i = 0
    <3>1. /\ c'.stanza = c.stanza /\ c'.opts = c.opts /\ c'.features = c.features
          /\ c'.in = c.in /\ c'.state = c.state /\ c'.out = c.out /\ DOMAIN c' = Fields
          /\ \A f \in Flags \cup Counters : c'[f] = c[f]
      BY <2>3 DEF Alike, Fields, Flags, Counters
    <3> QED BY <1>1, <1>2, <2>3, <3>1 DEF ClientOK
  <2>4. CASE Alike(c, c', {"state"}) /\ c'.state \in States
    <3>1. /\ c'.stanza = c.stanza /\ c'.opts = c.opts /\ c'.features = c.features
          /\ c'.in = c.in /\ c'.i = c.i /\ c'.out = c.out /\ DOMAIN c' = Fields
          /\ \A f \in Flags \cup Counters : c'[f] = c[f]
      BY <2>4 DEF Alike, Fields, Flags, Counters
    <3> QED BY <1>1, <2>4, <3>1 DEF ClientOK
  <2> QED BY <2>1, <2>2, <2>3, <2>4
<1> QED BY <1>3, <1>4, <1>5, <1>6, <1>7

LEMMA OwnTyped ==
  ASSUME Typed
  PROVE  /\ \A n \in 1..Len(c.out) : Send(n) =>
              ClientOK(c') /\ toServer' \in Seq(Part)
         /\ \A n \in 1..Len(toClient) : Receive(n) =>
              ClientOK(c') /\ toClient' \in Seq(Part)
         /\ \A right \in BOOLEAN : xmppSupplyPassword(right) => ClientOK(c')
         /\ \A name \in {"presence", "iq"} : Format(name) => ClientOK(c')
         /\ xmppEndStream \/ xmppResume => ClientOK(c')
<1>1. ClientOK(c) /\ DOMAIN c = Fields /\ c.out \in Seq(Part) /\ Len(c.out) <= OutCap
  BY DEF Typed, ClientOK
<1>2. ASSUME NEW n \in 1..Len(c.out), Send(n) PROVE ClientOK(c') /\ toServer' \in Seq(Part)
  <2>1. Alike(c, c', {"out"}) /\ c'.out = Drop(c.out, n)
    BY <1>1, <1>2, OwnRows
  <2>2. /\ Drop(c.out, n) \in Seq(Part) /\ Len(Drop(c.out, n)) = Len(c.out) - n
        /\ n \in 0..Len(c.out) /\ Len(c.out) \in Nat
    <3>1. n \in 0..Len(c.out) /\ Len(c.out) \in Nat
      BY <1>1, <1>2
    <3> QED
      BY <1>1, <3>1, DropIs
  <2>3. /\ c'.stanza = c.stanza /\ c'.opts = c.opts /\ c'.features = c.features
        /\ c'.in = c.in /\ c'.i = c.i /\ c'.state = c.state /\ DOMAIN c' = Fields
        /\ \A f \in Flags \cup Counters : c'[f] = c[f]
    BY <2>1 DEF Alike, Fields, Flags, Counters
  <2>4. c'.out \in Seq(Part) /\ Len(c'.out) <= OutCap
    BY <1>1, <2>1, <2>2 DEF XmppAssumption
  <2>5. toServer \in Seq(Part) /\ SubSeq(c.out, 1, n) \in Seq(Part)
    BY <1>1, <2>2, FrontIs DEF Typed
  <2>6. toServer' = toServer \o SubSeq(c.out, 1, n)
    BY <1>2 DEF Send
  <2>7. toServer' \in Seq(Part)
    BY <2>5, <2>6, ConcatProperties
  <2> QED BY <1>1, <2>3, <2>4, <2>7 DEF ClientOK
<1>3. ASSUME NEW n \in 1..Len(toClient), Receive(n)
      PROVE  ClientOK(c') /\ toClient' \in Seq(Part)
  <2>1. Alike(c, c', {"in"}) /\ c'.in = c.in \o SubSeq(toClient, 1, n)
    BY <1>1, <1>3, OwnRows, Zenon
  <2>2. /\ toClient \in Seq(Part) /\ n \in 0..Len(toClient) /\ c.in \in Seq(Part)
        /\ c.i \in 0..Len(c.in) /\ Len(c.in) + n <= InCap /\ toClient' = Drop(toClient, n)
    BY <1>1, <1>3 DEF Typed, ClientOK, Receive
  <2>3. SubSeq(toClient, 1, n) \in Seq(Part) /\ Len(SubSeq(toClient, 1, n)) = n
    BY <2>2, FrontIs
  <2>4. c'.in \in Seq(Part) /\ Len(c'.in) = Len(c.in) + n
    BY <2>1, <2>2, <2>3, ConcatProperties
  <2>5. Len(c'.in) <= InCap /\ c.i \in 0..Len(c'.in)
    BY <2>2, <2>4
  <2>6. /\ c'.stanza = c.stanza /\ c'.opts = c.opts /\ c'.features = c.features
        /\ c'.out = c.out /\ c'.i = c.i /\ c'.state = c.state /\ DOMAIN c' = Fields
        /\ \A f \in Flags \cup Counters : c'[f] = c[f]
    BY <2>1 DEF Alike, Fields, Flags, Counters
  <2>7. toClient' \in Seq(Part)
    BY <2>2, DropIs
  <2> QED BY <1>1, <2>4, <2>5, <2>6, <2>7 DEF ClientOK
<1>4. ASSUME NEW right \in BOOLEAN, xmppSupplyPassword(right) PROVE ClientOK(c')
  <2>1. c.stanza.ok \in BOOLEAN
    BY <1>1 DEF ClientOK, Element
  <2>2. \/ Alike(c, c', {"solved"}) /\ c'.solved = (c.state = "SASLPWD" /\ c.stanza.ok)
        \/ /\ Alike(c, c', {"solved", "out", "state"})
           /\ c'.solved = (c.state = "SASLPWD" /\ c.stanza.ok)
           /\ c'.state \in {"SASLCHECKRESULT", "SASLRESULT"}
           /\ \E name \in {"response", "authplain"}, ok \in BOOLEAN :
                c'.out = Appended(c.out, [E(name) EXCEPT !.ok = ok])
    BY <1>1, <1>4, PasswordRows, Zenon
  <2>3. c'.solved \in BOOLEAN
    BY <2>1, <2>2, Zenon
  <2>4. CASE Alike(c, c', {"solved"})
    <3>1. /\ c'.stanza = c.stanza /\ c'.opts = c.opts /\ c'.features = c.features
          /\ c'.in = c.in /\ c'.i = c.i /\ c'.state = c.state /\ DOMAIN c' = Fields
          /\ c'.out = c.out /\ \A f \in (Flags \cup Counters) \ {"solved"} : c'[f] = c[f]
      BY <2>4 DEF Alike, Fields, Flags, Counters
    <3>2. \A f \in Flags : c'[f] \in BOOLEAN
      BY <1>1, <2>3, <3>1 DEF ClientOK
    <3>3. \A f \in Counters : c'[f] \in Nat
      BY <1>1, <3>1 DEF ClientOK, Counters
    <3> QED BY <1>1, <3>1, <3>2, <3>3 DEF ClientOK
  <2>5. CASE /\ Alike(c, c', {"solved", "out", "state"})
             /\ c'.state \in {"SASLCHECKRESULT", "SASLRESULT"}
             /\ \E name \in {"response", "authplain"}, ok \in BOOLEAN :
                  c'.out = Appended(c.out, [E(name) EXCEPT !.ok = ok])
    <3>1. /\ c'.stanza = c.stanza /\ c'.opts = c.opts /\ c'.features = c.features
          /\ c'.in = c.in /\ c'.i = c.i /\ DOMAIN c' = Fields
          /\ \A f \in (Flags \cup Counters) \ {"solved"} : c'[f] = c[f]
      BY <2>5 DEF Alike, Fields, Flags, Counters
    <3>2. \A f \in Flags : c'[f] \in BOOLEAN
      BY <1>1, <2>3, <3>1 DEF ClientOK
    <3>3. \A f \in Counters : c'[f] \in Nat
      BY <1>1, <3>1 DEF ClientOK, Counters
    <3>4. PICK name \in {"response", "authplain"}, ok \in BOOLEAN :
            c'.out = Appended(c.out, [E(name) EXCEPT !.ok = ok])
      BY <2>5
    <3>5. [E(name) EXCEPT !.ok = ok] \in Element
      <4>1. E(name) \in Element
        BY ElementIs DEF Names
      <4> QED BY <4>1, ElementWith, Zenon
    <3>6. c'.out \in Seq(Part) /\ Len(c'.out) <= OutCap
      BY <1>1, <3>4, <3>5, AppendedIs
    <3>7. c'.state \in States
      BY <2>5 DEF States
    <3> QED BY <1>1, <3>1, <3>2, <3>3, <3>6, <3>7 DEF ClientOK
  <2> QED BY <2>2, <2>4, <2>5
<1>5. ASSUME NEW name \in {"presence", "iq"}, Format(name) PROVE ClientOK(c')
  <2>1. E(name) \in Element /\ E("r") \in Element
    BY ElementIs DEF Names
  <2>2. /\ Appended(c.out, E(name)) \in Seq(Part) /\ Len(Appended(c.out, E(name))) <= OutCap
    BY <1>1, <2>1, AppendedIs, Zenon
  <2>3. /\ Appended(Appended(c.out, E(name)), E("r")) \in Seq(Part)
        /\ Len(Appended(Appended(c.out, E(name)), E("r"))) <= OutCap
    BY <2>1, <2>2, AppendedIs
  <2>4. CASE c' = c
    BY <1>1, <2>4
  <2>5. CASE /\ Alike(c, c', {"out", "actualsent"}) /\ c'.actualsent \in Nat
             /\ c'.out \in Seq(Part) /\ Len(c'.out) <= OutCap
    <3>1. /\ c'.stanza = c.stanza /\ c'.opts = c.opts /\ c'.features = c.features
          /\ c'.in = c.in /\ c'.i = c.i /\ c'.state = c.state /\ DOMAIN c' = Fields
          /\ \A f \in (Flags \cup Counters) \ {"actualsent"} : c'[f] = c[f]
      BY <2>5 DEF Alike, Fields, Flags, Counters
    <3>2. \A f \in Flags : c'[f] \in BOOLEAN
      BY <1>1, <3>1 DEF ClientOK, Flags
    <3>3. \A f \in Counters : c'[f] \in Nat
      BY <1>1, <2>5, <3>1 DEF ClientOK, Counters
    <3> QED BY <1>1, <2>5, <3>1, <3>2, <3>3 DEF ClientOK
  <2>6. \/ c' = c
        \/ /\ Alike(c, c', {"out", "actualsent"}) /\ c'.actualsent \in Nat
           /\ c'.out \in Seq(Part) /\ Len(c'.out) <= OutCap
    <3>1. c.actualsent \in Nat
      BY <1>1 DEF ClientOK, Counters
    <3>2. Alike(c, c', {"out"}) =>
            Alike(c, c', {"out", "actualsent"}) /\ c'.actualsent = c.actualsent
      BY DEF Alike, Fields
    <3> QED BY <1>1, <1>5, <2>2, <2>3, <3>1, <3>2, FormatRows
  <2> QED BY <2>4, <2>5, <2>6
<1>6. ASSUME xmppEndStream \/ xmppResume PROVE ClientOK(c')
  <2>1. /\ Alike(c, c', {"state", "features", "out"}) /\ c'.state \in States
        /\ c'.features \subseteq Features /\ c'.out \in Seq(Part) /\ Len(c'.out) <= OutCap
    <3>1. CASE xmppEndStream
      <4>1. Alike(c, c', {"state"}) /\ c'.state = "ENDSTREAM"
        BY <1>1, <3>1, OwnRows
      <4>2. /\ Alike(c, c', {"state", "features", "out"}) /\ c'.features = c.features
            /\ c'.out = c.out
        BY <4>1 DEF Alike, Fields
      <4> QED BY <1>1, <4>1, <4>2 DEF ClientOK, States
    <3>2. CASE xmppResume
      <4>1. /\ Alike(c, c', {"state", "features", "out"}) /\ c'.state = "INIT"
            /\ c'.features = c.features \ ({"STARTTLS"} \cup Sasl) /\ c'.out = <<>>
        BY <1>1, <3>2, OwnRows
      <4> QED BY <1>1, <4>1, AppendedTyped DEF ClientOK, States
    <3> QED BY <1>6, <3>1, <3>2
  <2>2. /\ c'.stanza = c.stanza /\ c'.opts = c.opts
        /\ c'.in = c.in /\ c'.i = c.i /\ DOMAIN c' = Fields
        /\ \A f \in Flags \cup Counters : c'[f] = c[f]
    BY <2>1 DEF Alike, Fields, Flags, Counters
  <2> QED BY <1>1, <2>1, <2>2 DEF ClientOK
<1> QED BY <1>2, <1>3, <1>4, <1>5, <1>6

(* The server's record, one field at a time.                               *)
LEMMA ServerWith ==
  ASSUME NEW s, ServerOK(s)
  PROVE  /\ \A f \in ServerFlags : ServerOK([s EXCEPT ![f] = TRUE])
         /\ \A f \in ServerFlags : ServerOK([s EXCEPT ![f] = FALSE])
         /\ \A f \in ServerCounters, n \in Nat : ServerOK([s EXCEPT ![f] = n])
         /\ \A F \in SUBSET {"SMACKS"} : ServerOK([s EXCEPT !.offered = F])
         /\ \A L \in SUBSET Nat : ServerOK([s EXCEPT !.large = L])
         /\ \A L \in SUBSET Nat : ServerOK([s EXCEPT !.lost = L])
<1>1. \A f \in ServerFlags : ServerOK([s EXCEPT ![f] = TRUE])
  BY Zenon DEF ServerOK, ServerFlags, ServerCounters
<1>2. \A f \in ServerFlags : ServerOK([s EXCEPT ![f] = FALSE])
  BY Zenon DEF ServerOK, ServerFlags, ServerCounters
<1>3. \A f \in ServerCounters, n \in Nat : ServerOK([s EXCEPT ![f] = n])
  BY DEF ServerOK, ServerFlags, ServerCounters
<1>4. \A F \in SUBSET {"SMACKS"} : ServerOK([s EXCEPT !.offered = F])
  BY DEF ServerOK, ServerFlags, ServerCounters
<1>5. \A L \in SUBSET Nat : ServerOK([s EXCEPT !.large = L])
  BY DEF ServerOK, ServerFlags, ServerCounters
<1>6. \A L \in SUBSET Nat : ServerOK([s EXCEPT !.lost = L])
  BY DEF ServerOK, ServerFlags, ServerCounters
<1> QED BY <1>1, <1>2, <1>3, <1>4, <1>5, <1>6

LEMMA HandlingTyped ==
  ASSUME NEW s, ServerOK(s)
  PROVE  ServerOK(Handling(s)) /\ ServerOK(Counting(s))
<1>1. s.n + 1 \in Nat /\ s.handled + 1 \in Nat /\ s.counted + 1 \in Nat /\ s.counted \in Nat
  BY DEF ServerOK, ServerCounters
<1>2. ServerOK([s EXCEPT !.handled = @ + 1])
  BY <1>1, ServerWith DEF ServerCounters
<1>3. ServerOK([s EXCEPT !.n = @ + 1, !.counted = IF s.sm THEN @ + 1 ELSE @])
  <2> DEFINE x == [s EXCEPT !.n = s.n + 1]
             m == IF s.sm THEN x.counted + 1 ELSE x.counted
  <2>1. ServerOK(x)
    BY <1>1, ServerWith DEF ServerCounters
  <2> HIDE DEF x
  <2>2. m \in Nat
    BY <2>1 DEF ServerOK, ServerCounters
  <2> HIDE DEF m
  <2>3. ServerOK([x EXCEPT !.counted = m])
    BY <2>1, <2>2, ServerWith DEF ServerCounters
  <2> QED BY <2>3 DEF x, m
<1> QED BY <1>2, <1>3 DEF Handling, Counting

LEMMA AnswerTyped ==
  ASSUME Typed
  PROVE  /\ \A s, e : Answer(s, e) /\ HasEnd(toServer) /\ e \in Element /\ ServerOK(s) => Typed'
         /\ \A s : Ignore(s) /\ HasEnd(toServer) /\ ServerOK(s) => Typed'
         /\ \A s, e, n : Push(s, e, n) /\ n \in Nat /\ e \in Element /\ ServerOK(s) => Typed'
<1>1. /\ ClientOK(c) /\ ret \in Results /\ tls \in BOOLEAN /\ formatted \in Nat
      /\ got \in Seq(Nat) /\ toServer \in Seq(Part) /\ toClient \in Seq(Part)
  BY DEF Typed
<1>2. HasEnd(toServer) => Drop(toServer, FirstEnd(toServer)) \in Seq(Part)
  BY <1>1, FirstEndIs, DropIs
<1>3. \A e \in Element, n \in Nat : toClient \o Parts(e, n) \in Seq(Part)
  BY <1>1, PartsIs, ConcatProperties
<1>4. Sizes \subseteq Nat
  BY DEF XmppAssumption
<1>5. ASSUME NEW s, NEW e, Answer(s, e), HasEnd(toServer), e \in Element, ServerOK(s)
      PROVE  Typed'
  <2>1. /\ UNCHANGED <<c, ret, tls, formatted, got>> /\ server' = s
        /\ toServer' = Drop(toServer, FirstEnd(toServer))
    BY <1>5 DEF Answer
  <2>2. PICK n \in Sizes : toClient' = toClient \o Parts(e, n)
    BY <1>5, Zenon DEF Answer
  <2>3. toClient' \in Seq(Part)
    BY <1>3, <1>4, <1>5, <2>2
  <2> QED BY <1>1, <1>2, <1>5, <2>1, <2>3 DEF Typed
<1>6. ASSUME NEW s, Ignore(s), HasEnd(toServer), ServerOK(s) PROVE Typed'
  <2>1. /\ UNCHANGED <<c, ret, tls, formatted, got, toClient>> /\ server' = s
        /\ toServer' = Drop(toServer, FirstEnd(toServer))
    BY <1>6 DEF Ignore
  <2> QED BY <1>1, <1>2, <1>6, <2>1 DEF Typed
<1>7. ASSUME NEW s, NEW e, NEW n, Push(s, e, n), n \in Nat, e \in Element, ServerOK(s)
      PROVE  Typed'
  <2>1. /\ UNCHANGED <<c, ret, tls, formatted, got, toServer>> /\ server' = s
        /\ toClient' = toClient \o Parts(e, n)
    BY <1>7 DEF Push
  <2> QED BY <1>1, <1>3, <1>7, <2>1 DEF Typed
<1> QED BY <1>5, <1>6, <1>7

LEMMA ServerTyped ==
  ASSUME Typed, Answers \/ PushesMessage \/ AsksAck \/ ClosesStream
  PROVE  Typed'
<1>1. ServerOK(server) /\ server.n \in Nat /\ server.n + 1 \in Nat /\ server.handled \in Nat
  BY DEF Typed, ServerOK, ServerCounters
<1>2. \A names : Got(names) => HasEnd(toServer)
  BY DEF Got
<1>3. CASE OffersStream
  <2>1. ASSUME NEW F \in Offers,
               Answer(server, [E("stream") EXCEPT
                                 !.features = IF server.tls THEN F \ {"STARTTLS"} ELSE F])
        PROVE  Typed'
    <3> DEFINE G == IF server.tls THEN F \ {"STARTTLS"} ELSE F
    <3>1. G \in SUBSET (Sasl \cup {"STARTTLS", "BIND", "SMACKS"})
      BY DEF XmppAssumption
    <3> HIDE DEF G
    <3>2. E("stream") \in Element
      BY ElementIs DEF Names
    <3>3. [E("stream") EXCEPT !.features = G] \in Element
      BY <3>1, <3>2, ElementWith, Zenon
    <3>4. Answer(server, [E("stream") EXCEPT !.features = G])
      BY <2>1 DEF G
    <3> HIDE DEF G
    <3> QED BY <1>1, <1>2, <1>3, <3>3, <3>4, AnswerTyped DEF OffersStream
  <2>2. ASSUME NEW sm \in SUBSET {"SMACKS"},
               Answer([server EXCEPT !.offered = sm],
                      [E("stream") EXCEPT !.features = {"BIND"} \cup sm])
        PROVE  Typed'
    <3>1. {"BIND"} \cup sm \in SUBSET (Sasl \cup {"STARTTLS", "BIND", "SMACKS"})
      OBVIOUS
    <3>2. E("stream") \in Element
      BY ElementIs DEF Names
    <3>3. [E("stream") EXCEPT !.features = {"BIND"} \cup sm] \in Element
      BY <3>1, <3>2, ElementWith, Zenon
    <3>4. ServerOK([server EXCEPT !.offered = sm])
      BY <1>1, ServerWith
    <3> QED BY <1>2, <1>3, <2>2, <3>3, <3>4, AnswerTyped DEF OffersStream
  <2>3. ASSUME Answer(server, E("streamerror")) PROVE Typed'
    BY <1>1, <1>2, <1>3, <2>3, AnswerTyped, ElementIs DEF OffersStream, Names
  <2>4. \/ \E F \in Offers :
             Answer(server, [E("stream") EXCEPT
                               !.features = IF server.tls THEN F \ {"STARTTLS"} ELSE F])
        \/ \E sm \in SUBSET {"SMACKS"} :
             Answer([server EXCEPT !.offered = sm],
                    [E("stream") EXCEPT !.features = {"BIND"} \cup sm])
        \/ Answer(server, E("streamerror"))
    <3>1. {{"SMACKS"}} \cup (IF May("nosm") THEN {{}} ELSE {}) \subseteq SUBSET {"SMACKS"}
      OBVIOUS
    <3> QED BY <1>3, <3>1, Zenon DEF OffersStream
  <2> QED BY <2>1, <2>2, <2>3, <2>4, Zenon
<1>4. CASE AnswersStartTls
  <2>1. ServerOK([server EXCEPT !.tls = TRUE])
    BY <1>1, ServerWith, Zenon DEF ServerFlags
  <2>2. E("proceed") \in Element /\ E("failure") \in Element
    BY ElementIs DEF Names
  <2> QED BY <1>1, <1>2, <1>4, <2>1, <2>2, AnswerTyped DEF AnswersStartTls
<1>5. CASE AnswersAuth
  <2>1. \A ok \in BOOLEAN : [E("challenge") EXCEPT !.ok = ok] \in Element
    <3>1. E("challenge") \in Element
      BY ElementIs DEF Names
    <3> QED BY <3>1, ElementWith, Zenon
  <2>2. E("failure") \in Element
    BY ElementIs DEF Names
  <2>3. \/ \E ok \in BOOLEAN : Answer(server, [E("challenge") EXCEPT !.ok = ok])
        \/ Answer(server, E("failure"))
    BY <1>5, Zenon DEF AnswersAuth
  <2>4. HasEnd(toServer)
    BY <1>2, <1>5 DEF AnswersAuth
  <2> QED BY <1>1, <2>1, <2>2, <2>3, <2>4, AnswerTyped, Zenon
<1>6. CASE ChecksPassword
  <2>1. ServerOK([server EXCEPT !.auth = TRUE])
    BY <1>1, ServerWith, Zenon DEF ServerFlags
  <2>2. E("success") \in Element /\ E("failure") \in Element
    BY ElementIs DEF Names
  <2> QED BY <1>1, <1>2, <1>6, <2>1, <2>2, AnswerTyped DEF ChecksPassword
<1>7. CASE AnswersBind
  <2>1. ServerOK([server EXCEPT !.bound = TRUE])
    BY <1>1, ServerWith, Zenon DEF ServerFlags
  <2>2. /\ [E("iq") EXCEPT !.child = "bind"] \in Element
        /\ [E("iq") EXCEPT !.child = "error"] \in Element
    <3>1. E("iq") \in Element
      BY ElementIs DEF Names
    <3> QED BY <3>1, ElementWith, Zenon
  <2> QED BY <1>1, <1>2, <1>7, <2>1, <2>2, AnswerTyped DEF AnswersBind
<1>8. CASE EnablesAcks
  <2>1. ServerOK([server EXCEPT !.sm = TRUE])
    BY <1>1, ServerWith, Zenon DEF ServerFlags
  <2>2. [E("enabled") EXCEPT !.ok = TRUE] \in Element
    <3>1. E("enabled") \in Element
      BY ElementIs DEF Names
    <3> QED BY <3>1, ElementWith, Zenon
  <2> QED BY <1>2, <1>8, <2>1, <2>2, AnswerTyped DEF EnablesAcks
<1>9. CASE HandlesStanza
  <2>1. ServerOK(Handling(server)) /\ ServerOK(Counting(Handling(server)))
    BY <1>1, HandlingTyped
  <2>2. HasEnd(toServer)
    BY <1>2, <1>9, Zenon DEF HandlesStanza
  <2>3. ASSUME NEW child \in {"none", "error"}
        PROVE  [E("iq") EXCEPT !.child = child, !.k = server.n + 1] \in Element
    <3>1. E("iq") \in Element
      BY ElementIs DEF Names
    <3> QED BY <1>1, <3>1, ElementWith, Zenon
  <2>4. \/ Ignore(Handling(server)) \/ Ignore(server)
        \/ \E child \in {"none", "error"} :
             Answer(Counting(Handling(server)),
                    [E("iq") EXCEPT !.child = child, !.k = server.n + 1])
    BY <1>9, Zenon DEF HandlesStanza
  <2> QED BY <1>1, <2>1, <2>2, <2>3, <2>4, AnswerTyped
<1>10. CASE Acknowledges
  <2>1. [E("a") EXCEPT !.k = server.handled] \in Element
    <3>1. E("a") \in Element
      BY ElementIs DEF Names
    <3> QED BY <1>1, <3>1, ElementWith, Zenon
  <2> QED BY <1>1, <1>2, <1>10, <2>1, AnswerTyped DEF Acknowledges
<1>11. CASE TakesNote
  BY <1>1, <1>2, <1>11, AnswerTyped DEF TakesNote
<1>12. CASE PushesMessage
  <2>1. PICK n \in Sizes :
          Push([Counting(server) EXCEPT !.large = IF n > InCap THEN @ \cup {server.n + 1} ELSE @],
               [E("message") EXCEPT !.k = server.n + 1], n)
    BY <1>12, Zenon DEF PushesMessage
  <2> DEFINE L == IF n > InCap THEN Counting(server).large \cup {server.n + 1}
                  ELSE Counting(server).large
  <2>2. ServerOK(Counting(server))
    BY <1>1, HandlingTyped
  <2>3. L \in SUBSET Nat
    BY <1>1, <2>2 DEF ServerOK
  <2>4. Push([Counting(server) EXCEPT !.large = L], [E("message") EXCEPT !.k = server.n + 1], n)
    BY <2>1
  <2> HIDE DEF L
  <2>5. ServerOK([Counting(server) EXCEPT !.large = L])
    BY <2>2, <2>3, ServerWith, Zenon
  <2>6. [E("message") EXCEPT !.k = server.n + 1] \in Element
    <3>1. E("message") \in Element
      BY ElementIs DEF Names
    <3> QED BY <1>1, <3>1, ElementWith, Zenon
  <2>7. n \in Nat
    BY DEF XmppAssumption
  <2> QED BY <2>4, <2>5, <2>6, <2>7, AnswerTyped
<1>13. CASE AsksAck
  <2>1. ServerOK([server EXCEPT !.asked = server.n])
    BY <1>1, ServerWith DEF ServerCounters
  <2>2. E("r") \in Element /\ 1 \in Nat
    BY ElementIs DEF Names
  <2> QED BY <1>13, <2>1, <2>2, AnswerTyped DEF AsksAck
<1>14. CASE ClosesStream
  <2>1. ServerOK([server EXCEPT !.closed = TRUE])
    BY <1>1, ServerWith, Zenon DEF ServerFlags
  <2>2. E("/stream") \in Element /\ 1 \in Nat
    BY ElementIs DEF Names
  <2> QED BY <1>14, <2>1, <2>2, AnswerTyped DEF ClosesStream
<1> QED BY <1>3, <1>4, <1>5, <1>6, <1>7, <1>8, <1>9, <1>10, <1>11, <1>12, <1>13, <1>14
        DEF Answers

LEMMA IterateTyped == Typed /\ xmppIterate => Typed'
<1> SUFFICES ASSUME Typed, xmppIterate PROVE Typed'
  OBVIOUS
<1>1. /\ ClientOK(c) /\ ServerOK(server) /\ ret \in Results /\ tls \in BOOLEAN
      /\ formatted \in Nat /\ got \in Seq(Nat) /\ toServer \in Seq(Part)
      /\ toClient \in Seq(Part) /\ DOMAIN c = Fields
  BY DEF Typed, ClientOK
<1>2. CASE Finished \/ SendFirst
  BY <1>1, <1>2 DEF Finished, SendFirst, net, Typed, Results
<1>3. CASE SkipFails \/ SkipEnds \/ SkipGoesOn \/ Partial \/ OpenStream \/ EndStream
  <2>1. ClientOK(c')
    BY <1>3, OtherTyped
  <2>2. ret' \in Results
    BY <1>1, <1>3, OtherRows, EndRows, Zenon DEF Results, Errors
  <2>3. UNCHANGED net
    BY <1>3 DEF SkipFails, SkipEnds, SkipGoesOn, Partial, OpenStream, EndStream
  <2> QED BY <1>1, <2>1, <2>2, <2>3 DEF net, Typed
<1>4. CASE BadStream \/ StartTls \/ NoTls \/ StartScram \/ AskPlain \/ NoMechanism
             \/ BindResource
  <2>1. ClientOK(c')
    BY <1>4, ReadTyped
  <2>2. ret' \in Results
    BY <1>1, <1>4, StreamRows, Zenon DEF Said, Turned, Aborted, Results, Errors
  <2>3. UNCHANGED net
    BY <1>4 DEF BadStream, StartTls, NoTls, StartScram, AskPlain, NoMechanism, BindResource,
       Abort, Say, Return
  <2> QED BY <1>1, <2>1, <2>2, <2>3 DEF net, Typed
<1>5. CASE TlsProceeds \/ Challenged \/ PasswordRefused \/ ScramEnds \/ PlainEnds
  <2>1. ClientOK(c')
    BY <1>5, ReadTyped
  <2>2. ret' \in Results
    BY <1>1, <1>5, SaslRows DEF Restarted, Turned, Aborted, Results, Errors
  <2>3. UNCHANGED net
    BY <1>5 DEF TlsProceeds, Challenged, PasswordRefused, ScramEnds, PlainEnds, Abort, Return
  <2> QED BY <1>1, <2>1, <2>2, <2>3 DEF net, Typed
<1>6. CASE Bound \/ Unexpected \/ SmacksEnabled \/ AckAnswer \/ AckRequest
  <2>1. ClientOK(c')
    BY <1>6, ReadTyped
  <2>2. ret' \in Results
    BY <1>1, <1>6, StanzaRows, BoundIs, Zenon DEF Accepted, Results, Errors
  <2>3. UNCHANGED net
    BY <1>6 DEF Bound, Unexpected, SmacksEnabled, AckAnswer, AckRequest, Return
  <2> QED BY <1>1, <2>1, <2>2, <2>3 DEF net, Typed
<1>7. CASE HandOver
  <2>1. ClientOK(c')
    BY <1>7, ReadTyped
  <2>2. ret' \in Results
    BY <1>1, <1>7, StanzaRows DEF Results
  <2>3. ReadsStanza
    BY <1>7 DEF HandOver, Established
  <2>4. Stanza.k \in Nat
    BY <2>3, StanzaIs DEF Element
  <2>5. got' \in Seq(Nat)
    BY <1>1, <1>7, <2>4 DEF HandOver
  <2>6. UNCHANGED <<tls, formatted, server, toServer, toClient>>
    BY <1>7 DEF HandOver
  <2> QED BY <1>1, <2>1, <2>2, <2>5, <2>6 DEF Typed
<1> QED BY <1>2, <1>3, <1>4, <1>5, <1>6, <1>7 DEF xmppIterate

LEMMA ApplicationTyped == Typed /\ Application => Typed'
<1> SUFFICES ASSUME Typed, Application PROVE Typed'
  OBVIOUS
<1>1. /\ ClientOK(c) /\ ServerOK(server) /\ ret \in Results /\ tls \in BOOLEAN
      /\ formatted \in Nat /\ got \in Seq(Nat) /\ toServer \in Seq(Part)
      /\ toClient \in Seq(Part) /\ DOMAIN c = Fields
  BY DEF Typed, ClientOK
<1>2. CASE \E n \in 1..Len(c.out) : Send(n)
  <2>1. ClientOK(c') /\ toServer' \in Seq(Part)
    BY <1>2, OwnTyped
  <2> QED BY <1>1, <1>2, <2>1 DEF Send, Typed, Results
<1>3. CASE \E n \in 1..Len(toClient) : Receive(n)
  <2>1. ClientOK(c') /\ toClient' \in Seq(Part)
    BY <1>3, OwnTyped
  <2> QED BY <1>1, <1>3, <2>1 DEF Receive, Typed, Results
<1>4. CASE Handshake
  BY <1>1, <1>4 DEF Handshake, Typed, Results
<1>5. CASE \E right \in BOOLEAN : xmppSupplyPassword(right)
  <2>1. ClientOK(c')
    BY <1>5, OwnTyped
  <2>2. ret' = "OK" /\ UNCHANGED net
    BY <1>5 DEF xmppSupplyPassword
  <2> QED BY <1>1, <2>1, <2>2 DEF net, Typed, Results
<1>6. CASE \E name \in {"presence", "iq"} : Format(name)
  <2>1. ClientOK(c')
    BY <1>6, OwnTyped
  <2>2. /\ ret' = "OK" /\ formatted' = formatted + 1
        /\ UNCHANGED <<tls, got, server, toServer, toClient>>
    BY <1>6 DEF Format
  <2> QED BY <1>1, <2>1, <2>2 DEF Typed, Results
<1>7. CASE GoOn \/ Exit
  BY <1>1, <1>7 DEF GoOn, Exit, net, Typed, Results
<1>8. CASE xmppEndStream
  <2>1. ClientOK(c')
    BY <1>8, OwnTyped
  <2> QED BY <1>1, <1>8, <2>1 DEF xmppEndStream, net, Typed, Results
<1>9. CASE xmppResume
  <2>1. ClientOK(c')
    BY <1>9, OwnTyped
  <2> DEFINE L == server.lost \cup {e.k : e \in {f \in Elements(toClient) : Numbered(f)}}
             s1 == [server EXCEPT !.tls = FALSE]
             s2 == [s1 EXCEPT !.auth = FALSE]
             s3 == [s2 EXCEPT !.offered = {}]
             s4 == [s3 EXCEPT !.bound = FALSE]
             s5 == [s4 EXCEPT !.sm = FALSE]
             s6 == [s5 EXCEPT !.lost = L]
  <2>2. L \in SUBSET Nat
    <3>1. Elements(toClient) \subseteq Element
      BY <1>1, ElementsAre
    <3> QED BY <1>1, <3>1 DEF ServerOK, Element
  <2>3. ServerOK(s5)
    <3>1. ServerOK(s1)
      BY <1>1, ServerWith, Zenon DEF ServerFlags
    <3> HIDE DEF s1
    <3>2. ServerOK(s2)
      BY <3>1, ServerWith, Zenon DEF ServerFlags
    <3> HIDE DEF s2
    <3>3. ServerOK(s3)
      BY <3>2, ServerWith
    <3> HIDE DEF s3
    <3>4. ServerOK(s4)
      BY <3>3, ServerWith, Zenon DEF ServerFlags
    <3> HIDE DEF s4
    <3> QED BY <3>4, ServerWith, Zenon DEF ServerFlags
  <2>4. ServerOK(s6)
    <3> HIDE DEF s5, L
    <3> QED BY <2>2, <2>3, ServerWith
  <2>5. server' = s6
    BY <1>9 DEF xmppResume
  <2>6. toServer' \in Seq(Part) /\ toClient' \in Seq(Part)
    BY <1>9, AppendedTyped DEF xmppResume
  <2>7. ret' \in Results /\ tls' \in BOOLEAN /\ UNCHANGED <<formatted, got>>
    BY <1>9, Zenon DEF xmppResume, Results
  <2> HIDE DEF s6
  <2> QED BY <1>1, <2>1, <2>4, <2>5, <2>6, <2>7 DEF Typed
<1> QED BY <1>2, <1>3, <1>4, <1>5, <1>6, <1>7, <1>8, <1>9 DEF Application

LEMMA TypesStep == Typed /\ [Next]_vars => Typed'
<1>1. Typed /\ UNCHANGED vars => Typed'
  BY DEF vars, Typed
<1> QED BY <1>1, IterateTyped, ApplicationTyped, ServerTyped DEF Next

LEMMA TypesAre == Typed => TypeOK
<1> SUFFICES ASSUME Typed PROVE TypeOK
  OBVIOUS
<1>1. ClientOK(c)
  BY DEF Typed
<1>2. \A s \in Seq(Part) : IsParts(s)
  <2> SUFFICES ASSUME NEW s \in Seq(Part), NEW j \in DOMAIN s
               PROVE  s[j].el \in Element /\ {s[j].first, s[j].last} \subseteq BOOLEAN
    BY DEF IsParts
  <2>1. s[j] \in Part
    OBVIOUS
  <2> QED BY <2>1 DEF Part
<1>3. \A parts \in {c.in, c.out, toServer, toClient} : IsParts(parts)
  BY <1>1, <1>2 DEF Typed, ClientOK
<1>4. c.state \in States /\ c.stanza \in Element /\ c.features \subseteq Sasl \cup {"STARTTLS", "SMACKS"}
  BY <1>1 DEF ClientOK, Features
<1>5. {c.isnegotiationdone, c.rootclosed, c.cansmackresume, c.solved, tls} \subseteq BOOLEAN
  BY <1>1 DEF Typed, ClientOK, Flags
<1>6. {c.actualsent, c.actualrecv, c.skippingdepth, formatted} \subseteq Nat
  BY <1>1 DEF Typed, ClientOK, Counters
<1>7. Len(c.in) <= InCap /\ c.i \in 0..Len(c.in) /\ Len(c.out) <= OutCap
  BY <1>1 DEF ClientOK
<1> QED BY <1>3, <1>4, <1>5, <1>6, <1>7 DEF Typed, TypeOK, Results

(* The client's fields keep their types and the buffers their capacity,    *)
(* whatever arrives, in pieces of any size, whatever the application does  *)
(* after an error, and however small the buffers are.                      *)
THEOREM XmppTypeCorrect == Spec => []TypeOK
<1>1. Typed /\ [Next]_vars => Typed'
  BY TypesStep
<1> QED BY TypesInitially, <1>1, TypesAre, PTL DEF Spec

-----------------------------------------------------------------------------
(* The negotiation.                                                        *)

(* What may be sent before anything is negotiated.                         *)
Opening == {"stream", "starttls", "/stream"}

ServerNames == {"stream", "streamerror", "proceed", "challenge", "success", "failure",
                "enabled", "r", "a", "/stream", "message", "iq"}

Secured == tls \/ c.opts \cap {"ALLOWUNENCRYPTED", "FORCEUNENCRYPTED"} # {}

MayEncrypt == "FORCEUNENCRYPTED" \notin c.opts

PlainAllowed == (tls \/ "ALLOWUNENCRYPTEDPLAIN" \in c.opts) /\ "FORCESCRAM" \notin c.opts

Going == Elements(toServer) \cup Elements(c.out)

Coming == Elements(c.in) \cup Elements(toClient)

MayGo(e) ==
  /\ e.name \notin Opening => Secured
  /\ e.name = "starttls" => MayEncrypt
  /\ e.name = "authplain" => PlainAllowed
  /\ e.name \in {"auth", "response"} => "FORCEPLAIN" \notin c.opts
  /\ e.name = "bind" => server.auth

MayCome(e) ==
  /\ e.name \in ServerNames
  /\ e.name = "iq" /\ e.child = "bind" => server.auth /\ server.bound
  /\ "BIND" \in e.features => server.auth

(* The states of the client behind TLS.                                    *)
Late == {"SASLINIT", "SASLPWD", "SASLCHECKRESULT", "SASLPLAIN", "SASLRESULT", "BIND",
         "ACCEPTSTANZA"}

InOrder ==
  /\ "STARTTLS" \in c.features => tls \/ ret = "STARTTLS"
  /\ tls \/ ret = "STARTTLS" \/ c.state = "STARTTLS" => MayEncrypt
  /\ c.state \in Late \/ c.isnegotiationdone => Secured
  /\ c.state \in {"SASLINIT", "SASLPWD"} => "FORCEPLAIN" \notin c.opts
  /\ c.state = "SASLPLAIN" => PlainAllowed
  /\ ret = "GIVEPWD" => c.state \in {"SASLPWD", "SASLPLAIN"}
  /\ ret \in {"READY", "STANZA"} => c.isnegotiationdone
  /\ c.isnegotiationdone => server.auth /\ server.bound

Negotiation ==
  /\ \A e \in Going : MayGo(e)
  /\ \A e \in Coming : MayCome(e)
  /\ InOrder

(* Nothing that was allowed is forbidden later.                            *)
Milder ==
  /\ tls => tls'
  /\ server.auth => server'.auth
  /\ server.bound => server'.bound
  /\ c'.opts \in {c.opts, c.opts \cup {"DISABLESMACKS"}}

LEMMA Mild ==
  ASSUME Milder
  PROVE  /\ Secured => Secured'
         /\ PlainAllowed => PlainAllowed'
         /\ MayEncrypt => MayEncrypt'
         /\ \A e : MayGo(e) => MayGo(e)'
         /\ \A e : MayCome(e) => MayCome(e)'
<1>1. /\ Secured => Secured'
      /\ PlainAllowed => PlainAllowed'
      /\ MayEncrypt => MayEncrypt'
      /\ "FORCEPLAIN" \notin c.opts => "FORCEPLAIN" \notin c'.opts
  BY DEF Milder, Secured, PlainAllowed, MayEncrypt
<1>2. ASSUME NEW e, MayGo(e) PROVE MayGo(e)'
  BY <1>1, <1>2 DEF Milder, MayGo
<1>3. ASSUME NEW e, MayCome(e) PROVE MayCome(e)'
  BY <1>3 DEF Milder, MayCome
<1> QED BY <1>1, <1>2, <1>3

LEMMA NegotiationKept ==
  ASSUME Negotiation, Milder,
         \A e \in Going' : e \in Going \/ MayGo(e)',
         \A e \in Coming' : e \in Coming \/ MayCome(e)',
         InOrder'
  PROVE  Negotiation'
<1>1. \A e \in Going' : MayGo(e)'
  BY Mild DEF Negotiation
<1>2. \A e \in Coming' : MayCome(e)'
  BY Mild DEF Negotiation
<1> QED BY <1>1, <1>2 DEF Negotiation

(* The types of the stanzas a server may send.                             *)
LEMMA TypeIs ==
  ASSUME NEW e \in Element, e.name \in ServerNames
  PROVE  /\ StanzaType(e) = "BINDJID" <=> e.name = "iq" /\ e.child = "bind"
         /\ StanzaType(e) \in {"IQ", "MESSAGE", "PRESENCE"} <=>
              e.name = "message" \/ (e.name = "iq" /\ e.child = "none")
         /\ StanzaType(e) = "STREAM" <=> e.name = "stream"
         /\ StanzaType(e) = "STARTTLSPROCEED" <=> e.name = "proceed"
         /\ StanzaType(e) = "SASLCHALLENGE" <=> e.name = "challenge"
         /\ StanzaType(e) = "SASLSUCCESS" <=> e.name = "success"
         /\ StanzaType(e) = "FAILURE" <=> e.name = "failure"
         /\ StanzaType(e) = "SMACKSENABLED" <=> e.name = "enabled"
         /\ StanzaType(e) = "ACKREQUEST" <=> e.name = "r"
         /\ StanzaType(e) = "ACKANSWER" <=> e.name = "a"
<1>1. CASE e.name = "stream"
  BY <1>1 DEF StanzaType
<1>2. CASE e.name = "streamerror"
  BY <1>2 DEF StanzaType
<1>3. CASE e.name = "proceed"
  BY <1>3 DEF StanzaType
<1>4. CASE e.name = "challenge"
  BY <1>4 DEF StanzaType
<1>5. CASE e.name = "success"
  BY <1>5 DEF StanzaType
<1>6. CASE e.name = "failure"
  BY <1>6 DEF StanzaType
<1>7. CASE e.name = "enabled"
  BY <1>7 DEF StanzaType
<1>8. CASE e.name = "r"
  BY <1>8 DEF StanzaType
<1>9. CASE e.name = "a"
  BY <1>9 DEF StanzaType
<1>10. CASE e.name = "/stream"
  BY <1>10 DEF StanzaType
<1>11. CASE e.name = "message"
  BY <1>11 DEF StanzaType
<1>12. CASE e.name = "iq" /\ e.child = "bind"
  BY <1>12 DEF StanzaType
<1>13. CASE e.name = "iq" /\ e.child = "error"
  BY <1>13 DEF StanzaType
<1>14. CASE e.name = "iq" /\ e.child = "none"
  BY <1>14 DEF StanzaType
<1>15. e.child \in {"bind", "error", "none"}
  BY DEF Element
<1> QED BY <1>1, <1>2, <1>3, <1>4, <1>5, <1>6, <1>7, <1>8, <1>9,
          <1>10, <1>11, <1>12, <1>13, <1>14, <1>15 DEF ServerNames

(* A call of xmppIterate leaves the rest of the world alone, and what is   *)
(* in its input afterwards was there before.                               *)
LEMMA IterateIn ==
  ASSUME Typed, xmppIterate
  PROVE  /\ UNCHANGED <<tls, formatted, server, toServer, toClient>>
         /\ c'.in \in {c.in, Rest, <<>>} /\ Coming' \subseteq Coming
         /\ ret = "OK"
<1>1. DOMAIN c = Fields
  BY DEF Typed, ClientOK
<1>2. c'.in \in {c.in, Rest, <<>>}
  <2>1. CASE Finished \/ SendFirst
    BY <2>1 DEF Finished, SendFirst
  <2>2. CASE SkipFails \/ SkipEnds \/ SkipGoesOn \/ Partial \/ OpenStream \/ EndStream
    BY <1>1, <2>2, OtherRows, EndRows, Zenon DEF Alike, Moved, Fields
  <2>3. CASE BadStream \/ StartTls \/ NoTls \/ StartScram \/ AskPlain \/ NoMechanism
               \/ BindResource
    BY <1>1, <2>3, StreamRows, Zenon DEF Said, Turned, Aborted, Looked, Took, Moved
  <2>4. CASE TlsProceeds \/ Challenged \/ PasswordRefused \/ ScramEnds \/ PlainEnds
    BY <1>1, <2>4, SaslRows DEF Restarted, Turned, Aborted, Looked, Took
  <2>5. CASE Bound \/ Unexpected \/ SmacksEnabled \/ AckAnswer \/ AckRequest \/ HandOver
    BY <1>1, <2>5, StanzaRows, BoundIs, Zenon DEF Accepted, Looked, Took
  <2> QED BY <2>1, <2>2, <2>3, <2>4, <2>5 DEF xmppIterate
<1>3. UNCHANGED <<tls, formatted, server, toServer, toClient>> /\ ret = "OK"
  <2>1. CASE Finished \/ SendFirst
    BY <2>1 DEF Finished, SendFirst, net
  <2>2. CASE SkipFails \/ SkipEnds \/ SkipGoesOn \/ Partial \/ OpenStream \/ EndStream
    BY <2>2 DEF SkipFails, SkipEnds, SkipGoesOn, Partial, OpenStream, EndStream, net,
       Skips, Reads, Iterates
  <2>3. CASE BadStream \/ StartTls \/ NoTls \/ StartScram \/ AskPlain \/ NoMechanism
               \/ BindResource
    BY <2>3 DEF BadStream, StartTls, NoTls, StartScram, AskPlain, NoMechanism, BindResource,
       Authenticates, Encrypted, ReadsFeatures, ReadsStanza, Reads, Iterates, Abort, Say,
       Return, net
  <2>4. CASE TlsProceeds \/ Challenged \/ PasswordRefused \/ ScramEnds \/ PlainEnds
    BY <2>4 DEF TlsProceeds, Challenged, PasswordRefused, ScramEnds, PlainEnds, Negotiates,
       ReadsStanza, Reads, Iterates, Abort, Return, net
  <2>5. CASE Bound \/ Unexpected \/ SmacksEnabled \/ AckAnswer \/ AckRequest \/ HandOver
    BY <2>5 DEF Bound, Unexpected, SmacksEnabled, AckAnswer, AckRequest, HandOver, Negotiates,
       Established, ReadsStanza, Reads, Iterates, Abort, Return, net
  <2> QED BY <2>1, <2>2, <2>3, <2>4, <2>5 DEF xmppIterate
<1>4. Elements(c'.in) \subseteq Elements(c.in)
  <2>1. Elements(Rest) \subseteq Elements(c.in)
    BY RestIs
  <2>2. Elements(<<>>) = {}
    BY DEF Elements
  <2> QED BY <1>2, <2>1, <2>2
<1> QED BY <1>2, <1>3, <1>4 DEF Coming

(* What is on its way to the server after such a call.                     *)
LEMMA IterateOut ==
  ASSUME Typed, xmppIterate
  PROVE  /\ c'.out = c.out => Going' \subseteq Going
         /\ \A e \in Element : c'.out = Appended(<<>>, e) => Going' \subseteq Going \cup {e}
<1>1. toServer' = toServer
  BY IterateIn
<1>2. \A e \in Element : Elements(Appended(<<>>, e)) \subseteq {e}
  <2>1. <<>> \in Seq(Part) /\ Elements(<<>>) = {}
    BY DEF Elements
  <2> QED BY <2>1, ElementsAre, Zenon
<1> QED BY <1>1, <1>2 DEF Going

LEMMA IterateKept ==
  ASSUME Typed, Negotiation, xmppIterate, InOrder',
         c'.opts \in {c.opts, c.opts \cup {"DISABLESMACKS"}},
         c'.out = c.out \/ \E e \in Element : c'.out = Appended(<<>>, e) /\ MayGo(e)'
  PROVE  Negotiation'
<1>1. Milder /\ Coming' \subseteq Coming
  BY IterateIn DEF Milder
<1>2. \A e \in Going' : e \in Going \/ MayGo(e)'
  BY IterateOut
<1> QED BY <1>1, <1>2, NegotiationKept

(* A call that does not negotiate.                                         *)
Idle ==
  /\ c'.state = c.state \/ c'.state \notin Late \cup {"STARTTLS"}
  /\ c'.opts = c.opts /\ c'.features = c.features
  /\ c'.isnegotiationdone = c.isnegotiationdone
  /\ ret' \notin {"GIVEPWD", "STARTTLS"}
  /\ ret' \in {"READY", "STANZA"} => c.isnegotiationdone

LEMMA IdleKept ==
  ASSUME Typed, Negotiation, xmppIterate, Idle,
         c'.out = c.out \/ \E e \in Element : c'.out = Appended(<<>>, e) /\ e.name \in {"stream", "/stream"}
  PROVE  Negotiation'
<1>1. UNCHANGED <<tls, server>> /\ ret = "OK"
  BY IterateIn
<1>2. InOrder'
  BY <1>1 DEF Idle, InOrder, Negotiation, Secured, MayEncrypt, PlainAllowed, Late
<1>3. \A e \in Element : e.name \in {"stream", "/stream"} => MayGo(e)'
  BY DEF MayGo, Opening
<1>4. c'.opts \in {c.opts, c.opts \cup {"DISABLESMACKS"}}
  BY DEF Idle
<1> QED BY <1>2, <1>3, <1>4, IterateKept

LEMMA OtherNegotiates ==
  ASSUME Typed, Negotiation, xmppIterate,
         Finished \/ SendFirst \/ SkipFails \/ SkipEnds \/ SkipGoesOn \/ Partial
           \/ OpenStream \/ EndStream
  PROVE  Negotiation'
<1>1. DOMAIN c = Fields /\ c.state \in States /\ c.isnegotiationdone \in BOOLEAN
  BY DEF Typed, ClientOK, Flags
<1>2. E("stream") \in Element /\ E("/stream") \in Element
  BY ElementIs DEF Names
<1>3. E("stream").name = "stream" /\ E("/stream").name = "/stream"
  BY DEF E
<1>4. CASE Finished \/ SendFirst
  <2>1. c' = c /\ ret' \in {"STREAMEND", "SEND"}
    BY <1>4 DEF Finished, SendFirst
  <2>2. Idle /\ c'.out = c.out
    BY <2>1 DEF Idle
  <2> QED BY <2>2, IdleKept
<1>5. CASE SkipFails \/ SkipEnds \/ SkipGoesOn
  <2>1. Alike(c, c', {"in", "i", "skippingdepth", "rootclosed"}) /\ ret' \in {"EXML", "ESKIP", "RECV"}
    BY <1>1, <1>5, OtherRows, Zenon DEF Alike
  <2>2. Idle /\ c'.out = c.out
    BY <2>1 DEF Alike, Fields, Idle
  <2> QED BY <2>2, IdleKept
<1>6. CASE Partial
  <2>1. /\ Alike(c, c', {"in", "i", "skippingdepth", "rootclosed"})
        /\ ret' \in {"OK", "RECV"} \/ (ret' = "READY" /\ c.isnegotiationdone)
    BY <1>1, <1>6, OtherRows, Zenon DEF Alike, Moved
  <2>2. Idle /\ c'.out = c.out
    BY <2>1 DEF Alike, Fields, Idle
  <2> QED BY <2>2, IdleKept
<1>7. CASE OpenStream
  <2>1. \/ /\ Alike(c, c', {"out", "state"}) /\ c'.state = "STREAMSENT"
           /\ c'.out = Appended(<<>>, E("stream")) /\ ret' = "SEND"
        \/ Alike(c, c', {"i"}) /\ ret' = "EMEM"
    BY <1>1, <1>7, EndRows
  <2>2. Idle /\ (c'.out = c.out \/ c'.out = Appended(<<>>, E("stream")))
    BY <2>1 DEF Alike, Fields, Idle, Late, States
  <2> QED BY <1>2, <1>3, <2>2, IdleKept
<1>8. CASE EndStream
  <2>1. \/ /\ Alike(c, c', {"out", "state"}) /\ c'.state = "UNINIT"
           /\ c'.out = Appended(<<>>, E("/stream")) /\ ret' = "SEND"
        \/ Alike(c, c', {"state"}) /\ c'.state = "UNINIT" /\ ret' = "OK"
    BY <1>1, <1>8, EndRows
  <2>2. Idle /\ (c'.out = c.out \/ c'.out = Appended(<<>>, E("/stream")))
    BY <2>1 DEF Alike, Fields, Idle, Late, States
  <2> QED BY <1>2, <1>3, <2>2, IdleKept
<1> QED BY <1>4, <1>5, <1>6, <1>7, <1>8

(* A stanza that changes nothing but the parser.                           *)
LEMMA LookedNegotiates ==
  ASSUME Typed, Negotiation, xmppIterate, Took({}) \/ Moved,
         ret' \notin {"GIVEPWD", "STARTTLS", "READY", "STANZA"}
  PROVE  Negotiation'
<1>1. /\ c'.state = c.state /\ c'.opts = c.opts /\ c'.features = c.features
      /\ c'.isnegotiationdone = c.isnegotiationdone /\ c'.out = c.out
  BY DEF Took, Moved, Alike, Fields
<1>2. Idle
  BY <1>1 DEF Idle
<1> QED BY <1>1, <1>2, IdleKept

LEMMA StreamNegotiates ==
  ASSUME Typed, Negotiation, xmppIterate,
         BadStream \/ StartTls \/ NoTls \/ StartScram \/ AskPlain \/ NoMechanism \/ BindResource
  PROVE  Negotiation'
<1>1. /\ DOMAIN c = Fields /\ c.state \in States /\ c.isnegotiationdone \in BOOLEAN
      /\ UNCHANGED <<tls, server>> /\ ret = "OK" /\ InOrder
  BY IterateIn DEF Typed, ClientOK, Flags, Negotiation
<1>2. /\ E("starttls") \in Element /\ E("auth") \in Element /\ E("bind") \in Element
      /\ E("starttls").name = "starttls" /\ E("auth").name = "auth" /\ E("bind").name = "bind"
  <2>1. /\ E("starttls") \in Element /\ E("auth") \in Element /\ E("bind") \in Element
    BY ElementIs DEF Names
  <2> QED BY <2>1 DEF E
<1>3. Encrypted => Secured
  BY <1>1 DEF Encrypted, WantsTls, InOrder, Secured
<1>4. CASE BadStream \/ NoTls \/ NoMechanism
  <2>1. (Looked \/ Moved) /\ ret' \in {"ESPEC", "ENEGOTIATE"}
    BY <1>1, <1>4, StreamRows
  <2> QED BY <2>1, LookedNegotiates DEF Looked
<1>5. CASE StartTls
  <2>1. Said(E("starttls"), "STARTTLS", {}) /\ MayEncrypt
    BY <1>1, <1>5, StreamRows DEF StartTls, WantsTls, MayEncrypt
  <2>2. CASE Took({}) /\ ret' = "EMEM"
    BY <2>2, LookedNegotiates
  <2>3. CASE /\ Took({} \cup {"out", "state"}) /\ c'.out = Appended(<<>>, E("starttls"))
             /\ c'.state = "STARTTLS" /\ ret' = "SEND"
    <3>1. /\ c'.opts = c.opts /\ c'.features = c.features
          /\ c'.isnegotiationdone = c.isnegotiationdone
      BY <2>3 DEF Took, Alike, Fields
    <3>2. InOrder'
      BY <1>1, <2>1, <2>3, <3>1 DEF InOrder, Secured, MayEncrypt, PlainAllowed, Late
    <3>3. MayGo(E("starttls"))'
      BY <1>2, <2>1, <3>1 DEF MayGo, Opening, MayEncrypt
    <3> QED BY <1>2, <2>3, <3>1, <3>2, <3>3, IterateKept
  <2> QED BY <2>1, <2>2, <2>3 DEF Said
<1>6. CASE StartScram
  <2>1. Said(E("auth"), "SASLINIT", {"solved"}) /\ Secured /\ "FORCEPLAIN" \notin c.opts
    BY <1>1, <1>3, <1>6, StreamRows, Zenon DEF StartScram, Authenticates, TakesScram
  <2>2. CASE Took({"solved"}) /\ ret' = "EMEM"
    <3>1. /\ c'.state = c.state /\ c'.opts = c.opts /\ c'.features = c.features
          /\ c'.isnegotiationdone = c.isnegotiationdone /\ c'.out = c.out
      BY <2>2 DEF Took, Alike, Fields
    <3>2. Idle
      BY <2>2, <3>1 DEF Idle
    <3> QED BY <3>1, <3>2, IdleKept
  <2>3. CASE /\ Took({"solved"} \cup {"out", "state"}) /\ c'.out = Appended(<<>>, E("auth"))
             /\ c'.state = "SASLINIT" /\ ret' = "SEND"
    <3>1. /\ c'.opts = c.opts /\ c'.features = c.features
          /\ c'.isnegotiationdone = c.isnegotiationdone
      BY <2>3 DEF Took, Alike, Fields
    <3>2. InOrder' /\ Secured'
      BY <1>1, <2>1, <2>3, <3>1 DEF InOrder, Secured, MayEncrypt, PlainAllowed
    <3>3. MayGo(E("auth"))'
      BY <1>2, <2>1, <3>1, <3>2 DEF MayGo
    <3> QED BY <1>2, <2>3, <3>1, <3>2, <3>3, IterateKept
  <2> QED BY <2>1, <2>2, <2>3 DEF Said
<1>7. CASE AskPlain
  <2>1. Turned("SASLPLAIN", "GIVEPWD") /\ Secured /\ PlainAllowed
    BY <1>1, <1>3, <1>7, StreamRows DEF AskPlain, Authenticates, TakesPlain, PlainAllowed, InOrder
  <2>2. /\ c'.opts = c.opts /\ c'.features = c.features /\ c'.out = c.out
        /\ c'.isnegotiationdone = c.isnegotiationdone
        /\ c'.state = "SASLPLAIN" /\ ret' = "GIVEPWD"
    BY <2>1 DEF Turned, Took, Alike, Fields
  <2>3. InOrder'
    BY <1>1, <2>1, <2>2 DEF InOrder, Secured, MayEncrypt, PlainAllowed
  <2> QED BY <2>2, <2>3, IterateKept
<1>8. CASE BindResource
  <2>1. \/ Aborted
        \/ /\ Said(E("bind"), "BIND", {"opts"}) /\ "BIND" \in Stanza.features
           /\ c'.opts \in {c.opts, c.opts \cup {"DISABLESMACKS"}}
    BY <1>1, <1>8, StreamRows, Zenon
  <2>2. Secured /\ ReadsStanza
    BY <1>3, <1>8 DEF BindResource, Encrypted, ReadsFeatures
  <2>3. CASE Aborted
    BY <2>3, LookedNegotiates DEF Aborted, Looked
  <2>4. ASSUME c'.opts \in {c.opts, c.opts \cup {"DISABLESMACKS"}} PROVE Secured'
    BY <1>1, <2>2, <2>4 DEF Secured
  <2>5. CASE /\ Took({"opts"}) /\ ret' = "EMEM"
             /\ c'.opts \in {c.opts, c.opts \cup {"DISABLESMACKS"}}
    <3>1. /\ c'.state = c.state /\ c'.features = c.features /\ c'.out = c.out
          /\ c'.isnegotiationdone = c.isnegotiationdone
      BY <2>5 DEF Took, Alike, Fields
    <3>2. InOrder'
      BY <1>1, <2>4, <2>5, <3>1 DEF InOrder, MayEncrypt, PlainAllowed
    <3> QED BY <2>5, <3>1, <3>2, IterateKept
  <2>6. CASE /\ Took({"opts"} \cup {"out", "state"}) /\ c'.out = Appended(<<>>, E("bind"))
             /\ c'.state = "BIND" /\ ret' = "SEND" /\ "BIND" \in Stanza.features
             /\ c'.opts \in {c.opts, c.opts \cup {"DISABLESMACKS"}}
    <3>1. c'.features = c.features /\ c'.isnegotiationdone = c.isnegotiationdone
      BY <2>6 DEF Took, Alike, Fields
    <3>2. InOrder'
      BY <1>1, <2>4, <2>6, <3>1 DEF InOrder, MayEncrypt, PlainAllowed
    <3>3. Stanza \in Coming
      BY <2>2, StanzaIs DEF Coming
    <3>4. MayCome(Stanza)
      <4> DEFINE s == Stanza
      <4>1. s \in Coming
        BY <3>3
      <4> HIDE DEF s
      <4>2. MayCome(s)
        BY <4>1 DEF Negotiation
      <4> QED BY <4>2 DEF s
    <3>5. server.auth
      BY <2>6, <3>4 DEF MayCome
    <3>6. MayGo(E("bind"))'
      BY <1>1, <1>2, <2>4, <2>6, <3>5 DEF MayGo
    <3> QED BY <1>2, <2>6, <3>2, <3>6, IterateKept
  <2> QED BY <2>1, <2>3, <2>5, <2>6 DEF Said
<1> QED BY <1>4, <1>5, <1>6, <1>7, <1>8

LEMMA SaslNegotiates ==
  ASSUME Typed, Negotiation, xmppIterate,
         TlsProceeds \/ Challenged \/ PasswordRefused \/ ScramEnds \/ PlainEnds
  PROVE  Negotiation'
<1>1. /\ DOMAIN c = Fields /\ c.state \in States /\ c.isnegotiationdone \in BOOLEAN
      /\ UNCHANGED <<tls, server>> /\ ret = "OK" /\ InOrder
  BY IterateIn DEF Typed, ClientOK, Flags, Negotiation
<1>2. ASSUME NEW f, NEW r, Restarted(f, r), f = "STARTTLS" => r = "STARTTLS",
             r = "OK" \/ (r = "STARTTLS" /\ c.state = "STARTTLS")
      PROVE  Negotiation'
  <2>1. /\ c'.opts = c.opts /\ c'.out = c.out /\ c'.isnegotiationdone = c.isnegotiationdone
        /\ c'.features = c.features \cup {f} /\ c'.state = "INIT" /\ ret' = r
    BY <1>2 DEF Restarted, Took, Alike, Fields
  <2>2. InOrder'
    BY <1>1, <1>2, <2>1 DEF InOrder, Secured, MayEncrypt, PlainAllowed, Late
  <2> QED BY <2>1, <2>2, IterateKept
<1>3. ASSUME NEW r, Turned("ENDSTREAM", r), r \in {"EPASS", "ESPEC"} PROVE Negotiation'
  <2>1. /\ c'.opts = c.opts /\ c'.out = c.out /\ c'.isnegotiationdone = c.isnegotiationdone
        /\ c'.features = c.features /\ c'.state = "ENDSTREAM" /\ ret' = r
    BY <1>3 DEF Turned, Took, Alike, Fields
  <2>2. Idle
    BY <1>3, <2>1 DEF Idle, Late
  <2> QED BY <2>1, <2>2, IdleKept
<1>4. ASSUME Aborted PROVE Negotiation'
  BY <1>4, LookedNegotiates DEF Aborted, Looked
<1>5. CASE TlsProceeds
  <2>1. Restarted("STARTTLS", "STARTTLS") /\ c.state = "STARTTLS"
    BY <1>1, <1>5, SaslRows DEF TlsProceeds
  <2> QED BY <1>2, <2>1
<1>6. CASE Challenged
  <2>1. CASE Turned("SASLPWD", "GIVEPWD")
    <3>1. /\ c'.opts = c.opts /\ c'.out = c.out /\ c'.isnegotiationdone = c.isnegotiationdone
          /\ c'.features = c.features /\ c'.state = "SASLPWD" /\ ret' = "GIVEPWD"
      BY <2>1 DEF Turned, Took, Alike, Fields
    <3>2. c.state = "SASLINIT"
      BY <1>6 DEF Challenged
    <3>3. InOrder'
      BY <1>1, <3>1, <3>2 DEF InOrder, Secured, MayEncrypt, PlainAllowed, Late
    <3> QED BY <3>1, <3>3, IterateKept
  <2> QED BY <1>1, <1>4, <1>6, <2>1, SaslRows
<1>7. CASE PasswordRefused
  <2>1. Turned("ENDSTREAM", "EPASS")
    BY <1>1, <1>7, SaslRows
  <2> QED BY <1>3, <2>1
<1>8. CASE ScramEnds
  <2>1. Turned("ENDSTREAM", "ESPEC") \/ Aborted \/ Restarted("SCRAMSHA1", "OK")
    BY <1>1, <1>8, SaslRows
  <2>2. CASE Turned("ENDSTREAM", "ESPEC")
    BY <1>3, <2>2
  <2>3. CASE Restarted("SCRAMSHA1", "OK")
    BY <1>2, <2>3
  <2> QED BY <1>4, <2>1, <2>2, <2>3
<1>9. CASE PlainEnds
  <2>1. Aborted \/ Restarted("PLAIN", "OK")
    BY <1>1, <1>9, SaslRows
  <2>2. CASE Restarted("PLAIN", "OK")
    BY <1>2, <2>2
  <2> QED BY <1>4, <2>1, <2>2
<1> QED BY <1>5, <1>6, <1>7, <1>8, <1>9

LEMMA StanzaNegotiates ==
  ASSUME Typed, Negotiation, xmppIterate,
         Bound \/ Unexpected \/ SmacksEnabled \/ AckAnswer \/ AckRequest \/ HandOver
  PROVE  Negotiation'
<1>1. /\ DOMAIN c = Fields /\ c.state \in States /\ c.isnegotiationdone \in BOOLEAN
      /\ UNCHANGED <<tls, server>> /\ ret = "OK" /\ InOrder
  BY IterateIn DEF Typed, ClientOK, Flags, Negotiation
<1>2. CASE Bound
  <2>1. \/ Looked /\ ret' = "ESPEC"
        \/ Took({}) /\ ret' = "EMEM"
        \/ StanzaType(Stanza) = "BINDJID" /\ Accepted
    BY <1>1, <1>2, BoundIs
  <2>2. CASE StanzaType(Stanza) = "BINDJID" /\ Accepted
    <3>1. c.state = "BIND" /\ ReadsStanza
      BY <1>2 DEF Bound, Negotiates
    <3>2. Secured
      BY <1>1, <3>1 DEF InOrder, Late
    <3>3. server.auth /\ server.bound
      <4> DEFINE s == Stanza
      <4>1. s \in Coming /\ s \in Element /\ StanzaType(s) = "BINDJID"
        BY <2>2, <3>1, StanzaIs DEF Coming
      <4> HIDE DEF s
      <4>2. MayCome(s)
        BY <4>1 DEF Negotiation
      <4>3. s.name \in ServerNames
        BY <4>2 DEF MayCome
      <4>4. s.name = "iq" /\ s.child = "bind"
        BY <4>1, <4>3, TypeIs
      <4> QED BY <4>2, <4>4 DEF MayCome
    <3>4. E("enable") \in Element /\ E("enable").name = "enable"
      <4>1. E("enable") \in Element
        BY ElementIs DEF Names
      <4> QED BY <4>1 DEF E
    <3>5. /\ c'.opts = c.opts /\ c'.isnegotiationdone = TRUE /\ c'.state = "ACCEPTSTANZA"
          /\ c'.features \in {c.features, c.features \cup {"SMACKS"}}
          /\ c'.out = c.out \/ c'.out = Appended(<<>>, E("enable"))
          /\ ret' \in {"OK", "SEND"}
      BY <2>2 DEF Accepted, Took, Alike, Fields
    <3>6. InOrder' /\ Secured'
      BY <1>1, <3>2, <3>3, <3>5 DEF InOrder, Secured, MayEncrypt, PlainAllowed, Late
    <3>7. MayGo(E("enable"))'
      BY <3>4, <3>6 DEF MayGo
    <3> QED BY <3>4, <3>5, <3>6, <3>7, IterateKept
  <2> QED BY <2>1, <2>2, LookedNegotiates DEF Looked
<1>3. CASE Unexpected \/ AckAnswer
  <2>1. Looked /\ ret' \in {"ESTATE", "ACK"}
    BY <1>1, <1>3, StanzaRows
  <2> QED BY <2>1, LookedNegotiates DEF Looked
<1>4. CASE SmacksEnabled
  <2>1. /\ Took({"features", "cansmackresume"}) /\ ret' = "OK"
        /\ c'.features = c.features \cup {"SMACKS"}
    BY <1>1, <1>4, StanzaRows
  <2>2. /\ c'.opts = c.opts /\ c'.out = c.out /\ c'.isnegotiationdone = c.isnegotiationdone
        /\ c'.state = c.state
    BY <2>1 DEF Took, Alike, Fields
  <2>3. InOrder'
    BY <1>1, <2>1, <2>2 DEF InOrder, Secured, MayEncrypt, PlainAllowed, Late
  <2> QED BY <2>2, <2>3, IterateKept
<1>5. CASE AckRequest
  <2> DEFINE a == [E("a") EXCEPT !.k = c.actualrecv]
  <2>1. \/ Looked /\ ret' = "EMEM"
        \/ Took({"out"}) /\ ret' = "SEND" /\ c'.out = Appended(<<>>, a)
    BY <1>1, <1>5, StanzaRows
  <2>2. a \in Element /\ a.name = "a"
    <3>1. c.actualrecv \in Nat
      BY DEF Typed, ClientOK, Counters
    <3>2. E("a") \in Element
      BY ElementIs DEF Names
    <3>3. a \in Element
      BY <3>1, <3>2, ElementWith, Zenon
    <3>4. a.name = "a"
      BY DEF E
    <3> QED BY <3>3, <3>4
  <2> HIDE DEF a
  <2>3. c.isnegotiationdone
    BY <1>5 DEF AckRequest, Established
  <2>4. CASE Took({"out"}) /\ ret' = "SEND" /\ c'.out = Appended(<<>>, a)
    <3>1. /\ c'.opts = c.opts /\ c'.isnegotiationdone = c.isnegotiationdone
          /\ c'.state = c.state /\ c'.features = c.features
      BY <2>4 DEF Took, Alike, Fields
    <3>2. InOrder' /\ Secured'
      BY <1>1, <2>3, <2>4, <3>1 DEF InOrder, Secured, MayEncrypt, PlainAllowed, Late
    <3>3. PICK b : b = a
      OBVIOUS
    <3>4. b \in Element /\ b.name = "a" /\ c'.out = Appended(<<>>, b)
      BY <2>2, <2>4, <3>3
    <3>5. MayGo(b)'
      BY <3>2, <3>4 DEF MayGo
    <3> QED BY <3>1, <3>2, <3>4, <3>5, IterateKept
  <2> QED BY <2>1, <2>4, LookedNegotiates DEF Looked
<1>6. CASE HandOver
  <2>1. Took({"actualrecv"}) /\ ret' = "STANZA" /\ c.isnegotiationdone
    BY <1>1, <1>6, StanzaRows DEF HandOver, Established
  <2>2. /\ c'.opts = c.opts /\ c'.out = c.out /\ c'.isnegotiationdone = c.isnegotiationdone
        /\ c'.state = c.state /\ c'.features = c.features
    BY <2>1, Zenon DEF Took, Alike, Fields
  <2>3. Idle
    BY <2>1, <2>2 DEF Idle
  <2> QED BY <2>2, <2>3, IdleKept
<1> QED BY <1>2, <1>3, <1>4, <1>5, <1>6

(* The application, while it does not resume a session.                    *)
LEMMA ApplicationNegotiates ==
  ASSUME Typed, Negotiation, Application, "resume" \notin AppMay
  PROVE  Negotiation'
<1>1. /\ ClientOK(c) /\ DOMAIN c = Fields /\ c.isnegotiationdone \in BOOLEAN /\ InOrder
      /\ toServer \in Seq(Part) /\ toClient \in Seq(Part) /\ c.out \in Seq(Part)
      /\ c.in \in Seq(Part)
  BY DEF Typed, ClientOK, Flags, Negotiation
<1>2. CASE \E n \in 1..Len(c.out) : Send(n)
  <2>1. PICK n \in 1..Len(c.out) : Send(n)
    BY <1>2
  <2>2. Alike(c, c', {"out"}) /\ c'.out = Drop(c.out, n)
    BY <1>1, <2>1, OwnRows
  <2>3. /\ c'.opts = c.opts /\ c'.isnegotiationdone = c.isnegotiationdone /\ c'.in = c.in
        /\ c'.state = c.state /\ c'.features = c.features
    BY <2>2 DEF Alike, Fields
  <2>4. /\ ret = "SEND" /\ ret' = "OK" /\ UNCHANGED <<tls, server, toClient>>
        /\ toServer' = toServer \o SubSeq(c.out, 1, n)
    BY <2>1 DEF Send
  <2>5. InOrder' /\ Milder
    BY <1>1, <2>3, <2>4 DEF InOrder, Secured, MayEncrypt, PlainAllowed, Milder
  <2>6. n \in 0..Len(c.out)
    BY <1>1
  <2>7. SubSeq(c.out, 1, n) \in Seq(Part)
    BY <1>1, <2>6, FrontIs
  <2>8. Elements(SubSeq(c.out, 1, n)) \subseteq Elements(c.out)
        /\ Elements(Drop(c.out, n)) \subseteq Elements(c.out)
    BY <1>1, <2>6, ElementsAre
  <2>9. Elements(toServer') = Elements(toServer) \cup Elements(SubSeq(c.out, 1, n))
    BY <1>1, <2>4, <2>7, ConcatElements, Zenon
  <2>10. Going' \subseteq Going /\ Coming' \subseteq Coming
    BY <2>2, <2>3, <2>4, <2>8, <2>9 DEF Going, Coming
  <2> QED BY <2>5, <2>10, NegotiationKept
<1>3. CASE \E n \in 1..Len(toClient) : Receive(n)
  <2>1. PICK n \in 1..Len(toClient) : Receive(n)
    BY <1>3
  <2>2. Alike(c, c', {"in"}) /\ c'.in = c.in \o SubSeq(toClient, 1, n)
    BY <1>1, <2>1, OwnRows, Zenon
  <2>3. /\ c'.opts = c.opts /\ c'.isnegotiationdone = c.isnegotiationdone /\ c'.out = c.out
        /\ c'.state = c.state /\ c'.features = c.features
    BY <2>2 DEF Alike, Fields
  <2>4. /\ ret \in {"RECV", "READY"} /\ ret' = "OK" /\ UNCHANGED <<tls, server, toServer>>
        /\ toClient' = Drop(toClient, n)
    BY <2>1 DEF Receive
  <2>5. InOrder' /\ Milder
    BY <1>1, <2>3, <2>4 DEF InOrder, Secured, MayEncrypt, PlainAllowed, Milder
  <2>6. n \in 0..Len(toClient)
    BY <1>1
  <2>7. SubSeq(toClient, 1, n) \in Seq(Part)
    BY <1>1, <2>6, FrontIs
  <2>8. Elements(SubSeq(toClient, 1, n)) \subseteq Elements(toClient)
        /\ Elements(Drop(toClient, n)) \subseteq Elements(toClient)
    BY <1>1, <2>6, ElementsAre
  <2>9. Elements(c'.in) = Elements(c.in) \cup Elements(SubSeq(toClient, 1, n))
    BY <1>1, <2>2, <2>7, ConcatElements, Zenon
  <2>10. Going' \subseteq Going /\ Coming' \subseteq Coming
    BY <2>3, <2>4, <2>8, <2>9 DEF Going, Coming
  <2> QED BY <2>5, <2>10, NegotiationKept
<1>4. CASE Handshake
  <2>1. /\ c' = c /\ UNCHANGED <<server, toServer, toClient>> /\ tls' = TRUE
        /\ ret = "STARTTLS" /\ ret' = "OK"
    BY <1>4 DEF Handshake
  <2>2. InOrder' /\ Milder
    BY <1>1, <2>1 DEF InOrder, Secured, MayEncrypt, PlainAllowed, Milder
  <2>3. Going' = Going /\ Coming' = Coming
    BY <2>1 DEF Going, Coming
  <2> QED BY <2>2, <2>3, NegotiationKept
<1>5. CASE \E right \in BOOLEAN : xmppSupplyPassword(right)
  <2>1. PICK right \in BOOLEAN : xmppSupplyPassword(right)
    BY <1>5
  <2>2. ret = "GIVEPWD" /\ ret' = "OK" /\ UNCHANGED <<tls, server, toServer, toClient>>
    BY <2>1 DEF xmppSupplyPassword, net
  <2>3. c.state \in {"SASLPWD", "SASLPLAIN"}
    BY <1>1, <2>2 DEF InOrder
  <2>4. Secured
    BY <1>1, <2>3 DEF InOrder, Late
  <2>5. \/ Alike(c, c', {"solved"})
        \/ /\ Alike(c, c', {"solved", "out", "state"})
           /\ c'.state \in {"SASLCHECKRESULT", "SASLRESULT"}
           /\ \E ok \in BOOLEAN, name \in {"response", "authplain"} :
                /\ name = "response" <=> c.state = "SASLPWD"
                /\ c'.out = Appended(c.out, [E(name) EXCEPT !.ok = ok])
    BY <1>1, <2>1, PasswordRows, Zenon
  <2>6. CASE Alike(c, c', {"solved"})
    <3>1. /\ c'.opts = c.opts /\ c'.isnegotiationdone = c.isnegotiationdone /\ c'.in = c.in
          /\ c'.state = c.state /\ c'.features = c.features /\ c'.out = c.out
      BY <2>6 DEF Alike, Fields
    <3>2. InOrder' /\ Milder
      BY <1>1, <2>2, <3>1 DEF InOrder, Secured, MayEncrypt, PlainAllowed, Milder
    <3>3. Going' = Going /\ Coming' = Coming
      BY <2>2, <3>1 DEF Going, Coming
    <3> QED BY <3>2, <3>3, NegotiationKept
  <2>7. ASSUME Alike(c, c', {"solved", "out", "state"}),
               c'.state \in {"SASLCHECKRESULT", "SASLRESULT"},
               NEW ok \in BOOLEAN, NEW name \in {"response", "authplain"},
               name = "response" <=> c.state = "SASLPWD",
               c'.out = Appended(c.out, [E(name) EXCEPT !.ok = ok])
        PROVE  Negotiation'
    <3> DEFINE e == [E(name) EXCEPT !.ok = ok]
    <3>1. /\ c'.opts = c.opts /\ c'.isnegotiationdone = c.isnegotiationdone /\ c'.in = c.in
          /\ c'.features = c.features
      BY <2>7 DEF Alike, Fields
    <3>2. InOrder' /\ Milder /\ Secured'
      BY <1>1, <2>2, <2>4, <2>7, <3>1 DEF InOrder, Secured, MayEncrypt, PlainAllowed, Milder, Late
    <3>3. e \in Element /\ e.name = name
      <4>1. E(name) \in Element
        BY ElementIs DEF Names
      <4>2. e \in Element
        BY <4>1, ElementWith, Zenon
      <4>3. e.name = name
        BY DEF E
      <4> QED BY <4>2, <4>3
    <3>4. c'.out = Appended(c.out, e)
      BY <2>7
    <3> HIDE DEF e
    <3>5. Elements(c'.out) \subseteq Elements(c.out) \cup {e}
      BY <1>1, <3>3, <3>4, ElementsAre
    <3>6. Going' \subseteq Going \cup {e} /\ Coming' \subseteq Coming
      BY <2>2, <3>1, <3>5 DEF Going, Coming
    <3>7. name = "authplain" => PlainAllowed'
      <4>1. PlainAllowed => PlainAllowed'
        BY <3>2, Mild
      <4>2. name = "authplain" => c.state = "SASLPLAIN"
        BY <2>3, <2>7
      <4> QED BY <1>1, <4>1, <4>2 DEF InOrder
    <3>8. name = "response" => "FORCEPLAIN" \notin c'.opts
      BY <1>1, <2>7, <3>1 DEF InOrder
    <3>9. MayGo(e)'
      <4>1. e' = e
        BY DEF e
      <4> QED BY <3>2, <3>3, <3>7, <3>8, <4>1 DEF MayGo
    <3> QED BY <3>2, <3>6, <3>9, NegotiationKept
  <2> QED BY <2>5, <2>6, <2>7, Zenon
<1>6. CASE \E name \in {"presence", "iq"} : Format(name)
  <2>1. PICK name \in {"presence", "iq"} : Format(name)
    BY <1>6
  <2>2. /\ ret \in {"READY", "STANZA"} /\ ret' = "OK"
        /\ UNCHANGED <<tls, server, toServer, toClient>>
    BY <2>1 DEF Format
  <2>3. Secured
    BY <1>1, <2>2 DEF InOrder
  <2>4. \/ c' = c
        \/ /\ Alike(c, c', {"out", "actualsent"})
           /\ c'.out = Appended(Appended(c.out, E(name)), E("r"))
        \/ /\ Alike(c, c', {"out"}) /\ c'.out = Appended(c.out, E(name))
    BY <1>1, <2>1, FormatRows
  <2>5. /\ c'.opts = c.opts /\ c'.isnegotiationdone = c.isnegotiationdone /\ c'.in = c.in
        /\ c'.state = c.state /\ c'.features = c.features
    BY <2>4 DEF Alike, Fields
  <2>6. InOrder' /\ Milder /\ Secured'
    BY <1>1, <2>2, <2>3, <2>5 DEF InOrder, Secured, MayEncrypt, PlainAllowed, Milder
  <2>7. /\ E(name) \in Element /\ E("r") \in Element
        /\ E(name).name = name /\ E("r").name = "r"
    <3>1. E(name) \in Element /\ E("r") \in Element
      BY ElementIs DEF Names
    <3> QED BY <3>1 DEF E
  <2>8. Elements(c'.out) \subseteq Elements(c.out) \cup {E(name), E("r")}
    <3>1. /\ Elements(Appended(c.out, E(name))) \subseteq Elements(c.out) \cup {E(name)}
          /\ Appended(c.out, E(name)) \in Seq(Part)
      BY <1>1, <2>7, ElementsAre, AppendedIs, Zenon
    <3>2. Elements(Appended(Appended(c.out, E(name)), E("r"))) \subseteq
            Elements(Appended(c.out, E(name))) \cup {E("r")}
      BY <2>7, <3>1, ElementsAre
    <3> QED BY <2>4, <3>1, <3>2
  <2>9. Going' \subseteq Going \cup {E(name), E("r")} /\ Coming' \subseteq Coming
    BY <2>2, <2>5, <2>8 DEF Going, Coming
  <2>10. MayGo(E(name))' /\ MayGo(E("r"))'
    BY <2>6, <2>7 DEF MayGo
  <2> QED BY <2>6, <2>9, <2>10, NegotiationKept
<1>7. CASE GoOn \/ Exit
  <2>1. /\ c' = c /\ UNCHANGED <<tls, server, toServer, toClient>> /\ ret' \in {"OK", "EXIT"}
        /\ ret # "STARTTLS"
    BY <1>7 DEF GoOn, Exit, net, Errors
  <2>2. InOrder' /\ Milder
    BY <1>1, <2>1 DEF InOrder, Secured, MayEncrypt, PlainAllowed, Milder
  <2>3. Going' = Going /\ Coming' = Coming
    BY <2>1 DEF Going, Coming
  <2> QED BY <2>2, <2>3, NegotiationKept
<1>8. CASE xmppEndStream
  <2>1. Alike(c, c', {"state"}) /\ c'.state = "ENDSTREAM"
    BY <1>1, <1>8, OwnRows
  <2>2. /\ c'.opts = c.opts /\ c'.isnegotiationdone = c.isnegotiationdone /\ c'.in = c.in
        /\ c'.features = c.features /\ c'.out = c.out
    BY <2>1 DEF Alike, Fields
  <2>3. ret = "READY" /\ ret' = "OK" /\ UNCHANGED <<tls, server, toServer, toClient>>
    BY <1>8 DEF xmppEndStream, net
  <2>4. InOrder' /\ Milder
    BY <1>1, <2>1, <2>2, <2>3 DEF InOrder, Secured, MayEncrypt, PlainAllowed, Milder, Late
  <2>5. Going' = Going /\ Coming' = Coming
    BY <2>2, <2>3 DEF Going, Coming
  <2> QED BY <2>4, <2>5, NegotiationKept
<1>9. CASE xmppResume
  BY <1>9 DEF xmppResume
<1> QED BY <1>2, <1>3, <1>4, <1>5, <1>6, <1>7, <1>8, <1>9 DEF Application

(* A step of the server after which it is s: it stays authenticated and    *)
(* bound, and sends what it may.                                           *)
Grown(s) == (server.auth => s.auth) /\ (server.bound => s.bound)

Fits(s, e) ==
  /\ e \in Element /\ e.name \in ServerNames
  /\ e.name = "iq" /\ e.child = "bind" => s.auth /\ s.bound
  /\ "BIND" \in e.features => s.auth

LEMMA AnswerNegotiates ==
  ASSUME Typed, Negotiation
  PROVE  /\ \A s, e : Answer(s, e) /\ HasEnd(toServer) /\ Grown(s) /\ Fits(s, e) => Negotiation'
         /\ \A s : Ignore(s) /\ HasEnd(toServer) /\ Grown(s) => Negotiation'
         /\ \A s, e, n : Push(s, e, n) /\ n \in Nat /\ Grown(s) /\ Fits(s, e) => Negotiation'
<1>1. toServer \in Seq(Part) /\ toClient \in Seq(Part) /\ InOrder
  BY DEF Typed, Negotiation
<1>2. HasEnd(toServer) => Elements(Drop(toServer, FirstEnd(toServer))) \subseteq Elements(toServer)
  <2>1. HasEnd(toServer) => FirstEnd(toServer) \in 0..Len(toServer)
    BY <1>1, FirstEndIs
  <2> QED BY <1>1, <2>1, ElementsAre
<1>3. \A e \in Element, n \in Nat :
        Elements(toClient \o Parts(e, n)) \subseteq Elements(toClient) \cup {e}
  <2> TAKE e \in Element, n \in Nat
  <2>1. Parts(e, n) \in Seq(Part)
    BY PartsIs
  <2>2. Elements(Parts(e, n)) \subseteq {e}
    BY <1>1, ElementsAre
  <2>3. Elements(toClient \o Parts(e, n)) = Elements(toClient) \cup Elements(Parts(e, n))
    BY <1>1, <2>1, ConcatElements
  <2> QED BY <2>2, <2>3
<1>4. Sizes \subseteq Nat
  BY DEF XmppAssumption
<1>5. ASSUME NEW s, UNCHANGED <<c, ret, tls>>, server' = s, Grown(s)
      PROVE  InOrder' /\ Milder
  BY <1>1, <1>5 DEF InOrder, Secured, MayEncrypt, PlainAllowed, Milder, Grown
<1>6. ASSUME NEW s, NEW e, server' = s, Fits(s, e)
      PROVE  e \in Element /\ MayCome(e)'
  BY <1>6 DEF Fits, MayCome
<1>7. ASSUME NEW s, NEW e, Answer(s, e), HasEnd(toServer), Grown(s), Fits(s, e)
      PROVE  Negotiation'
  <2>1. UNCHANGED <<c, ret, tls>> /\ server' = s /\ toServer' = Drop(toServer, FirstEnd(toServer))
    BY <1>7 DEF Answer
  <2>2. PICK n \in Sizes : toClient' = toClient \o Parts(e, n)
    BY <1>7, Zenon DEF Answer
  <2>3. Elements(toClient') \subseteq Elements(toClient) \cup {e}
    BY <1>3, <1>4, <1>6, <1>7, <2>1, <2>2
  <2>4. Going' \subseteq Going /\ Coming' \subseteq Coming \cup {e}
    BY <1>2, <1>7, <2>1, <2>3 DEF Going, Coming
  <2>5. MayCome(e)' /\ InOrder' /\ Milder
    BY <1>5, <1>6, <1>7, <2>1
  <2> QED BY <2>4, <2>5, NegotiationKept
<1>8. ASSUME NEW s, Ignore(s), HasEnd(toServer), Grown(s) PROVE Negotiation'
  <2>1. /\ UNCHANGED <<c, ret, tls, toClient>> /\ server' = s
        /\ toServer' = Drop(toServer, FirstEnd(toServer))
    BY <1>8 DEF Ignore
  <2>2. Going' \subseteq Going /\ Coming' \subseteq Coming
    BY <1>2, <1>8, <2>1 DEF Going, Coming
  <2>3. InOrder' /\ Milder
    BY <1>5, <1>8, <2>1
  <2> QED BY <2>2, <2>3, NegotiationKept
<1>9. ASSUME NEW s, NEW e, NEW n, Push(s, e, n), n \in Nat, Grown(s), Fits(s, e)
      PROVE  Negotiation'
  <2>1. /\ UNCHANGED <<c, ret, tls, toServer>> /\ server' = s
        /\ toClient' = toClient \o Parts(e, n)
    BY <1>9 DEF Push
  <2>2. Elements(toClient') \subseteq Elements(toClient) \cup {e}
    BY <1>3, <1>6, <1>9, <2>1
  <2>3. Going' \subseteq Going /\ Coming' \subseteq Coming \cup {e}
    BY <2>1, <2>2 DEF Going, Coming
  <2>4. MayCome(e)' /\ InOrder' /\ Milder
    BY <1>5, <1>6, <1>9, <2>1
  <2> QED BY <2>3, <2>4, NegotiationKept
<1> QED BY <1>7, <1>8, <1>9

(* What a server sends carries no features unless it opens a stream.       *)
LEMMA PlainElements ==
  /\ \A name \in ServerNames : \A s : Fits(s, E(name))
  /\ \A name \in ServerNames \ {"iq"}, k \in Nat : \A s : Fits(s, [E(name) EXCEPT !.k = k])
  /\ \A name \in ServerNames \ {"iq"}, ok \in BOOLEAN : \A s : Fits(s, [E(name) EXCEPT !.ok = ok])
  /\ \A child \in {"none", "error"}, k \in Nat : \A s :
       Fits(s, [E("iq") EXCEPT !.child = child, !.k = k])
<1>1. ServerNames \subseteq Names /\ \A name \in ServerNames : E(name) \in Element
  <2>1. ServerNames \subseteq Names
    BY DEF ServerNames, Names
  <2> QED BY <2>1, ElementIs
<1>2. \A name \in ServerNames : \A s : Fits(s, E(name))
  <2> TAKE name \in ServerNames
  <2>1. E(name).name = name /\ E(name).child = "none" /\ E(name).features = {}
    BY DEF E
  <2> QED BY <1>1, <2>1 DEF Fits
<1>3. ASSUME NEW name \in ServerNames \ {"iq"}, NEW e \in Element, e.name = name,
             e.features = {}
      PROVE  \A s : Fits(s, e)
  BY <1>3 DEF Fits
<1>4. \A name \in ServerNames \ {"iq"}, k \in Nat : \A s : Fits(s, [E(name) EXCEPT !.k = k])
  <2> TAKE name \in ServerNames \ {"iq"}, k \in Nat
  <2> DEFINE e == [E(name) EXCEPT !.k = k]
  <2>1. e \in Element
    BY <1>1, ElementWith, Zenon
  <2>2. e.name = name /\ e.features = {}
    BY DEF E
  <2> HIDE DEF e
  <2>3. \A s : Fits(s, e)
    BY <1>3, <2>1, <2>2
  <2> QED BY <2>3 DEF e
<1>5. \A name \in ServerNames \ {"iq"}, ok \in BOOLEAN : \A s : Fits(s, [E(name) EXCEPT !.ok = ok])
  <2> TAKE name \in ServerNames \ {"iq"}, ok \in BOOLEAN
  <2> DEFINE e == [E(name) EXCEPT !.ok = ok]
  <2>1. e \in Element
    BY <1>1, ElementWith, Zenon
  <2>2. e.name = name /\ e.features = {}
    BY DEF E
  <2> HIDE DEF e
  <2>3. \A s : Fits(s, e)
    BY <1>3, <2>1, <2>2
  <2> QED BY <2>3 DEF e
<1>6. \A child \in {"none", "error"}, k \in Nat : \A s :
        Fits(s, [E("iq") EXCEPT !.child = child, !.k = k])
  <2> TAKE child \in {"none", "error"}, k \in Nat
  <2> DEFINE e == [E("iq") EXCEPT !.child = child, !.k = k]
  <2>1. "iq" \in ServerNames
    BY DEF ServerNames
  <2>2. e \in Element
    BY <1>1, <2>1, ElementWith, Zenon
  <2>3. e.name = "iq" /\ e.features = {} /\ e.child = child
    BY DEF E
  <2> HIDE DEF e
  <2>4. \A s : Fits(s, e)
    BY <2>1, <2>2, <2>3 DEF Fits
  <2> QED BY <2>4 DEF e
<1> QED BY <1>2, <1>4, <1>5, <1>6, Zenon

LEMMA ServerNegotiates ==
  ASSUME Typed, Negotiation, Answers \/ PushesMessage \/ AsksAck \/ ClosesStream
  PROVE  Negotiation'
<1>1. ServerOK(server) /\ server.n + 1 \in Nat /\ server.handled \in Nat
  BY DEF Typed, ServerOK, ServerCounters
<1>2. /\ \A f \in (ServerFlags \cup ServerCounters \cup {"offered", "large"}) \ {"auth", "bound"} :
           \A x : Grown([server EXCEPT ![f] = x])
      /\ Grown(server) /\ Grown([server EXCEPT !.auth = TRUE])
      /\ Grown([server EXCEPT !.bound = TRUE])
  BY <1>1 DEF Grown, ServerOK
<1>3. /\ Grown(Handling(server)) /\ Grown(Counting(Handling(server)))
      /\ \A x : Grown([Counting(server) EXCEPT !.large = x])
  BY <1>1 DEF Grown, ServerOK, Handling, Counting
<1>4. \A names : Got(names) =>
        HasEnd(toServer) /\ Request \in Going /\ Request.name \in names
  <2>1. toServer \in Seq(Part)
    BY DEF Typed
  <2>2. HasEnd(toServer) => Request \in Elements(toServer)
    BY <2>1, ElementsAre DEF Request
  <2> QED BY <2>2 DEF Got, Going, Request
<1>5. CASE OffersStream
  <2>1. ASSUME NEW F \in Offers,
               Answer(server, [E("stream") EXCEPT
                                 !.features = IF server.tls THEN F \ {"STARTTLS"} ELSE F])
        PROVE  Negotiation'
    <3> DEFINE G == IF server.tls THEN F \ {"STARTTLS"} ELSE F
    <3>1. G \in SUBSET (Sasl \cup {"STARTTLS"})
      BY DEF XmppAssumption
    <3>2. Answer(server, [E("stream") EXCEPT !.features = G])
      BY <2>1
    <3> HIDE DEF G
    <3>3. Fits(server, [E("stream") EXCEPT !.features = G])
      BY <3>1, Zenon DEF Fits, E, Element, ServerNames, Names, Sasl
    <3>4. HasEnd(toServer)
      BY <1>4, <1>5 DEF OffersStream
    <3> QED BY <1>2, <3>2, <3>3, <3>4, AnswerNegotiates
  <2>2. ASSUME NEW sm \in SUBSET {"SMACKS"}, server.auth,
               Answer([server EXCEPT !.offered = sm],
                      [E("stream") EXCEPT !.features = {"BIND"} \cup sm])
        PROVE  Negotiation'
    <3>1. Fits([server EXCEPT !.offered = sm], [E("stream") EXCEPT !.features = {"BIND"} \cup sm])
      <4> DEFINE e == [E("stream") EXCEPT !.features = {"BIND"} \cup sm]
      <4>1. {"BIND"} \cup sm \in SUBSET (Sasl \cup {"STARTTLS", "BIND", "SMACKS"})
        OBVIOUS
      <4>2. E("stream") \in Element
        BY ElementIs DEF Names
      <4>3. e \in Element
        BY <4>1, <4>2, ElementWith, Zenon
      <4>4. e.name = "stream"
        BY DEF E
      <4> HIDE DEF e
      <4>5. [server EXCEPT !.offered = sm].auth
        BY <1>1, <2>2 DEF ServerOK, ServerFlags
      <4>6. Fits([server EXCEPT !.offered = sm], e)
        BY <4>3, <4>4, <4>5 DEF Fits, ServerNames
      <4> QED BY <4>6 DEF e
    <3>2. HasEnd(toServer)
      BY <1>4, <1>5 DEF OffersStream
    <3>3. Grown([server EXCEPT !.offered = sm])
      BY <1>2 DEF ServerFlags, ServerCounters
    <3> QED BY <2>2, <3>1, <3>2, <3>3, AnswerNegotiates
  <2>3. ASSUME Answer(server, E("streamerror")) PROVE Negotiation'
    <3>1. HasEnd(toServer)
      BY <1>4, <1>5 DEF OffersStream
    <3>2. Fits(server, E("streamerror"))
      BY PlainElements, Zenon DEF ServerNames
    <3> QED BY <1>2, <2>3, <3>1, <3>2, AnswerNegotiates
  <2>4. \/ \E F \in Offers :
             Answer(server, [E("stream") EXCEPT
                               !.features = IF server.tls THEN F \ {"STARTTLS"} ELSE F])
        \/ \E sm \in SUBSET {"SMACKS"} :
             server.auth /\ Answer([server EXCEPT !.offered = sm],
                                   [E("stream") EXCEPT !.features = {"BIND"} \cup sm])
        \/ Answer(server, E("streamerror"))
    <3>1. {{"SMACKS"}} \cup (IF May("nosm") THEN {{}} ELSE {}) \subseteq SUBSET {"SMACKS"}
      OBVIOUS
    <3> QED BY <1>5, <3>1, Zenon DEF OffersStream
  <2> QED BY <2>1, <2>2, <2>3, <2>4, Zenon
<1>6. CASE AnswersStartTls
  <2>1. Grown([server EXCEPT !.tls = TRUE])
    BY <1>2 DEF ServerFlags
  <2>2. \A s : Fits(s, E("proceed")) /\ Fits(s, E("failure"))
    BY PlainElements, Zenon DEF ServerNames
  <2>3. HasEnd(toServer)
    BY <1>4, <1>6 DEF AnswersStartTls
  <2> QED BY <1>2, <1>6, <2>1, <2>2, <2>3, AnswerNegotiates DEF AnswersStartTls
<1>7. CASE AnswersAuth
  <2>1. \A ok \in BOOLEAN : Fits(server, [E("challenge") EXCEPT !.ok = ok])
    BY PlainElements, Zenon DEF ServerNames
  <2>2. Fits(server, E("failure"))
    BY PlainElements, Zenon DEF ServerNames
  <2>3. \/ \E ok \in BOOLEAN : Answer(server, [E("challenge") EXCEPT !.ok = ok])
        \/ Answer(server, E("failure"))
    BY <1>7, Zenon DEF AnswersAuth
  <2>4. HasEnd(toServer)
    BY <1>4, <1>7 DEF AnswersAuth
  <2> QED BY <1>2, <2>1, <2>2, <2>3, <2>4, AnswerNegotiates, Zenon
<1>8. CASE ChecksPassword
  <2>1. \A s : Fits(s, E("success")) /\ Fits(s, E("failure"))
    BY PlainElements, Zenon DEF ServerNames
  <2>2. HasEnd(toServer)
    BY <1>4, <1>8 DEF ChecksPassword
  <2> QED BY <1>2, <1>8, <2>1, <2>2, AnswerNegotiates DEF ChecksPassword
<1>9. CASE AnswersBind
  <2>1. HasEnd(toServer) /\ Request \in Going /\ Request.name = "bind"
    BY <1>4, <1>9 DEF AnswersBind
  <2>2. server.auth
    BY <2>1 DEF Negotiation, MayGo
  <2>3. /\ Fits([server EXCEPT !.bound = TRUE], [E("iq") EXCEPT !.child = "bind"])
        /\ Fits(server, [E("iq") EXCEPT !.child = "error"])
    BY <1>1, <2>2, Zenon DEF Fits, E, Element, ServerNames, Names, ServerOK, ServerFlags
  <2>4. \/ Answer([server EXCEPT !.bound = TRUE], [E("iq") EXCEPT !.child = "bind"])
        \/ Answer(server, [E("iq") EXCEPT !.child = "error"])
    BY <1>9 DEF AnswersBind
  <2> QED BY <1>2, <2>1, <2>3, <2>4, AnswerNegotiates
<1>10. CASE EnablesAcks
  <2>1. Grown([server EXCEPT !.sm = TRUE])
    BY <1>2 DEF ServerFlags
  <2>2. \A s : Fits(s, [E("enabled") EXCEPT !.ok = TRUE])
    BY PlainElements, Zenon DEF ServerNames
  <2>3. HasEnd(toServer)
    BY <1>4, <1>10 DEF EnablesAcks
  <2> QED BY <1>10, <2>1, <2>2, <2>3, AnswerNegotiates, Zenon DEF EnablesAcks
<1>11. CASE HandlesStanza
  <2>1. HasEnd(toServer)
    BY <1>4, <1>11, Zenon DEF HandlesStanza
  <2>2. \A child \in {"none", "error"} : \A s :
          Fits(s, [E("iq") EXCEPT !.child = child, !.k = server.n + 1])
    BY <1>1, PlainElements, Zenon
  <2>3. \/ Ignore(Handling(server)) \/ Ignore(server)
        \/ \E child \in {"none", "error"} :
             Answer(Counting(Handling(server)),
                    [E("iq") EXCEPT !.child = child, !.k = server.n + 1])
    BY <1>11, Zenon DEF HandlesStanza
  <2> QED BY <1>2, <1>3, <2>1, <2>2, <2>3, AnswerNegotiates
<1>12. CASE Acknowledges
  <2>1. HasEnd(toServer)
    BY <1>4, <1>12 DEF Acknowledges
  <2>2. Fits(server, [E("a") EXCEPT !.k = server.handled])
    BY <1>1, PlainElements, Zenon DEF ServerNames
  <2> QED BY <1>2, <1>12, <2>1, <2>2, AnswerNegotiates DEF Acknowledges
<1>13. CASE TakesNote
  <2>1. HasEnd(toServer)
    BY <1>4, <1>13 DEF TakesNote
  <2> QED BY <1>2, <1>13, <2>1, AnswerNegotiates DEF TakesNote
<1>14. CASE PushesMessage
  <2>1. PICK n \in Sizes :
          \E L : Push([Counting(server) EXCEPT !.large = L],
                      [E("message") EXCEPT !.k = server.n + 1], n)
    BY <1>14, Zenon DEF PushesMessage
  <2>2. \A s : Fits(s, [E("message") EXCEPT !.k = server.n + 1])
    BY <1>1, PlainElements, Zenon DEF ServerNames
  <2>3. n \in Nat
    BY DEF XmppAssumption
  <2> QED BY <1>3, <2>1, <2>2, <2>3, AnswerNegotiates
<1>15. CASE AsksAck
  <2>1. Grown([server EXCEPT !.asked = server.n])
    BY <1>2 DEF ServerCounters
  <2>2. \A s : Fits(s, E("r"))
    BY PlainElements, Zenon DEF ServerNames
  <2> QED BY <1>15, <2>1, <2>2, AnswerNegotiates DEF AsksAck
<1>16. CASE ClosesStream
  <2>1. Grown([server EXCEPT !.closed = TRUE])
    BY <1>2 DEF ServerFlags
  <2>2. \A s : Fits(s, E("/stream"))
    BY PlainElements, Zenon DEF ServerNames
  <2> QED BY <1>16, <2>1, <2>2, AnswerNegotiates DEF ClosesStream
<1> QED BY <1>5, <1>6, <1>7, <1>8, <1>9, <1>10, <1>11, <1>12, <1>13, <1>14, <1>15, <1>16
        DEF Answers

LEMMA NegotiationInitially == Init => Negotiation
<1> SUFFICES ASSUME Init PROVE Negotiation
  OBVIOUS
<1>1. PICK opts \in OptSets : c = xmppInitClient(opts)
  BY DEF Init
<1>2. /\ c.features = {} /\ c.state = "INIT" /\ c.isnegotiationdone = FALSE
      /\ c.in = <<>> /\ c.out = <<>>
  BY <1>1 DEF xmppInitClient
<1>3. ret = "OK" /\ toServer = <<>> /\ toClient = <<>> /\ tls = FALSE
  BY DEF Init
<1>4. Going = {} /\ Coming = {}
  BY <1>2, <1>3 DEF Going, Coming, Elements
<1>5. InOrder
  BY <1>2, <1>3 DEF InOrder, Late
<1> QED BY <1>4, <1>5 DEF Negotiation

LEMMA NegotiationStep ==
  ASSUME Typed, Negotiation, [Next]_vars, "resume" \notin AppMay
  PROVE  Negotiation'
<1>1. CASE xmppIterate
  BY <1>1, OtherNegotiates, StreamNegotiates, SaslNegotiates, StanzaNegotiates DEF xmppIterate
<1>2. CASE Application
  BY <1>2, ApplicationNegotiates
<1>3. CASE Answers \/ PushesMessage \/ AsksAck \/ ClosesStream
  BY <1>3, ServerNegotiates
<1>4. CASE UNCHANGED vars
  <2>1. UNCHANGED <<c, ret, tls, server, toServer, toClient>>
    BY <1>4 DEF vars
  <2>2. InOrder' /\ Milder
    BY <2>1 DEF InOrder, Negotiation, Secured, MayEncrypt, PlainAllowed, Milder
  <2>3. Going' = Going /\ Coming' = Coming
    BY <2>1 DEF Going, Coming
  <2> QED BY <2>2, <2>3, NegotiationKept
<1> QED BY <1>1, <1>2, <1>3, <1>4 DEF Next

(* While no session is resumed, the options are honoured: nothing but the  *)
(* opening of a stream and its end is sent before TLS is up, unless that   *)
(* is allowed; a plain password is never sent without TLS unless that is   *)
(* allowed; FORCEUNENCRYPTED has no TLS; a mechanism that is ruled out is  *)
(* not used.  Whatever mechanisms the server announces and it answers.     *)
THEOREM OptionsAreHonoured ==
  ASSUME "resume" \notin AppMay
  PROVE  Spec => []OptionsHonoured
<1>1. Init => Typed /\ Negotiation
  BY TypesInitially, NegotiationInitially
<1>2. Typed /\ Negotiation /\ [Next]_vars => (Typed /\ Negotiation)'
  BY TypesStep, NegotiationStep
<1>3. Typed /\ Negotiation => OptionsHonoured
  <2> SUFFICES ASSUME Typed, Negotiation PROVE OptionsHonoured
    OBVIOUS
  <2>1. Elements(toServer \o c.out) = Going
    BY ConcatElements DEF Typed, ClientOK, Going
  <2>2. Sending = {e.name : e \in Going} /\ \A e \in Going : MayGo(e)
    BY <2>1 DEF Sending, Negotiation
  <2>3. Sending \subseteq {"stream", "starttls", "/stream"} \/ Secured
    BY <2>2 DEF MayGo, Opening
  <2>4. "authplain" \in Sending => PlainAllowed
    BY <2>2 DEF MayGo
  <2>5. "FORCEPLAIN" \in c.opts => Sending \cap {"auth", "response"} = {}
    BY <2>2 DEF MayGo
  <2>6. tls \/ "starttls" \in Sending => MayEncrypt
    BY <2>2 DEF MayGo, Negotiation, InOrder
  <2> QED BY <2>3, <2>4, <2>5, <2>6 DEF OptionsHonoured, Secured, MayEncrypt, PlainAllowed
<1> QED BY <1>1, <1>2, <1>3, PTL DEF Spec

(* While no session is resumed, the client calls itself ready only when    *)
(* the server has authenticated it and bound its resource.                 *)
THEOREM ReadyIsNegotiated ==
  ASSUME "resume" \notin AppMay
  PROVE  Spec => []ReadyMeansNegotiated
<1>1. Init => Typed /\ Negotiation
  BY TypesInitially, NegotiationInitially
<1>2. Typed /\ Negotiation /\ [Next]_vars => (Typed /\ Negotiation)'
  BY TypesStep, NegotiationStep
<1>3. Negotiation => ReadyMeansNegotiated
  BY DEF Negotiation, InOrder, ReadyMeansNegotiated
<1> QED BY <1>1, <1>2, <1>3, PTL DEF Spec

-----------------------------------------------------------------------------
(* What both ends count.                                                   *)

(* How many elements of a set end in a sequence of parts.                  *)
Ends(parts, S) == {j \in DOMAIN parts : parts[j].last /\ parts[j].el \in S}

Count(parts, S) == Cardinality(Ends(parts, S))

(* The elements that end in a sequence of parts.                           *)
Ended(parts) == {parts[j].el : j \in {h \in DOMAIN parts : parts[h].last}}

LEMMA CountIs ==
  ASSUME NEW s \in Seq(Part), NEW S
  PROVE  /\ IsFiniteSet(Ends(s, S)) /\ Count(s, S) \in Nat
         /\ Count(s, S) = 0 <=> Ended(s) \cap S = {}
         /\ \A T : S \subseteq T => Count(s, S) <= Count(s, T)
<1>1. \A T : IsFiniteSet(Ends(s, T))
  <2> TAKE T
  <2>1. IsFiniteSet(1..Len(s))
    BY FS_Interval
  <2>2. Ends(s, T) \in SUBSET (1..Len(s))
    BY DEF Ends
  <2> QED BY <2>1, <2>2, FS_Subset
<1>2. IsFiniteSet(Ends(s, S))
  BY <1>1
<1>3. Count(s, S) \in Nat
  BY <1>2, FS_CardinalityType DEF Count
<1>4. Count(s, S) = 0 <=> Ends(s, S) = {}
  BY <1>2, FS_EmptySet DEF Count
<1>5. Ends(s, S) = {} <=> Ended(s) \cap S = {}
  BY DEF Ends, Ended
<1>6. ASSUME NEW T, S \subseteq T PROVE Count(s, S) <= Count(s, T)
  <2>1. Ends(s, S) \in SUBSET Ends(s, T)
    BY <1>6 DEF Ends
  <2>2. IsFiniteSet(Ends(s, T))
    BY <1>1
  <2> QED BY <2>1, <2>2, FS_Subset DEF Count
<1> QED BY <1>2, <1>3, <1>4, <1>5, <1>6

LEMMA CountConcat ==
  ASSUME NEW s \in Seq(Part), NEW t \in Seq(Part), NEW S
  PROVE  Count(s \o t, S) = Count(s, S) + Count(t, S)
<1>1. /\ s \o t \in Seq(Part) /\ Len(s \o t) = Len(s) + Len(t)
      /\ \A j \in 1..(Len(s) + Len(t)) :
           (s \o t)[j] = IF j <= Len(s) THEN s[j] ELSE t[j - Len(s)]
  BY ConcatProperties
<1> DEFINE n == Len(s)
           B == {j + n : j \in Ends(t, S)}
<1>2. Ends(s \o t, S) = Ends(s, S) \cup B
  <2>1. \A j \in Ends(s, S) : j \in Ends(s \o t, S)
    BY <1>1 DEF Ends
  <2>2. \A j \in Ends(t, S) : j + n \in Ends(s \o t, S)
    <3> TAKE j \in Ends(t, S)
    <3>1. j \in 1..Len(t) /\ j + n \in DOMAIN (s \o t) /\ (s \o t)[j + n] = t[j]
      BY <1>1 DEF Ends
    <3> QED BY <3>1 DEF Ends
  <2>3. \A j \in Ends(s \o t, S) : j \in Ends(s, S) \/ j \in B
    <3> TAKE j \in Ends(s \o t, S)
    <3>1. CASE j <= n
      BY <1>1, <3>1 DEF Ends
    <3>2. CASE ~ (j <= n)
      <4>1. j \in 1..(Len(s) + Len(t)) /\ (s \o t)[j].last /\ (s \o t)[j].el \in S
        BY <1>1 DEF Ends
      <4>2. (s \o t)[j] = t[j - n] /\ j - n \in 1..Len(t) /\ (j - n) + n = j
        BY <1>1, <3>2, <4>1
      <4>3. j - n \in Ends(t, S)
        BY <4>1, <4>2 DEF Ends
      <4> QED BY <4>2, <4>3
    <3> QED BY <3>1, <3>2
  <2> QED BY <2>1, <2>2, <2>3
<1>3. Ends(s, S) \cap B = {}
  BY DEF Ends
<1>4. IsFiniteSet(Ends(s, S)) /\ IsFiniteSet(Ends(t, S))
  BY CountIs
<1>5. IsFiniteSet(B) /\ Cardinality(B) = Cardinality(Ends(t, S))
  <2> DEFINE f == [j \in Ends(t, S) |-> j + n]
  <2>1. Ends(t, S) \subseteq Nat /\ n \in Nat
    BY DEF Ends
  <2>2. f \in Bijection(Ends(t, S), B)
    BY <2>1 DEF Bijection, Injection, Surjection, IsInjective
  <2>3. ExistsBijection(Ends(t, S), B)
    BY <2>2 DEF ExistsBijection
  <2> HIDE DEF B
  <2> QED BY <1>4, <2>3, FS_Bijection
<1>6. Cardinality(Ends(s, S) \cup B) = Cardinality(Ends(s, S)) + Cardinality(B)
  <2> DEFINE A == Ends(s, S)
  <2>1. IsFiniteSet(A) /\ IsFiniteSet(B) /\ A \cap B = {}
    BY <1>3, <1>4, <1>5
  <2> HIDE DEF A, B
  <2>2. Cardinality(A) \in Nat /\ Cardinality(B) \in Nat /\ Cardinality(A \cap B) = 0
    <3>1. Cardinality(A) \in Nat /\ Cardinality(B) \in Nat
      BY <2>1, FS_CardinalityType
    <3>2. Cardinality(A \cap B) = 0
      BY <2>1, FS_EmptySet, Zenon
    <3> QED BY <3>1, <3>2
  <2>3. Cardinality(A \cup B) = Cardinality(A) + Cardinality(B) - Cardinality(A \cap B)
    BY <2>1, FS_Union
  <2>4. Cardinality(A \cup B) = Cardinality(A) + Cardinality(B)
    BY <2>1, <2>2, <2>3
  <2> QED BY <2>4 DEF A
<1> QED BY <1>2, <1>5, <1>6 DEF Count

LEMMA CountSplit ==
  ASSUME NEW s \in Seq(Part), NEW n \in 0..Len(s), NEW S
  PROVE  /\ s = SubSeq(s, 1, n) \o Drop(s, n)
         /\ Count(s, S) = Count(SubSeq(s, 1, n), S) + Count(Drop(s, n), S)
<1> DEFINE f == SubSeq(s, 1, n)
           d == Drop(s, n)
<1>1. f \in Seq(Part) /\ Len(f) = n /\ \A j \in 1..n : f[j] = s[j]
  BY FrontIs
<1>2. d \in Seq(Part) /\ Len(d) = Len(s) - n /\ \A j \in 1..(Len(s) - n) : d[j] = s[j + n]
  BY DropIs
<1> HIDE DEF f, d
<1>3. /\ f \o d \in Seq(Part) /\ Len(f \o d) = Len(f) + Len(d)
      /\ \A j \in 1..(Len(f) + Len(d)) :
           (f \o d)[j] = IF j <= Len(f) THEN f[j] ELSE d[j - Len(f)]
  BY <1>1, <1>2, ConcatProperties
<1>4. Len(f \o d) = Len(s)
  BY <1>1, <1>2, <1>3
<1>5. \A j \in 1..Len(s) : (f \o d)[j] = s[j]
  <2> TAKE j \in 1..Len(s)
  <2>1. CASE j <= n
    BY <1>1, <1>2, <1>3, <2>1
  <2>2. CASE ~ (j <= n)
    <3>1. j - n \in 1..(Len(s) - n) /\ (j - n) + n = j
      BY <2>2
    <3>2. (f \o d)[j] = d[j - n]
      BY <1>1, <1>2, <1>3, <2>2
    <3>3. d[j - n] = s[j]
      BY <1>2, <3>1
    <3> QED BY <3>2, <3>3
  <2> QED BY <2>1, <2>2, Zenon
<1>6. s = f \o d
  BY <1>3, <1>4, <1>5, SeqEqual, Zenon
<1>7. Count(s, S) = Count(f, S) + Count(d, S)
  BY <1>1, <1>2, <1>6, CountConcat
<1> QED BY <1>6, <1>7 DEF f, d

(* A sequence of parts in which nothing ends, or only at its end.          *)
LEMMA CountOne ==
  ASSUME NEW s \in Seq(Part), NEW S, \A j \in 1..(Len(s) - 1) : ~ s[j].last
  PROVE  /\ Len(s) > 0 /\ s[Len(s)].last /\ s[Len(s)].el \in S => Count(s, S) = 1
         /\ Len(s) = 0 \/ ~ s[Len(s)].last \/ s[Len(s)].el \notin S => Count(s, S) = 0
<1>1. ASSUME Len(s) > 0, s[Len(s)].last, s[Len(s)].el \in S PROVE Count(s, S) = 1
  <2>1. Ends(s, S) = {Len(s)}
    BY <1>1 DEF Ends
  <2> QED BY <2>1, FS_Singleton, Zenon DEF Count
<1>2. ASSUME Len(s) = 0 \/ ~ s[Len(s)].last \/ s[Len(s)].el \notin S PROVE Count(s, S) = 0
  <2>1. Ends(s, S) = {}
    BY <1>2 DEF Ends
  <2> QED BY <2>1, FS_EmptySet DEF Count
<1> QED BY <1>1, <1>2

LEMMA CountParts ==
  ASSUME NEW e \in Element, NEW n \in Nat, NEW k \in 0..n, NEW S
  PROVE  /\ SubSeq(Parts(e, n), 1, k) \in Seq(Part)
         /\ Count(SubSeq(Parts(e, n), 1, k), S) = IF n > 0 /\ k = n /\ e \in S THEN 1 ELSE 0
         /\ Count(Parts(e, n), S) = IF n > 0 /\ e \in S THEN 1 ELSE 0
<1> DEFINE p == Parts(e, n)
           f == SubSeq(p, 1, k)
<1>1. /\ p \in Seq(Part) /\ Len(p) = n
      /\ \A j \in 1..n : p[j].el = e /\ (p[j].last <=> j = n)
  BY PartsIs
<1> HIDE DEF p
<1>2. f \in Seq(Part) /\ Len(f) = k /\ \A j \in 1..k : f[j] = p[j]
  BY <1>1, FrontIs
<1> HIDE DEF f
<1>3. \A j \in 1..(Len(f) - 1) : ~ f[j].last
  BY <1>1, <1>2
<1>4. k > 0 => f[k].el = e /\ (f[k].last <=> k = n)
  BY <1>1, <1>2
<1>5. Count(f, S) = IF n > 0 /\ k = n /\ e \in S THEN 1 ELSE 0
  BY <1>2, <1>3, <1>4, CountOne
<1>6. \A j \in 1..(Len(p) - 1) : ~ p[j].last
  BY <1>1
<1>7. n > 0 => p[n].el = e /\ p[n].last
  BY <1>1
<1>8. Count(p, S) = IF n > 0 /\ e \in S THEN 1 ELSE 0
  BY <1>1, <1>6, <1>7, CountOne
<1> QED BY <1>2, <1>5, <1>8 DEF p, f

(* The first element leaves.                                               *)
LEMMA CountFirst ==
  ASSUME NEW s \in Seq(Part), HasEnd(s), NEW S
  PROVE  /\ Drop(s, FirstEnd(s)) \in Seq(Part)
         /\ Count(Drop(s, FirstEnd(s)), S) =
              Count(s, S) - (IF s[FirstEnd(s)].el \in S THEN 1 ELSE 0)
<1> DEFINE n == FirstEnd(s)
           f == SubSeq(s, 1, n)
<1>1. n \in 1..Len(s) /\ s[n].last /\ \A h \in 1..(n - 1) : ~ s[h].last
  BY FirstEndIs
<1> HIDE DEF n
<1>2. n \in 0..Len(s)
  BY <1>1
<1>3. f \in Seq(Part) /\ Len(f) = n /\ \A j \in 1..n : f[j] = s[j]
  BY <1>2, FrontIs
<1>4. Count(s, S) = Count(f, S) + Count(Drop(s, n), S) /\ Drop(s, n) \in Seq(Part)
  BY <1>2, CountSplit, DropIs
<1> HIDE DEF f
<1>5. Count(f, S) = IF s[n].el \in S THEN 1 ELSE 0
  <2>1. \A j \in 1..(Len(f) - 1) : ~ f[j].last
    BY <1>1, <1>3
  <2>2. f[Len(f)] = s[n] /\ Len(f) > 0
    BY <1>1, <1>3
  <2> QED BY <1>1, <1>3, <2>1, <2>2, CountOne
<1>6. Count(Drop(s, n), S) \in Nat /\ Count(s, S) \in Nat
  BY <1>4, CountIs
<1>7. Count(Drop(s, n), S) = Count(s, S) - (IF s[n].el \in S THEN 1 ELSE 0)
  BY <1>4, <1>5, <1>6
<1> QED BY <1>4, <1>7 DEF n

LEMMA EndedAre ==
  ASSUME NEW s \in Seq(Part)
  PROVE  /\ \A n \in 0..Len(s) : Ended(Drop(s, n)) \subseteq Ended(s)
         /\ \A n \in 0..Len(s) : Ended(SubSeq(s, 1, n)) \subseteq Ended(s)
         /\ \A t \in Seq(Part) : Ended(s \o t) = Ended(s) \cup Ended(t)
         /\ \A e \in Element, n \in Nat : Ended(Parts(e, n)) \subseteq {e}
         /\ HasEnd(s) => s[FirstEnd(s)].el \in Ended(s)
         /\ Ended(s) \subseteq Elements(s)
<1>1. \A n \in 0..Len(s) : Ended(Drop(s, n)) \subseteq Ended(s)
  <2> TAKE n \in 0..Len(s)
  <2>1. /\ Drop(s, n) \in Seq(Part) /\ Len(Drop(s, n)) = Len(s) - n
        /\ \A j \in 1..(Len(s) - n) : Drop(s, n)[j] = s[j + n]
    BY DropIs
  <2>2. \A j \in DOMAIN Drop(s, n) : j + n \in DOMAIN s /\ s[j + n] = Drop(s, n)[j]
    BY <2>1
  <2> QED BY <2>2 DEF Ended
<1>2. \A n \in 0..Len(s) : Ended(SubSeq(s, 1, n)) \subseteq Ended(s)
  <2> TAKE n \in 0..Len(s)
  <2>1. /\ SubSeq(s, 1, n) \in Seq(Part) /\ Len(SubSeq(s, 1, n)) = n
        /\ \A j \in 1..n : SubSeq(s, 1, n)[j] = s[j]
    BY FrontIs
  <2> QED BY <2>1 DEF Ended
<1>3. \A t \in Seq(Part) : Ended(s \o t) = Ended(s) \cup Ended(t)
  <2> TAKE t \in Seq(Part)
  <2>1. /\ s \o t \in Seq(Part) /\ Len(s \o t) = Len(s) + Len(t)
        /\ \A j \in 1..(Len(s) + Len(t)) :
             (s \o t)[j] = IF j <= Len(s) THEN s[j] ELSE t[j - Len(s)]
    BY ConcatProperties
  <2>2. Ended(s) \subseteq Ended(s \o t)
    BY <2>1 DEF Ended
  <2>3. Ended(t) \subseteq Ended(s \o t)
    <3> SUFFICES ASSUME NEW j \in DOMAIN t, t[j].last PROVE t[j].el \in Ended(s \o t)
      BY DEF Ended
    <3>1. j + Len(s) \in DOMAIN (s \o t) /\ (s \o t)[j + Len(s)] = t[j]
      BY <2>1
    <3> QED BY <3>1 DEF Ended
  <2>4. Ended(s \o t) \subseteq Ended(s) \cup Ended(t)
    BY <2>1 DEF Ended
  <2> QED BY <2>2, <2>3, <2>4
<1>4. \A e \in Element, n \in Nat : Ended(Parts(e, n)) \subseteq {e}
  <2> TAKE e \in Element, n \in Nat
  <2> DEFINE p == Parts(e, n)
  <2>1. p \in Seq(Part) /\ Len(p) = n /\ \A j \in 1..n : p[j].el = e
    BY PartsIs
  <2> HIDE DEF p
  <2>2. Ended(p) \subseteq {e}
    BY <2>1 DEF Ended
  <2> QED BY <2>2 DEF p
<1>5. HasEnd(s) => s[FirstEnd(s)].el \in Ended(s)
  BY FirstEndIs DEF Ended
<1>6. Ended(s) \subseteq Elements(s)
  BY DEF Ended, Elements
<1> QED BY <1>1, <1>2, <1>3, <1>4, <1>5, <1>6

(* An element is appended behind what is there, whole or cut short.        *)
LEMMA AppendedBehind ==
  ASSUME NEW s \in Seq(Part), Len(s) <= OutCap, NEW e \in Element
  PROVE  \E k \in 0..OutSize :
           /\ Appended(s, e) = s \o SubSeq(Parts(e, OutSize), 1, k)
           /\ Len(s) + OutSize <= OutCap => k = OutSize
<1> DEFINE p == Parts(e, OutSize)
           all == s \o p
           m == IF Len(all) < OutCap THEN Len(all) ELSE OutCap
           k == m - Len(s)
           f == SubSeq(p, 1, k)
<1>1. p \in Seq(Part) /\ Len(p) = OutSize
  BY PartsIs DEF XmppAssumption
<1> HIDE DEF p
<1>2. /\ all \in Seq(Part) /\ Len(all) = Len(s) + OutSize
      /\ \A j \in 1..Len(all) : all[j] = IF j <= Len(s) THEN s[j] ELSE p[j - Len(s)]
  BY <1>1, ConcatProperties, Zenon
<1>3. Appended(s, e) = SubSeq(all, 1, m)
  BY DEF Appended, p
<1> HIDE DEF all
<1>4. m \in 0..Len(all) /\ k \in 0..OutSize /\ (Len(s) + OutSize <= OutCap => k = OutSize)
      /\ m = Len(s) + k
  BY <1>2 DEF XmppAssumption
<1> HIDE DEF m, k
<1>5. /\ SubSeq(all, 1, m) \in Seq(Part) /\ Len(SubSeq(all, 1, m)) = m
      /\ \A j \in 1..m : SubSeq(all, 1, m)[j] = all[j]
  BY <1>2, <1>4, FrontIs
<1>6. f \in Seq(Part) /\ Len(f) = k /\ \A j \in 1..k : f[j] = p[j]
  BY <1>1, <1>4, FrontIs
<1> HIDE DEF f
<1>7. /\ s \o f \in Seq(Part) /\ Len(s \o f) = Len(s) + k
      /\ \A j \in 1..(Len(s) + k) : (s \o f)[j] = IF j <= Len(s) THEN s[j] ELSE f[j - Len(s)]
  BY <1>6, ConcatProperties, ZenonT(60)
<1>8. \A j \in 1..m : SubSeq(all, 1, m)[j] = (s \o f)[j]
  <2> TAKE j \in 1..m
  <2>1. j \in 1..Len(all) /\ j \in 1..(Len(s) + k)
    BY <1>2, <1>4
  <2>2. CASE j <= Len(s)
    BY <1>2, <1>5, <1>7, <2>1, <2>2
  <2>3. CASE ~ (j <= Len(s))
    <3>1. j - Len(s) \in 1..k
      BY <1>4, <2>1, <2>3
    <3> QED BY <1>2, <1>5, <1>6, <1>7, <2>1, <2>3, <3>1, Zenon
  <2> QED BY <2>2, <2>3, Zenon
<1>9. SubSeq(all, 1, m) = s \o f
  BY <1>4, <1>5, <1>7, <1>8, SeqEqual, Zenon
<1> QED BY <1>3, <1>4, <1>9, Zenon DEF f, p

LEMMA CountAppended ==
  ASSUME NEW s \in Seq(Part), Len(s) <= OutCap, NEW e \in Element, NEW S
  PROVE  /\ Appended(s, e) \in Seq(Part)
         /\ Count(Appended(s, e), S) \in {Count(s, S), Count(s, S) + 1}
         /\ e \notin S => Count(Appended(s, e), S) = Count(s, S)
         /\ e \in S /\ Len(s) + OutSize <= OutCap => Count(Appended(s, e), S) = Count(s, S) + 1
         /\ Ended(Appended(s, e)) \subseteq Ended(s) \cup {e}
<1>1. PICK k \in 0..OutSize :
        /\ Appended(s, e) = s \o SubSeq(Parts(e, OutSize), 1, k)
        /\ Len(s) + OutSize <= OutCap => k = OutSize
  BY AppendedBehind, Zenon
<1> DEFINE f == SubSeq(Parts(e, OutSize), 1, k)
<1>2. OutSize \in Nat /\ OutSize > 0
  BY DEF XmppAssumption
<1>3. /\ f \in Seq(Part)
      /\ Count(f, S) = IF OutSize > 0 /\ k = OutSize /\ e \in S THEN 1 ELSE 0
  BY <1>2, CountParts
<1>4. Ended(f) \subseteq {e}
  <2>1. Parts(e, OutSize) \in Seq(Part) /\ Len(Parts(e, OutSize)) = OutSize
    BY <1>2, PartsIs
  <2>2. Ended(f) \subseteq Ended(Parts(e, OutSize))
    BY <2>1, EndedAre
  <2>3. Ended(Parts(e, OutSize)) \subseteq {e}
    BY <1>2, <2>1, EndedAre
  <2> QED BY <2>2, <2>3
<1>5. Appended(s, e) = s \o f
  BY <1>1
<1> HIDE DEF f
<1>6. Count(Appended(s, e), S) = Count(s, S) + Count(f, S) /\ Count(s, S) \in Nat
  BY <1>3, <1>5, CountConcat, CountIs
<1>7. Ended(Appended(s, e)) = Ended(s) \cup Ended(f)
  BY <1>3, <1>5, EndedAre
<1>8. Appended(s, e) \in Seq(Part)
  BY <1>3, <1>5, ConcatProperties
<1> QED BY <1>1, <1>2, <1>3, <1>4, <1>6, <1>7, <1>8

-----------------------------------------------------------------------------
(* What is sent and not yet read by the server, and what the client has    *)
(* not yet read.                                                           *)
Sent == toServer \o c.out

Left == Rest \o toClient

LEMMA SentIs ==
  ASSUME Typed
  PROVE  /\ Sent \in Seq(Part) /\ Ended(Sent) = Ended(toServer) \cup Ended(c.out)
         /\ \A S : /\ Count(Sent, S) = Count(toServer, S) + Count(c.out, S)
                   /\ Count(Sent, S) \in Nat /\ Count(toServer, S) \in Nat
<1>1. toServer \in Seq(Part) /\ c.out \in Seq(Part)
  BY DEF Typed, ClientOK
<1>2. Sent \in Seq(Part)
  BY <1>1, ConcatProperties DEF Sent
<1>3. Ended(Sent) = Ended(toServer) \cup Ended(c.out)
  BY <1>1, EndedAre DEF Sent
<1>4. ASSUME NEW S
      PROVE  /\ Count(Sent, S) = Count(toServer, S) + Count(c.out, S)
             /\ Count(Sent, S) \in Nat /\ Count(toServer, S) \in Nat
  BY <1>1, <1>2, CountConcat, CountIs DEF Sent
<1> QED BY <1>2, <1>3, <1>4

LEMMA LeftIs ==
  ASSUME Typed
  PROVE  /\ Left \in Seq(Part) /\ Ended(Left) = Ended(Rest) \cup Ended(toClient)
         /\ Ended(Left) \subseteq Coming
         /\ \A S : /\ Count(Left, S) = Count(Rest, S) + Count(toClient, S)
                   /\ Count(Left, S) \in Nat /\ Count(toClient, S) \in Nat /\ Count(Rest, S) \in Nat
<1>1. toClient \in Seq(Part) /\ Rest \in Seq(Part) /\ Elements(Rest) \subseteq Elements(c.in)
  BY RestIs DEF Typed
<1>2. Left \in Seq(Part)
  BY <1>1, ConcatProperties DEF Left
<1>3. Ended(Left) = Ended(Rest) \cup Ended(toClient)
  BY <1>1, EndedAre DEF Left
<1>4. Ended(Rest) \subseteq Elements(Rest) /\ Ended(toClient) \subseteq Elements(toClient)
  BY <1>1, EndedAre
<1>5. ASSUME NEW S
      PROVE  /\ Count(Left, S) = Count(Rest, S) + Count(toClient, S)
             /\ Count(Left, S) \in Nat /\ Count(toClient, S) \in Nat /\ Count(Rest, S) \in Nat
  BY <1>1, <1>2, CountConcat, CountIs DEF Left
<1> QED BY <1>1, <1>2, <1>3, <1>4, <1>5 DEF Coming

(* The same of the next state.                                             *)
Sides ==
  /\ Left \in Seq(Part) /\ Sent \in Seq(Part) /\ Ended(Left) \subseteq Coming
  /\ \A S : /\ Count(Left, S) = Count(Rest, S) + Count(toClient, S)
            /\ Count(Left, S) \in Nat /\ Count(toClient, S) \in Nat /\ Count(Rest, S) \in Nat
            /\ Count(Sent, S) \in Nat

LEMMA SidesNext == Typed' => Sides'
<1>1. Typed => Sides
  <2> SUFFICES ASSUME Typed PROVE Sides
    OBVIOUS
  <2>1. ASSUME NEW S
        PROVE  /\ Count(Left, S) = Count(Rest, S) + Count(toClient, S)
               /\ Count(Left, S) \in Nat /\ Count(toClient, S) \in Nat /\ Count(Rest, S) \in Nat
               /\ Count(Sent, S) \in Nat
    BY LeftIs, SentIs
  <2> QED BY <2>1, LeftIs, SentIs DEF Sides
<1> QED BY <1>1, PTL

(* Nothing is read that was not there.                                     *)
Fewer ==
  /\ Ended(Left') \subseteq Ended(Left)
  /\ \A S : Count(Left', S) <= Count(Left, S)

(* A whole stanza is read.                                                 *)
OneRead ==
  /\ Stanza \in Ended(Left) /\ Ended(Left') \subseteq Ended(Left)
  /\ \A S : Count(Left', S) = Count(Left, S) - (IF Stanza \in S THEN 1 ELSE 0)

LEMMA LeftAfter ==
  ASSUME Typed, ReadsStanza, c'.in = Rest, After, toClient' = toClient
  PROVE  OneRead /\ Stanza \in Element
<1> DEFINE n == FirstEnd(Rest)
           d == Drop(Rest, n)
<1>1. /\ HasEnd(Rest) /\ Rest \in Seq(Part) /\ n \in 1..Len(Rest)
      /\ Stanza = Rest[n].el /\ Stanza \in Element
  BY StanzaIs
<1>2. Rest' = d
  BY DEF Rest, After
<1>3. /\ d \in Seq(Part) /\ Ended(d) \subseteq Ended(Rest) /\ Rest[n].el \in Ended(Rest)
      /\ \A S : Count(d, S) = Count(Rest, S) - (IF Stanza \in S THEN 1 ELSE 0)
  <2>1. n \in 0..Len(Rest)
    BY <1>1
  <2>2. Ended(d) \subseteq Ended(Rest) /\ Rest[n].el \in Ended(Rest)
    BY <1>1, <2>1, EndedAre
  <2>3. \A S : d \in Seq(Part) /\ Count(d, S) = Count(Rest, S) - (IF Rest[n].el \in S THEN 1 ELSE 0)
    BY <1>1, CountFirst
  <2> QED BY <1>1, <2>2, <2>3
<1> HIDE DEF n, d
<1>4. toClient \in Seq(Part) /\ Left' = d \o toClient
  BY <1>2 DEF Typed, Left
<1>5. /\ Ended(Left') = Ended(d) \cup Ended(toClient)
      /\ \A S : Count(Left', S) = Count(d, S) + Count(toClient, S)
  BY <1>3, <1>4, EndedAre, CountConcat
<1>6. /\ Ended(Left) = Ended(Rest) \cup Ended(toClient)
      /\ \A S : /\ Count(Left, S) = Count(Rest, S) + Count(toClient, S)
                /\ Count(Left, S) \in Nat /\ Count(toClient, S) \in Nat /\ Count(Rest, S) \in Nat
  BY LeftIs
<1>7. ASSUME NEW S PROVE Count(Left', S) = Count(Left, S) - (IF Stanza \in S THEN 1 ELSE 0)
  BY <1>3, <1>5, <1>6
<1> QED BY <1>1, <1>3, <1>5, <1>6, <1>7 DEF OneRead

LEMMA LeftSame ==
  ASSUME Typed, toClient' = toClient,
         (c'.in = Rest /\ c'.i = 0) \/ (c'.in = c.in /\ c'.i = c.i)
  PROVE  Left' = Left /\ Fewer
<1>1. Rest \in Seq(Part)
  BY RestIs
<1>2. Drop(Rest, 0) = Rest
  <2>1. /\ Drop(Rest, 0) \in Seq(Part) /\ Len(Drop(Rest, 0)) = Len(Rest) - 0
        /\ \A j \in 1..(Len(Rest) - 0) : Drop(Rest, 0)[j] = Rest[j + 0]
    <3>1. 0 \in 0..Len(Rest)
      BY <1>1
    <3> QED BY <1>1, <3>1, DropIs
  <2>2. Len(Drop(Rest, 0)) = Len(Rest) /\ \A j \in 1..Len(Rest) : Drop(Rest, 0)[j] = Rest[j]
    BY <1>1, <2>1
  <2> QED BY <1>1, <2>1, <2>2, SeqEqual
<1>3. Rest' = Rest
  BY <1>2 DEF Rest
<1>4. Left' = Left
  BY <1>3 DEF Left
<1>5. \A S : Count(Left, S) \in Nat
  BY LeftIs
<1> QED BY <1>4, <1>5 DEF Fewer

(* The parser goes on, or forgets its input.                               *)
LEMMA LeftSkipped ==
  ASSUME Typed, toClient' = toClient,
         \/ c'.in = <<>> /\ c'.i = 0
         \/ c'.in = c.in /\ c'.i \in c.i..Len(c.in)
  PROVE  Fewer /\ (c'.in = <<>> => Left' = toClient)
<1>1. c.in \in Seq(Part) /\ c.i \in 0..Len(c.in) /\ Rest \in Seq(Part) /\ toClient \in Seq(Part)
  BY RestIs DEF Typed, ClientOK
<1>2. /\ Ended(Left) = Ended(Rest) \cup Ended(toClient)
      /\ \A S : /\ Count(Left, S) = Count(Rest, S) + Count(toClient, S)
                /\ Count(Left, S) \in Nat /\ Count(toClient, S) \in Nat /\ Count(Rest, S) \in Nat
  BY LeftIs
<1>3. CASE c'.in = <<>> /\ c'.i = 0
  <2>1. Drop(<<>>, 0) = <<>>
    <3>1. <<>> \in Seq(Part) /\ 0 \in 0..Len(<<>>)
      OBVIOUS
    <3>2. Drop(<<>>, 0) \in Seq(Part) /\ Len(Drop(<<>>, 0)) = Len(<<>>) - 0
      BY <3>1, DropIs, Zenon
    <3> QED BY <3>2
  <2>2. Left' = toClient
    BY <1>1, <1>3, <2>1 DEF Left, Rest
  <2> QED BY <1>2, <2>2 DEF Fewer
<1>4. CASE c'.in = c.in /\ c'.i \in c.i..Len(c.in)
  <2> DEFINE n == c'.i - c.i
             d == Drop(c.in, c'.i)
  <2>1. n \in 0..Len(Rest) /\ c'.i \in 0..Len(c.in) /\ Len(Rest) = Len(c.in) - c.i
    <3>1. Len(Rest) = Len(c.in) - c.i /\ Len(c.in) \in Nat /\ c.i \in Nat /\ c'.i \in Int
      BY <1>1, <1>4, RestIs
    <3> QED BY <1>1, <1>4, <3>1
  <2>2. d = Drop(Rest, n)
    BY <1>1, <1>4, DropAgain DEF Rest
  <2>3. Rest' = d
    BY <1>4 DEF Rest
  <2>4. d \in Seq(Part) /\ Ended(d) \subseteq Ended(Rest)
    BY <1>1, <2>1, <2>2, DropIs, EndedAre
  <2>5. \A S : Count(d, S) <= Count(Rest, S)
    <3> TAKE S
    <3>1. Count(Rest, S) = Count(SubSeq(Rest, 1, n), S) + Count(Drop(Rest, n), S)
      BY <1>1, <2>1, CountSplit
    <3>2. SubSeq(Rest, 1, n) \in Seq(Part)
      BY <1>1, <2>1, FrontIs
    <3>3. Count(SubSeq(Rest, 1, n), S) \in Nat /\ Count(d, S) \in Nat
      BY <2>4, <3>2, CountIs, Zenon
    <3> HIDE DEF d, n
    <3> QED BY <2>2, <3>1, <3>3
  <2> HIDE DEF d
  <2>6. Left' = d \o toClient
    BY <2>3 DEF Left
  <2>7. Ended(Left') = Ended(d) \cup Ended(toClient)
        /\ \A S : Count(Left', S) = Count(d, S) + Count(toClient, S) /\ Count(d, S) \in Nat
    <3>1. Ended(d \o toClient) = Ended(d) \cup Ended(toClient)
      BY <1>1, <2>4, EndedAre
    <3>2. ASSUME NEW S
          PROVE  Count(d \o toClient, S) = Count(d, S) + Count(toClient, S) /\ Count(d, S) \in Nat
      BY <1>1, <2>4, CountConcat, CountIs
    <3> QED BY <2>6, <3>1, <3>2
  <2>8. Fewer
    BY <1>2, <2>4, <2>5, <2>7 DEF Fewer
  <2>9. c'.in = <<>> => Left' = toClient
    <3> SUFFICES ASSUME c'.in = <<>> PROVE Left' = toClient
      OBVIOUS
    <3>1. Len(Rest) = 0 /\ n = 0
      BY <1>1, <1>4, <2>1
    <3>2. Len(d) = 0
      <4>1. \A q \in Seq(Part) : \A k \in 0..Len(q) : Len(Drop(q, k)) = Len(q) - k
        BY DropIs
      <4> HIDE DEF n
      <4>2. Len(Drop(Rest, n)) = Len(Rest) - n
        BY <1>1, <2>1, <4>1
      <4> QED BY <2>2, <3>1, <4>2
    <3>3. d = <<>>
      BY <2>4, <3>2
    <3> QED BY <1>1, <2>6, <3>3
  <2> QED BY <2>8, <2>9
<1> QED BY <1>3, <1>4

(* A read moves parts into the input, and the client's side is the same.   *)
LEMMA LeftReceived ==
  ASSUME Typed, NEW n \in 1..Len(toClient), c'.in = c.in \o SubSeq(toClient, 1, n), c'.i = c.i,
         toClient' = Drop(toClient, n)
  PROVE  Left' = Left
<1> DEFINE f == SubSeq(toClient, 1, n)
           d == Drop(toClient, n)
<1>1. c.in \in Seq(Part) /\ c.i \in 0..Len(c.in) /\ Rest \in Seq(Part) /\ toClient \in Seq(Part)
  BY RestIs DEF Typed, ClientOK
<1>2. n \in 0..Len(toClient)
  BY <1>1
<1>3. f \in Seq(Part) /\ d \in Seq(Part) /\ toClient = f \o d
  BY <1>1, <1>2, FrontIs, DropIs, CountSplit, Zenon
<1> HIDE DEF f, d
<1>4. Drop(c.in \o f, c.i) = Rest \o f
  BY <1>1, <1>3, DropConcat, Zenon DEF Rest
<1>5. Rest' = Rest \o f /\ toClient' = d
  BY <1>4 DEF Rest, f, d
<1>6. (Rest \o f) \o d = Rest \o (f \o d)
  BY <1>1, <1>3, Associates, ZenonT(60)
<1>7. Left' = (Rest \o f) \o d /\ Left = Rest \o (f \o d)
  BY <1>3, <1>5 DEF Left
<1> QED BY <1>6, <1>7

(* What the server handles as stanzas, and what the client counts.         *)
Stanzas == {e \in Element : e.name \in {"presence", "iq"}}

Countable == {e \in Element : e.name = "message" \/ (e.name = "iq" /\ e.child = "none")}

Streams == {e \in Element : e.name = "stream"}

(* The request for acknowledgements ends before any stanza does.           *)
EnableFirst(s) ==
  \E h \in DOMAIN s :
    /\ s[h].last /\ s[h].el.name = "enable"
    /\ \A j \in 1..(h - 1) : s[j].last => s[j].el \notin Stanzas

LEMMA EnableStays ==
  ASSUME NEW s \in Seq(Part), NEW t \in Seq(Part)
  PROVE  /\ EnableFirst(s) => EnableFirst(s \o t)
         /\ Count(s, Stanzas) = 0 /\ EnableFirst(t) => EnableFirst(s \o t)
<1>1. /\ s \o t \in Seq(Part) /\ Len(s \o t) = Len(s) + Len(t)
      /\ \A j \in 1..(Len(s) + Len(t)) :
           (s \o t)[j] = IF j <= Len(s) THEN s[j] ELSE t[j - Len(s)]
  BY ConcatProperties
<1>2. Len(s) \in Nat /\ Len(t) \in Nat
  OBVIOUS
<1>3. ASSUME EnableFirst(s) PROVE EnableFirst(s \o t)
  <2>1. PICK h \in DOMAIN s :
          /\ s[h].last /\ s[h].el.name = "enable"
          /\ \A j \in 1..(h - 1) : s[j].last => s[j].el \notin Stanzas
    BY <1>3 DEF EnableFirst
  <2>2. h \in DOMAIN (s \o t) /\ \A j \in 1..h : (s \o t)[j] = s[j]
    BY <1>1, <1>2
  <2>3. /\ (s \o t)[h].last /\ (s \o t)[h].el.name = "enable"
        /\ \A j \in 1..(h - 1) : (s \o t)[j].last => (s \o t)[j].el \notin Stanzas
    BY <2>1, <2>2
  <2> QED BY <2>2, <2>3 DEF EnableFirst
<1>4. ASSUME Count(s, Stanzas) = 0, EnableFirst(t) PROVE EnableFirst(s \o t)
  <2>1. PICK h \in DOMAIN t :
          /\ t[h].last /\ t[h].el.name = "enable"
          /\ \A j \in 1..(h - 1) : t[j].last => t[j].el \notin Stanzas
    BY <1>4 DEF EnableFirst
  <2>2. \A j \in 1..Len(s) : s[j].last => s[j].el \notin Stanzas
    <3>1. Ended(s) \cap Stanzas = {}
      BY <1>4, CountIs
    <3> QED BY <3>1 DEF Ended
  <2> DEFINE g == h + Len(s)
  <2>3. g \in DOMAIN (s \o t) /\ (s \o t)[g] = t[h]
    BY <1>1, <1>2
  <2>4. \A j \in 1..(g - 1) : (s \o t)[j].last => (s \o t)[j].el \notin Stanzas
    <3> TAKE j \in 1..(g - 1)
    <3>1. CASE j <= Len(s)
      BY <1>1, <1>2, <2>2, <3>1
    <3>2. CASE ~ (j <= Len(s))
      <4>1. j - Len(s) \in 1..(h - 1) /\ (s \o t)[j] = t[j - Len(s)]
        BY <1>1, <1>2, <3>2
      <4> QED BY <2>1, <4>1
    <3> QED BY <3>1, <3>2
  <2> HIDE DEF g
  <2> QED BY <2>1, <2>3, <2>4, Zenon DEF EnableFirst
<1> QED BY <1>3, <1>4

LEMMA EnableLeaves ==
  ASSUME NEW s \in Seq(Part), NEW t \in Seq(Part), HasEnd(s), EnableFirst(s \o t)
  PROVE  /\ s[FirstEnd(s)].el \notin Stanzas
         /\ s[FirstEnd(s)].el.name # "enable" => EnableFirst(Drop(s, FirstEnd(s)) \o t)
<1> DEFINE n == FirstEnd(s)
           d == Drop(s, n)
           u == s \o t
           v == d \o t
<1>1. n \in 1..Len(s) /\ s[n].last /\ \A h \in 1..(n - 1) : ~ s[h].last
  BY FirstEndIs
<1> HIDE DEF n
<1>2. /\ u \in Seq(Part) /\ Len(u) = Len(s) + Len(t)
      /\ \A j \in 1..(Len(s) + Len(t)) : u[j] = IF j <= Len(s) THEN s[j] ELSE t[j - Len(s)]
  BY ConcatProperties
<1>3. d \in Seq(Part) /\ Len(d) = Len(s) - n /\ \A j \in 1..(Len(s) - n) : d[j] = s[j + n]
  BY <1>1, DropIs
<1>4. EnableFirst(u)
  OBVIOUS
<1> HIDE DEF u, d
<1>5. /\ v \in Seq(Part) /\ Len(v) = Len(d) + Len(t)
      /\ \A j \in 1..(Len(d) + Len(t)) : v[j] = IF j <= Len(d) THEN d[j] ELSE t[j - Len(d)]
  BY <1>3, ConcatProperties
<1> HIDE DEF v
<1>6. Len(s) \in Nat /\ Len(t) \in Nat /\ n \in Nat
  BY <1>1
<1>7. PICK h \in DOMAIN u :
        /\ u[h].last /\ u[h].el.name = "enable"
        /\ \A j \in 1..(h - 1) : u[j].last => u[j].el \notin Stanzas
  BY <1>4 DEF EnableFirst
<1>8. h \in 1..(Len(s) + Len(t)) /\ u[n] = s[n] /\ \A j \in 1..n : u[j] = s[j]
  BY <1>1, <1>2, <1>6
<1>9. h >= n
  BY <1>1, <1>6, <1>7, <1>8
<1>10. s[n].el \notin Stanzas
  <2>1. CASE h = n
    BY <1>7, <1>8, <2>1 DEF Stanzas
  <2>2. CASE h > n
    <3>1. n \in 1..(h - 1)
      BY <1>1, <1>6, <1>8, <2>2
    <3> QED BY <1>1, <1>7, <1>8, <3>1
  <2> QED BY <1>6, <1>8, <1>9, <2>1, <2>2
<1>11. ASSUME s[n].el.name # "enable" PROVE EnableFirst(v)
  <2>1. h > n
    BY <1>6, <1>7, <1>8, <1>9, <1>11
  <2>2. \A j \in 1..Len(v) : v[j] = u[j + n]
    <3> TAKE j \in 1..Len(v)
    <3>1. j \in 1..(Len(d) + Len(t)) /\ j + n \in 1..(Len(s) + Len(t)) /\ Len(d) = Len(s) - n
      BY <1>3, <1>5, <1>6
    <3>2. CASE j <= Len(d)
      <4>1. j \in 1..(Len(s) - n) /\ j + n <= Len(s)
        BY <1>6, <3>1, <3>2
      <4> QED BY <1>2, <1>3, <1>5, <3>1, <3>2, <4>1
    <3>3. CASE ~ (j <= Len(d))
      <4>1. ~ (j + n <= Len(s)) /\ (j + n) - Len(s) = j - Len(d)
        BY <1>6, <3>1, <3>3
      <4> QED BY <1>2, <1>5, <3>1, <3>3, <4>1, Zenon
    <3> QED BY <3>2, <3>3
  <2> DEFINE g == h - n
  <2>3. g \in DOMAIN v /\ g + n = h /\ Len(v) = Len(s) + Len(t) - n
    BY <1>3, <1>5, <1>6, <1>8, <2>1
  <2>4. v[g] = u[h]
    BY <2>2, <2>3
  <2>5. ASSUME NEW j \in 1..(g - 1) PROVE j \in 1..Len(v) /\ j + n \in 1..(h - 1)
    <3>1. h \in Nat /\ n \in Nat /\ n >= 1
      BY <1>1, <1>8
    <3>2. h - n \in 1..Len(v) /\ Len(v) \in Nat
      BY <1>5, <2>3
    <3>3. j \in 1..(h - n - 1)
      OBVIOUS
    <3> QED
      BY <3>1, <3>2, <3>3
  <2>6. \A j \in 1..(g - 1) : v[j].last => v[j].el \notin Stanzas
    BY <1>7, <2>2, <2>5
  <2> HIDE DEF g
  <2> QED BY <1>7, <2>3, <2>4, <2>6 DEF EnableFirst
<1> QED BY <1>10, <1>11 DEF n, v, d

(* An element is put behind what is sent, whole or cut short.              *)
Behind(e) ==
  /\ \A S : Count(Sent', S) \in {Count(Sent, S), Count(Sent, S) + 1}
  /\ \A S : e \notin S => Count(Sent', S) = Count(Sent, S)
  /\ Ended(Sent') \subseteq Ended(Sent) \cup {e} /\ Going' \subseteq Going \cup {e}
  /\ EnableFirst(Sent) => EnableFirst(Sent')

LEMMA SentBehind ==
  ASSUME Typed, NEW e \in Element, toServer' = toServer, c'.out = Appended(c.out, e)
  PROVE  /\ Behind(e)
         /\ Len(c.out) + OutSize <= OutCap =>
              /\ \A S : e \in S => Count(Sent', S) = Count(Sent, S) + 1
              /\ e.name = "enable" /\ Count(Sent, Stanzas) = 0 => EnableFirst(Sent')
<1>1. c.out \in Seq(Part) /\ Len(c.out) <= OutCap /\ toServer \in Seq(Part)
  BY DEF Typed, ClientOK
<1>2. PICK k \in 0..OutSize :
        /\ Appended(c.out, e) = c.out \o SubSeq(Parts(e, OutSize), 1, k)
        /\ Len(c.out) + OutSize <= OutCap => k = OutSize
  BY <1>1, AppendedBehind, Zenon
<1> DEFINE f == SubSeq(Parts(e, OutSize), 1, k)
<1>3. OutSize \in Nat /\ OutSize > 0 /\ k \in Nat
  BY DEF XmppAssumption
<1>4. /\ f \in Seq(Part) /\ Len(f) = k
      /\ \A j \in 1..k : f[j].el = e /\ (f[j].last <=> j = OutSize)
  <2>1. /\ Parts(e, OutSize) \in Seq(Part) /\ Len(Parts(e, OutSize)) = OutSize
        /\ \A j \in 1..OutSize : Parts(e, OutSize)[j].el = e
                                 /\ (Parts(e, OutSize)[j].last <=> j = OutSize)
    BY <1>3, PartsIs
  <2>2. f \in Seq(Part) /\ Len(f) = k /\ \A j \in 1..k : f[j] = Parts(e, OutSize)[j]
    BY <2>1, FrontIs
  <2> QED BY <1>3, <2>1, <2>2
<1>5. c'.out = c.out \o f
  BY <1>2
<1> HIDE DEF f
<1>6. Sent' = Sent \o f /\ Sent \in Seq(Part)
  <2>1. (toServer \o c.out) \o f = toServer \o (c.out \o f)
    BY <1>1, <1>4, Associates, ZenonT(60)
  <2>2. Sent' = toServer \o (c.out \o f)
    BY <1>5 DEF Sent
  <2> QED BY <2>1, <2>2, SentIs DEF Sent
<1>7. \A S : Count(Sent', S) = Count(Sent, S) + Count(f, S) /\ Count(Sent, S) \in Nat
  BY <1>4, <1>6, CountConcat, CountIs
<1>8. ASSUME NEW S PROVE Count(f, S) = IF k = OutSize /\ e \in S THEN 1 ELSE 0
  <2>1. \A j \in 1..(Len(f) - 1) : ~ f[j].last
    BY <1>3, <1>4
  <2>2. k > 0 => f[k].el = e /\ (f[k].last <=> k = OutSize)
    BY <1>3, <1>4
  <2> QED BY <1>3, <1>4, <2>1, <2>2, CountOne
<1>9. Ended(Sent') \subseteq Ended(Sent) \cup {e}
  <2>1. Ended(f) \subseteq {e}
    BY <1>4 DEF Ended
  <2>2. Ended(Sent') = Ended(Sent) \cup Ended(f)
    BY <1>4, <1>6, EndedAre
  <2> QED BY <2>1, <2>2
<1>10. Going' \subseteq Going \cup {e}
  <2>1. Elements(f) \subseteq {e}
    BY <1>4 DEF Elements
  <2>2. Elements(c'.out) = Elements(c.out) \cup Elements(f)
    BY <1>1, <1>4, <1>5, ConcatElements
  <2> QED BY <2>1, <2>2 DEF Going
<1>11. EnableFirst(Sent) => EnableFirst(Sent')
  BY <1>4, <1>6, EnableStays
<1>12. Behind(e)
  BY <1>7, <1>8, <1>9, <1>10, <1>11 DEF Behind
<1>13. ASSUME Len(c.out) + OutSize <= OutCap
       PROVE  /\ \A S : e \in S => Count(Sent', S) = Count(Sent, S) + 1
              /\ e.name = "enable" /\ Count(Sent, Stanzas) = 0 => EnableFirst(Sent')
  <2>1. k = OutSize
    BY <1>2, <1>13
  <2>2. ASSUME NEW S, e \in S PROVE Count(Sent', S) = Count(Sent, S) + 1
    BY <1>7, <1>8, <2>1, <2>2
  <2>3. ASSUME e.name = "enable", Count(Sent, Stanzas) = 0 PROVE EnableFirst(Sent')
    <3>1. k \in DOMAIN f /\ f[k].last /\ f[k].el.name = "enable"
          /\ \A j \in 1..(k - 1) : f[j].last => f[j].el \notin Stanzas
      BY <1>3, <1>4, <2>1, <2>3
    <3>2. EnableFirst(f)
      BY <3>1 DEF EnableFirst
    <3> QED BY <1>4, <1>6, <2>3, <3>2, EnableStays
  <2> QED BY <2>2, <2>3
<1> QED BY <1>12, <1>13

LEMMA SentSame ==
  ASSUME toServer' = toServer, c'.out = c.out
  PROVE  Sent' = Sent /\ Going' = Going
BY DEF Sent, Going

(* A write moves parts of the output to the server.                        *)
LEMMA SentWritten ==
  ASSUME Typed, NEW n \in 1..Len(c.out), c'.out = Drop(c.out, n),
         toServer' = toServer \o SubSeq(c.out, 1, n)
  PROVE  Sent' = Sent /\ Going' \subseteq Going
<1> DEFINE f == SubSeq(c.out, 1, n)
           d == Drop(c.out, n)
<1>1. c.out \in Seq(Part) /\ toServer \in Seq(Part)
  BY DEF Typed, ClientOK
<1>2. n \in 0..Len(c.out)
  BY <1>1
<1>3. /\ f \in Seq(Part) /\ d \in Seq(Part) /\ c.out = f \o d
      /\ Elements(f) \subseteq Elements(c.out) /\ Elements(d) \subseteq Elements(c.out)
  BY <1>1, <1>2, FrontIs, DropIs, CountSplit, ElementsAre, Zenon
<1>4. toServer' = toServer \o f /\ c'.out = d
  OBVIOUS
<1> HIDE DEF f, d
<1>5. Sent' = Sent
  <2>2. (toServer \o f) \o d = toServer \o (f \o d)
    BY <1>1, <1>3, Associates, ZenonT(60)
  <2>3. Sent' = (toServer \o f) \o d
    BY <1>4 DEF Sent
  <2>4. Sent = toServer \o (f \o d)
    BY <1>3 DEF Sent
  <2> QED BY <2>2, <2>3, <2>4
<1>6. Elements(toServer') = Elements(toServer) \cup Elements(f)
  BY <1>1, <1>3, <1>4, ConcatElements, Zenon
<1> QED BY <1>3, <1>4, <1>5, <1>6 DEF Going

(* The server reads an element.                                            *)
Heard ==
  /\ Request \in Ended(Sent) /\ Request \in Element /\ Request \in Going
  /\ Ended(Sent') \subseteq Ended(Sent) /\ Going' \subseteq Going
  /\ \A S : Count(Sent', S) = Count(Sent, S) - (IF Request \in S THEN 1 ELSE 0)
  /\ EnableFirst(Sent) => /\ Request \notin Stanzas
                          /\ Request.name # "enable" => EnableFirst(Sent')

LEMMA ServerHears ==
  ASSUME Typed, HasEnd(toServer), c' = c, toServer' = Drop(toServer, FirstEnd(toServer))
  PROVE  Heard
<1> DEFINE n == FirstEnd(toServer)
           d == Drop(toServer, n)
<1>1. c.out \in Seq(Part) /\ toServer \in Seq(Part)
  BY DEF Typed, ClientOK
<1>2. n \in 1..Len(toServer) /\ toServer[n] \in Part /\ Request = toServer[n].el
  BY <1>1, FirstEndIs DEF Request
<1>3. /\ Request \in Element /\ Request \in Ended(toServer)
      /\ Ended(toServer) \subseteq Elements(toServer)
  BY <1>1, <1>2, EndedAre, Zenon DEF Part, Request
<1>4. n \in 0..Len(toServer)
  BY <1>1, <1>2
<1>5. /\ d \in Seq(Part) /\ Ended(d) \subseteq Ended(toServer)
      /\ Elements(d) \subseteq Elements(toServer)
  BY <1>1, <1>4, DropIs, EndedAre, ElementsAre
<1>6. \A S : Count(d, S) = Count(toServer, S) - (IF Request \in S THEN 1 ELSE 0)
  BY <1>1, <1>2, CountFirst
<1>7. EnableFirst(toServer \o c.out) =>
        Request \notin Stanzas /\ (Request.name # "enable" => EnableFirst(d \o c.out))
  BY <1>1, <1>2, EnableLeaves
<1>8. Sent' = d \o c.out /\ toServer' = d
  BY DEF Sent
<1> HIDE DEF d, n
<1>9. /\ Ended(Sent) = Ended(toServer) \cup Ended(c.out)
      /\ \A S : /\ Count(Sent, S) = Count(toServer, S) + Count(c.out, S)
                /\ Count(Sent, S) \in Nat /\ Count(toServer, S) \in Nat
  BY SentIs
<1>10. Ended(Sent') = Ended(d) \cup Ended(c.out)
  BY <1>1, <1>5, <1>8, EndedAre
<1>11. \A S : Count(Sent', S) = Count(d, S) + Count(c.out, S) /\ Count(c.out, S) \in Nat
  BY <1>1, <1>5, <1>8, CountConcat, CountIs
<1>12. ASSUME NEW S PROVE Count(Sent', S) = Count(Sent, S) - (IF Request \in S THEN 1 ELSE 0)
  BY <1>6, <1>9, <1>11
<1>13. EnableFirst(Sent) => /\ Request \notin Stanzas
                            /\ Request.name # "enable" => EnableFirst(Sent')
  BY <1>7, <1>8 DEF Sent
<1>14. Going' \subseteq Going /\ Request \in Going
  BY <1>3, <1>5, <1>8 DEF Going
<1>15. Request \in Ended(Sent) /\ Ended(Sent') \subseteq Ended(Sent)
  BY <1>3, <1>5, <1>9, <1>10
<1> QED BY <1>3, <1>12, <1>13, <1>14, <1>15 DEF Heard

(* The server sends an element.                                            *)
Comes(e) ==
  /\ Ended(Left') \subseteq Ended(Left) \cup {e} /\ Coming' \subseteq Coming \cup {e}
  /\ \A S : Count(Left', S) = Count(Left, S) + (IF e \in S THEN 1 ELSE 0)

LEMMA ServerSends ==
  ASSUME Typed, c' = c, NEW e \in Element, NEW n \in Nat, n > 0,
         toClient' = toClient \o Parts(e, n)
  PROVE  Comes(e)
<1> DEFINE p == Parts(e, n)
<1>1. Rest \in Seq(Part) /\ toClient \in Seq(Part) /\ c.in \in Seq(Part)
  BY RestIs DEF Typed, ClientOK
<1>2. /\ p \in Seq(Part) /\ Ended(p) \subseteq {e} /\ Elements(p) \subseteq {e}
      /\ \A S : Count(p, S) = IF e \in S THEN 1 ELSE 0
  <2>1. p \in Seq(Part) /\ Ended(p) \subseteq {e}
    BY PartsIs, EndedAre
  <2>2. Elements(p) \subseteq {e}
    BY <2>1, ElementsAre
  <2>3. 0 \in 0..n
    OBVIOUS
  <2>4. \A S : Count(p, S) = IF n > 0 /\ e \in S THEN 1 ELSE 0
    BY <2>3, CountParts
  <2> QED BY <2>1, <2>2, <2>4
<1>3. toClient' = toClient \o p
  OBVIOUS
<1> HIDE DEF p
<1>4. Left' = Left \o p
  <2>1. p \in Seq(Part)
    BY <1>2
  <2>2. Rest' = Rest
    BY DEF Rest
  <2>3. (Rest \o toClient) \o p = Rest \o (toClient \o p)
    BY <1>1, <2>1, Associates, ZenonT(60)
  <2>4. Left' = Rest \o (toClient \o p)
    BY <1>3, <2>2 DEF Left
  <2> QED BY <2>3, <2>4 DEF Left
<1>5. Left \in Seq(Part)
  BY LeftIs
<1>6. /\ Ended(Left') = Ended(Left) \cup Ended(p)
      /\ Elements(toClient') = Elements(toClient) \cup Elements(p)
  BY <1>1, <1>2, <1>3, <1>4, <1>5, EndedAre, ConcatElements
<1>7. \A S : Count(Left', S) = Count(Left, S) + Count(p, S)
  BY <1>2, <1>4, <1>5, CountConcat
<1>8. Coming' \subseteq Coming \cup {e}
  BY <1>2, <1>6 DEF Coming
<1> QED BY <1>2, <1>6, <1>7, <1>8 DEF Comes

-----------------------------------------------------------------------------
(* Until the resource is bound, the client and the server take turns: at   *)
(* most one element is under way, and none when a stream is to be opened.  *)
(* Only while the full buffer keeps the stream from being opened (EMEM)    *)
(* may the parser stand before what it has already read.                   *)
Calm == c.state # "INIT" \/ CanFlush(c)

Done == {"BIND", "ACCEPTSTANZA", "ENDSTREAM", "UNINIT"}

Silent == {"SASLPWD", "SASLPLAIN", "ENDSTREAM"}

Turns ==
  /\ ~ server.bound /\ Calm => Count(Sent, Element) + Count(Left, Element) <= 1
  /\ c.state = "INIT" =>
       ~ server.bound /\ Count(Sent, Element) = 0 /\ Count(toClient, Element) = 0
  /\ c.state = "INIT" /\ CanFlush(c) => Count(Left, Element) = 0
  /\ ~ server.bound /\ c.state \in Silent =>
       Count(Sent, Element) = 0 /\ Count(Left, Element) = 0
  /\ server.bound => c.state \in Done /\ Count(Sent, Streams) = 0
  /\ (\E e \in Going : e.name = "bind") => c.state \in Done

LEMMA FewerTurns ==
  ASSUME Typed, Typed', Turns, Sent' = Sent, Going' \subseteq Going, Fewer,
         server'.bound = server.bound, c'.state = c.state,
         Count(toClient', Element) <= Count(toClient, Element),
         c.state = "INIT" /\ Len(c'.in) < InCap => CanFlush(c) \/ Left' = toClient
  PROVE  Turns'
<1>1. /\ Count(Left, Element) \in Nat /\ Count(toClient, Element) \in Nat
      /\ Count(Sent, Element) \in Nat
  BY LeftIs, SentIs
<1>2. Count(Left', Element) \in Nat /\ Count(toClient', Element) \in Nat
  BY SidesNext DEF Sides
<1>3. Count(Left', Element) <= Count(Left, Element)
  BY DEF Fewer
<1>4. server.bound \in BOOLEAN
  BY DEF Typed, ServerOK, ServerFlags
<1>5. c.state = "INIT" /\ Len(c'.in) < InCap =>
        Count(Left', Element) = 0 /\ Count(Sent, Element) = 0
  BY <1>1, <1>2, <1>3 DEF Turns
<1>6. ~ server'.bound /\ Calm' => Count(Sent', Element) + Count(Left', Element) <= 1
  BY <1>1, <1>2, <1>3, <1>5 DEF Turns, Calm, CanFlush
<1>7. c'.state = "INIT" =>
        ~ server'.bound /\ Count(Sent', Element) = 0 /\ Count(toClient', Element) = 0
  BY <1>1, <1>2 DEF Turns
<1>8. c'.state = "INIT" /\ CanFlush(c)' => Count(Left', Element) = 0
  BY <1>5 DEF CanFlush
<1>9. ~ server'.bound /\ c'.state \in Silent =>
        Count(Sent', Element) = 0 /\ Count(Left', Element) = 0
  BY <1>1, <1>2, <1>3 DEF Turns
<1>10. server'.bound => c'.state \in Done /\ Count(Sent', Streams) = 0
  BY DEF Turns
<1>11. (\E e \in Going' : e.name = "bind") => c'.state \in Done
  BY DEF Turns
<1> QED BY <1>6, <1>7, <1>8, <1>9, <1>10, <1>11 DEF Turns

LEMMA ReadTurns ==
  ASSUME Typed, Typed', Turns, ReadsStanza, OneRead, server' = server,
         c.state \in Done => c'.state \in Done,
         \/ Sent' = Sent /\ Going' \subseteq Going
         \/ \E e \in Element : /\ Behind(e) /\ e \notin Streams
                               /\ e.name = "bind" => c'.state \in Done
                               /\ c'.state \notin Silent \cup {"INIT"}
  PROVE  Turns'
<1>1. Count(Left, Element) \in Nat /\ Count(Sent, Element) \in Nat
  BY LeftIs, SentIs
<1>2. Count(Left', Element) \in Nat /\ Count(toClient', Element) \in Nat
      /\ Count(Left', Element) = Count(Rest', Element) + Count(toClient', Element)
      /\ Count(Rest', Element) \in Nat /\ Count(Sent', Element) \in Nat
  BY SidesNext DEF Sides
<1>3. server.bound \in BOOLEAN
  BY DEF Typed, ServerOK, ServerFlags
<1>4. Calm /\ c.state # "INIT" /\ c.state # "ENDSTREAM"
  BY DEF ReadsStanza, Reads, Calm
<1>5. Count(Left', Element) = Count(Left, Element) - 1
  <2>1. Stanza \in Element
    BY StanzaIs
  <2> QED BY <2>1 DEF OneRead
<1>6. ~ server.bound => Count(Sent, Element) = 0 /\ Count(Left', Element) = 0
  BY <1>1, <1>2, <1>4, <1>5 DEF Turns
<1>7. CASE Sent' = Sent /\ Going' \subseteq Going
  <2>1. ~ server'.bound => Count(Sent', Element) = 0 /\ Count(Left', Element) = 0
    BY <1>6, <1>7
  <2>2. c'.state = "INIT" => ~ server'.bound
    BY <1>3 DEF Turns, Done
  <2>3. ~ server'.bound => Count(toClient', Element) = 0
    BY <1>2, <2>1
  <2>4. server'.bound => c'.state \in Done /\ Count(Sent', Streams) = 0
    BY <1>7 DEF Turns
  <2>5. (\E e \in Going' : e.name = "bind") => c'.state \in Done
    BY <1>7 DEF Turns
  <2> QED BY <1>3, <2>1, <2>2, <2>3, <2>4, <2>5 DEF Turns
<1>8. CASE \E e \in Element : /\ Behind(e) /\ e \notin Streams
                              /\ e.name = "bind" => c'.state \in Done
                              /\ c'.state \notin Silent \cup {"INIT"}
  <2>1. PICK e \in Element : /\ Behind(e) /\ e \notin Streams
                             /\ e.name = "bind" => c'.state \in Done
                             /\ c'.state \notin Silent \cup {"INIT"}
    BY <1>8
  <2>2. /\ Count(Sent', Element) <= Count(Sent, Element) + 1
        /\ Count(Sent', Streams) = Count(Sent, Streams) /\ Going' \subseteq Going \cup {e}
    <3>1. Count(Sent', Element) \in {Count(Sent, Element), Count(Sent, Element) + 1}
      BY <2>1 DEF Behind
    <3> QED BY <1>1, <2>1, <3>1 DEF Behind
  <2>3. ~ server'.bound => Count(Sent', Element) + Count(Left', Element) <= 1
    BY <1>1, <1>2, <1>6, <2>2
  <2>4. server'.bound => c'.state \in Done /\ Count(Sent', Streams) = 0
    BY <2>2 DEF Turns
  <2>5. (\E x \in Going' : x.name = "bind") => c'.state \in Done
    BY <2>1, <2>2 DEF Turns
  <2> QED BY <2>1, <2>3, <2>4, <2>5 DEF Turns
<1> QED BY <1>7, <1>8

(* What a stanza read makes of what is sent and what is left.              *)
LEMMA TookIs ==
  ASSUME Typed, xmppIterate
  PROVE  /\ \A fs : ReadsStanza /\ Took(fs) /\ After => OneRead
         /\ \A fs : Took(fs) /\ Before => Left' = Left /\ Fewer
         /\ Moved => Left' = Left /\ Fewer
         /\ c'.out = c.out => Sent' = Sent /\ Going' = Going
         /\ \A e \in Element : c.out = <<>> /\ c'.out = Appended(<<>>, e) => Behind(e)
         /\ server' = server /\ toClient' = toClient
<1>1. UNCHANGED <<server, toServer, toClient>>
  BY IterateIn
<1>2. \A fs : ReadsStanza /\ Took(fs) /\ After => OneRead
  BY <1>1, LeftAfter DEF Took
<1>3. \A fs : Took(fs) /\ Before => Left' = Left /\ Fewer
  BY <1>1, LeftSame DEF Took, Before
<1>4. Moved => Left' = Left /\ Fewer
  BY <1>1, LeftSame DEF Moved
<1>5. c'.out = c.out => Sent' = Sent /\ Going' = Going
  BY <1>1, SentSame
<1>6. ASSUME NEW e \in Element, c.out = <<>>, c'.out = Appended(<<>>, e) PROVE Behind(e)
  BY <1>1, <1>6, SentBehind
<1> QED BY <1>1, <1>2, <1>3, <1>4, <1>5, <1>6

LEMMA RowTurns ==
  ASSUME Typed, Typed', Turns, xmppIterate, ReadsStanza
  PROVE  /\ Moved => Turns'
         /\ \A fs : Took(fs) /\ (After \/ Before) /\ c'.out = c.out /\ c'.state = c.state => Turns'
         /\ \A fs : Took(fs) /\ After /\ c'.out = c.out /\ c.state \notin Done => Turns'
         /\ \A fs : \A e \in Element :
              /\ Took(fs) /\ After /\ c'.out = Appended(<<>>, e) /\ e.name # "stream"
              /\ e.name = "bind" => c'.state \in Done
              /\ c.state \in Done => c'.state \in Done
              /\ c'.state \notin Silent \cup {"INIT"}
              => Turns'
<1>1. c.out = <<>> /\ c.state # "INIT"
  BY StanzaIs DEF ReadsStanza, Reads
<1>2. server' = server /\ toClient' = toClient
  BY TookIs
<1>3. Count(toClient', Element) <= Count(toClient, Element)
  <2>1. Count(toClient, Element) \in Nat
    BY LeftIs
  <2> QED BY <1>2, <2>1
<1>4. ASSUME Left' = Left, Fewer, c'.out = c.out, c'.state = c.state PROVE Turns'
  <2>1. Sent' = Sent /\ Going' \subseteq Going
    BY <1>4, TookIs
  <2> QED BY <1>1, <1>2, <1>3, <1>4, <2>1, FewerTurns
<1>5. ASSUME OneRead, c'.out = c.out, c.state \in Done => c'.state \in Done PROVE Turns'
  <2>1. Sent' = Sent /\ Going' \subseteq Going
    BY <1>5, TookIs
  <2> QED BY <1>2, <1>5, <2>1, ReadTurns
<1>6. ASSUME Moved PROVE Turns'
  <2>1. c'.out = c.out /\ c'.state = c.state
    BY <1>6 DEF Moved, Alike, Fields
  <2> QED BY <1>4, <1>6, <2>1, TookIs
<1>7. ASSUME NEW fs, Took(fs), After \/ Before, c'.out = c.out, c'.state = c.state PROVE Turns'
  <2>1. CASE After
    BY <1>5, <1>7, <2>1, TookIs
  <2>2. CASE Before
    BY <1>4, <1>7, <2>2, TookIs
  <2> QED BY <1>7, <2>1, <2>2
<1>8. ASSUME NEW fs, Took(fs), After, c'.out = c.out, c.state \notin Done PROVE Turns'
  BY <1>5, <1>8, TookIs
<1>9. ASSUME NEW fs, NEW e \in Element, Took(fs), After, c'.out = Appended(<<>>, e),
             e.name # "stream", e.name = "bind" => c'.state \in Done,
             c.state \in Done => c'.state \in Done, c'.state \notin Silent \cup {"INIT"}
      PROVE  Turns'
  <2>1. OneRead
    BY <1>9, TookIs
  <2>2. Behind(e)
    BY <1>1, <1>9, TookIs
  <2>3. e \notin Streams
    BY <1>9 DEF Streams
  <2>4. \E x \in Element : /\ Behind(x) /\ x \notin Streams
                           /\ x.name = "bind" => c'.state \in Done
                           /\ c'.state \notin Silent \cup {"INIT"}
    BY <1>9, <2>2, <2>3
  <2> QED BY <1>2, <1>9, <2>1, <2>4, ReadTurns
<1> QED BY <1>6, <1>7, <1>8, <1>9

LEMMA IterateTurns ==
  ASSUME Typed, Typed', Negotiation, Turns, xmppIterate
  PROVE  Turns'
<1>1. DOMAIN c = Fields
  BY DEF Typed, ClientOK
<1>2. /\ server' = server /\ toClient' = toClient
      /\ Count(toClient', Element) <= Count(toClient, Element)
  <2>1. Count(toClient, Element) \in Nat
    BY LeftIs
  <2> QED BY <2>1, TookIs
<1>3. \A name \in Names : E(name) \in Element /\ E(name).name = name
  BY ElementIs, Zenon DEF E
<1>4. ASSUME NEW fs, NEW name \in {"starttls", "auth", "bind"}, NEW s, Said(E(name), s, fs),
             ReadsStanza, c.state = "STREAMSENT", fs \subseteq {"opts", "solved"},
             s \notin Silent \cup {"INIT"}, name = "bind" => s \in Done
      PROVE  Turns'
  <2>1. E(name) \in Element /\ E(name).name = name
    BY <1>3 DEF Names
  <2>2. c.out = <<>>
    BY <1>4, StanzaIs
  <2>3. CASE Took(fs) /\ Before /\ ret' = "EMEM"
    <3>1. c'.out = c.out /\ c'.state = c.state
      BY <1>4, <2>3 DEF Took, Alike, Fields
    <3> QED BY <1>4, <2>3, <3>1, RowTurns
  <2>4. CASE /\ Took(fs \cup {"out", "state"}) /\ After
             /\ c'.out = Appended(<<>>, E(name)) /\ c'.state = s
    <3>1. c.state \notin Done
      BY <1>4 DEF Done
    <3> QED BY <1>4, <2>1, <2>4, <3>1, RowTurns
  <2> QED BY <1>4, <2>3, <2>4 DEF Said
<1>5. ASSUME ReadsStanza, Looked \/ Moved \/ (Took({}) /\ Before) PROVE Turns'
  <2>1. CASE Moved
    BY <1>5, <2>1, RowTurns
  <2>2. CASE Took({}) /\ (After \/ Before)
    <3>1. c'.out = c.out /\ c'.state = c.state
      BY <2>2 DEF Took, Alike, Fields
    <3> QED BY <1>5, <2>2, <3>1, RowTurns
  <2> QED BY <1>5, <2>1, <2>2 DEF Looked
<1>6. ASSUME ReadsStanza, NEW fs, Took(fs), After, fs \subseteq {"state", "features"},
             c.state \notin Done
      PROVE  Turns'
  <2>1. c'.out = c.out
    BY <1>6 DEF Took, Alike, Fields
  <2> QED BY <1>6, <2>1, RowTurns
<1>7. CASE Finished \/ SendFirst
  <2>1. c' = c /\ toServer' = toServer
    BY <1>7, IterateIn DEF Finished, SendFirst
  <2>2. Sent' = Sent /\ Going' = Going /\ Fewer
    BY <1>2, <2>1, SentSame, LeftSame
  <2> QED BY <1>2, <2>1, <2>2, FewerTurns DEF CanFlush
<1>8. CASE SkipFails \/ SkipEnds \/ SkipGoesOn
  <2>1. /\ c'.state = c.state /\ c'.out = c.out
        /\ \/ c'.in = <<>> /\ c'.i = 0
           \/ c'.in = c.in /\ c'.i \in c.i..Len(c.in)
    <3>1. c.in \in Seq(Part) /\ c.i \in 0..Len(c.in)
      BY DEF Typed, ClientOK
    <3>2. Rest \in Seq(Part) /\ Len(Rest) = Len(c.in) - c.i
      BY RestIs
    <3>3. CASE SkipGoesOn
      BY <1>1, <3>3, OtherRows DEF Alike, Fields
    <3>4. CASE SkipFails
      <4>1. Alike(c, c', {"i"}) /\ c'.i = c.i + 1 /\ Rest # <<>>
        BY <1>1, <3>4, OtherRows
      <4>2. Len(Rest) > 0
        BY <3>2, <4>1
      <4> QED BY <3>1, <3>2, <4>1, <4>2 DEF Alike, Fields
    <3>5. CASE SkipEnds
      <4>1. /\ Alike(c, c', {"i", "skippingdepth", "rootclosed"})
            /\ c'.i = c.i + FirstEnd(Rest) /\ HasEnd(Rest)
        BY <1>1, <3>5, OtherRows
      <4>2. FirstEnd(Rest) \in 1..Len(Rest)
        BY <3>2, <4>1, FirstEndIs
      <4> QED BY <3>1, <3>2, <4>1, <4>2 DEF Alike, Fields
    <3> QED BY <1>8, <3>3, <3>4, <3>5
  <2>2. Fewer /\ (c'.in = <<>> => Left' = toClient)
    BY <1>2, <2>1, LeftSkipped
  <2>3. Sent' = Sent /\ Going' = Going
    BY <2>1, TookIs
  <2>4. Len(c'.in) < InCap => CanFlush(c) \/ Left' = toClient
    BY <2>1, <2>2 DEF CanFlush
  <2> QED BY <1>2, <2>1, <2>2, <2>3, <2>4, FewerTurns
<1>9. CASE Partial
  <2>1. c'.state = c.state /\ c'.out = c.out /\ c'.in = Rest /\ c'.i = 0
    BY <1>1, <1>9, OtherRows, Zenon DEF Moved, Alike, Fields
  <2>2. Fewer
    BY <1>2, <2>1, LeftSame
  <2>3. Sent' = Sent /\ Going' = Going /\ c.state # "INIT"
    BY <1>9, <2>1, TookIs DEF Partial, Reads
  <2> QED BY <1>2, <2>1, <2>2, <2>3, FewerTurns
<1>10. CASE OpenStream
  <2>1. /\ c.state = "INIT" /\ c.out = <<>> /\ ~ server.bound
        /\ Count(Sent, Element) = 0 /\ Count(toClient, Element) = 0
    BY <1>10 DEF OpenStream, Iterates, Turns
  <2>2. E("stream") \in Element /\ E("stream").name = "stream"
    BY <1>3 DEF Names
  <2>3. CASE CanFlush(c)
    <3>1. /\ c'.state = "STREAMSENT" /\ c'.out = Appended(<<>>, E("stream"))
          /\ c'.in = c.in /\ c'.i = c.i
      <4>1. ret' = "SEND" /\ "SEND" # "EMEM"
        BY <1>10, <2>3 DEF OpenStream
      <4> QED BY <1>1, <1>10, <4>1, EndRows DEF Alike, Fields
    <3>2. Behind(E("stream")) /\ Left' = Left
      BY <1>2, <2>1, <2>2, <3>1, TookIs, LeftSame
    <3>3. Count(Left', Element) = 0 /\ Count(Sent', Element) <= 1
      <4>1. Count(Sent', Element) \in {Count(Sent, Element), Count(Sent, Element) + 1}
        BY <3>2 DEF Behind
      <4> QED BY <2>1, <2>3, <3>2, <4>1 DEF Turns
    <3>4. \A e \in Going' : e.name # "bind"
      <4>1. Going' \subseteq Going \cup {E("stream")}
        BY <3>2 DEF Behind
      <4> QED BY <2>1, <2>2, <4>1 DEF Turns, Done
    <3>5. Count(Sent', Element) \in Nat
      BY SidesNext DEF Sides
    <3> QED BY <1>2, <2>1, <3>1, <3>3, <3>4, <3>5 DEF Turns, Silent
  <2>4. CASE ~ CanFlush(c)
    <3>1. c' = [c EXCEPT !.i = 0]
      BY <1>10, <2>4 DEF OpenStream
    <3>2. c'.state = "INIT" /\ c'.out = c.out /\ c'.in = c.in
      BY <1>1, <2>1, <3>1 DEF Fields
    <3>3. Sent' = Sent /\ Going' = Going
      BY <3>2, TookIs
    <3>4. ~ CanFlush(c)' /\ ~ Calm'
      BY <2>4, <3>2 DEF CanFlush, Calm
    <3>5. \A e \in Going' : e.name # "bind"
      BY <2>1, <3>3 DEF Turns, Done
    <3> QED BY <1>2, <2>1, <3>2, <3>3, <3>4, <3>5 DEF Turns, Silent
  <2> QED BY <2>3, <2>4
<1>11. CASE EndStream
  <2>1. c.state = "ENDSTREAM" /\ c.out = <<>>
    BY <1>11 DEF EndStream, Iterates
  <2>2. E("/stream") \in Element /\ E("/stream").name = "/stream" /\ E("/stream") \notin Streams
    BY <1>3 DEF Names, Streams
  <2>3. /\ c'.state = "UNINIT" /\ c'.in = c.in /\ c'.i = c.i
        /\ c'.out = Appended(<<>>, E("/stream")) \/ c'.out = c.out
    BY <1>1, <1>11, EndRows DEF Alike, Fields
  <2>4. Left' = Left
    BY <1>2, <2>3, LeftSame
  <2>5. Behind(E("/stream")) \/ (Sent' = Sent /\ Going' = Going)
    BY <2>1, <2>2, <2>3, TookIs
  <2>6. /\ Count(Sent', Element) \in {Count(Sent, Element), Count(Sent, Element) + 1}
        /\ Count(Sent', Streams) = Count(Sent, Streams)
    BY <2>2, <2>5 DEF Behind
  <2>7. ~ server'.bound => Count(Sent', Element) + Count(Left', Element) <= 1
    BY <1>2, <2>1, <2>4, <2>6 DEF Turns, Silent
  <2> QED BY <1>2, <2>3, <2>6, <2>7 DEF Turns, Silent, Done
<1>12. CASE BadStream \/ StartTls \/ NoTls \/ StartScram \/ AskPlain \/ NoMechanism \/ BindResource
  <2>1. ReadsStanza /\ c.state = "STREAMSENT" /\ c.state \notin Done
    BY <1>12 DEF BadStream, StartTls, NoTls, StartScram, AskPlain, NoMechanism, BindResource,
                 Authenticates, Encrypted, ReadsFeatures, Done
  <2>2. CASE BadStream \/ NoTls \/ NoMechanism
    BY <1>1, <1>5, <2>1, <2>2, StreamRows
  <2>3. CASE StartTls
    <3>1. Said(E("starttls"), "STARTTLS", {})
      BY <1>1, <2>3, StreamRows
    <3> QED BY <1>4, <2>1, <3>1 DEF Silent
  <2>4. CASE StartScram
    <3>1. Said(E("auth"), "SASLINIT", {"solved"})
      BY <1>1, <2>4, StreamRows
    <3> QED BY <1>4, <2>1, <3>1 DEF Silent
  <2>5. CASE AskPlain
    BY <1>1, <1>6, <2>1, <2>5, StreamRows DEF Turned
  <2>6. CASE BindResource
    <3>1. Aborted \/ Said(E("bind"), "BIND", {"opts"})
      BY <1>1, <2>6, StreamRows
    <3> QED BY <1>4, <1>5, <2>1, <3>1, Zenon DEF Silent, Done, Aborted
  <2> QED BY <1>12, <2>2, <2>3, <2>4, <2>5, <2>6
<1>13. CASE TlsProceeds \/ Challenged \/ PasswordRefused \/ ScramEnds \/ PlainEnds
  <2>1. ReadsStanza /\ c.state \notin Done
    BY <1>13 DEF TlsProceeds, Challenged, PasswordRefused, ScramEnds, PlainEnds, Negotiates, Done
  <2>2. Aborted \/ (\E s, r : Turned(s, r)) \/ (\E f, r : Restarted(f, r))
    BY <1>1, <1>13, SaslRows
  <2> QED BY <1>5, <1>6, <2>1, <2>2 DEF Aborted, Turned, Restarted
<1>14. CASE Bound
  <2>1. ReadsStanza /\ c.state = "BIND" /\ c.out = <<>>
    BY <1>14, StanzaIs DEF Bound, Negotiates
  <2>2. CASE Accepted
    <3>1. CASE /\ Took({"state", "isnegotiationdone"}) /\ After /\ c'.state = "ACCEPTSTANZA"
      <4>1. c'.out = c.out /\ OneRead
        BY <2>1, <3>1, TookIs, Zenon DEF Took, Alike, Fields
      <4>2. Sent' = Sent /\ Going' \subseteq Going
        BY <4>1, TookIs
      <4> QED BY <1>2, <2>1, <3>1, <4>1, <4>2, ReadTurns DEF Done
    <3>2. CASE /\ Took({"state", "isnegotiationdone", "features", "out"}) /\ After
               /\ c'.state = "ACCEPTSTANZA" /\ c'.out = Appended(<<>>, E("enable"))
      <4>1. E("enable") \in Element /\ E("enable").name = "enable"
        BY <1>3 DEF Names
      <4>2. c'.state \in Done /\ c'.state \notin Silent \cup {"INIT"}
        BY <3>2 DEF Done, Silent
      <4> QED BY <2>1, <3>2, <4>1, <4>2, RowTurns
    <3> QED BY <2>2, <3>1, <3>2 DEF Accepted
  <2> QED BY <1>1, <1>5, <1>14, <2>1, <2>2, BoundIs
<1>15. CASE Unexpected \/ AckAnswer
  <2>1. ReadsStanza /\ Looked
    BY <1>1, <1>15, StanzaRows DEF Unexpected, AckAnswer, Negotiates, Established
  <2> QED BY <1>5, <2>1
<1>16. CASE SmacksEnabled \/ HandOver
  <2>1. /\ ReadsStanza
        /\ \E fs \in {{"features", "cansmackresume"}, {"actualrecv"}} : Took(fs) /\ After
    BY <1>1, <1>16, StanzaRows DEF SmacksEnabled, HandOver, Established
  <2>2. c'.out = c.out /\ c'.state = c.state
    BY <2>1 DEF Took, Alike, Fields
  <2> QED BY <2>1, <2>2, RowTurns
<1>17. CASE AckRequest
  <2>1. ReadsStanza
    BY <1>17 DEF AckRequest, Established
  <2>2. CASE Looked
    BY <1>5, <2>1, <2>2
  <2>3. CASE /\ Took({"out"}) /\ After
             /\ c'.out = Appended(<<>>, [E("a") EXCEPT !.k = c.actualrecv])
    <3> DEFINE a == [E("a") EXCEPT !.k = c.actualrecv]
    <3>1. a \in Element /\ a.name = "a"
      <4>1. c.actualrecv \in Nat /\ E("a") \in Element
        BY <1>3 DEF Typed, ClientOK, Counters, Names
      <4>2. a \in Element
        BY <4>1, ElementWith, Zenon
      <4> QED BY <4>2 DEF E
    <3> HIDE DEF a
    <3>2. OneRead /\ c.out = <<>>
      BY <2>1, <2>3, TookIs, StanzaIs
    <3>3. Behind(a) /\ a \notin Streams
      BY <2>3, <3>1, <3>2, TookIs, Zenon DEF a, Streams
    <3>4. c'.state = c.state
      BY <2>3 DEF Took, Alike, Fields
    <3>5. c.state \notin Silent \cup {"INIT"}
      <4>1. c.isnegotiationdone
        BY <1>17 DEF AckRequest, Established
      <4>2. c.state \in Done
        BY <4>1 DEF Negotiation, InOrder, Turns
      <4> QED BY <2>1, <4>2 DEF ReadsStanza, Reads, Done, Silent
    <3>6. a.name # "bind"
      BY <3>1
    <3>7. \E x \in Element : /\ Behind(x) /\ x \notin Streams
                             /\ x.name = "bind" => c'.state \in Done
                             /\ c'.state \notin Silent \cup {"INIT"}
      BY <3>1, <3>3, <3>4, <3>5, <3>6
    <3> QED BY <1>2, <2>1, <3>2, <3>4, <3>7, ReadTurns
  <2> QED BY <1>1, <1>17, <2>2, <2>3, StanzaRows
<1> QED BY <1>7, <1>8, <1>9, <1>10, <1>11, <1>12, <1>13, <1>14, <1>15, <1>16, <1>17 DEF xmppIterate

LEMMA ApplicationTurns ==
  ASSUME Typed, Typed', Negotiation, Turns, Application, "resume" \notin AppMay
  PROVE  Turns'
<1>1. DOMAIN c = Fields
  BY DEF Typed, ClientOK
<1>2. /\ Count(Left, Element) \in Nat /\ Count(toClient, Element) \in Nat
      /\ Count(Sent, Element) \in Nat
  BY LeftIs, SentIs
<1>3. ASSUME c'.in = c.in, c'.i = c.i, toClient' = toClient, server' = server,
             Sent' = Sent, Going' \subseteq Going, c'.state = c.state
      PROVE  Turns'
  <2>1. Fewer /\ Count(toClient', Element) <= Count(toClient, Element)
    BY <1>2, <1>3, LeftSame
  <2> QED BY <1>3, <2>1, FewerTurns DEF CanFlush
<1>4. CASE \E n \in 1..Len(c.out) : Send(n)
  <2>1. PICK n \in 1..Len(c.out) : Send(n)
    BY <1>4
  <2>2. /\ c'.out = Drop(c.out, n) /\ c'.in = c.in /\ c'.i = c.i /\ c'.state = c.state
        /\ toServer' = toServer \o SubSeq(c.out, 1, n) /\ UNCHANGED <<server, toClient>>
    BY <1>1, <2>1, OwnRows DEF Send, Alike, Fields
  <2>3. Sent' = Sent /\ Going' \subseteq Going
    BY <2>2, SentWritten, Zenon
  <2> QED BY <1>3, <2>2, <2>3
<1>5. CASE \E n \in 1..Len(toClient) : Receive(n)
  <2>1. PICK n \in 1..Len(toClient) : Receive(n)
    BY <1>5
  <2>2. /\ c'.in = c.in \o SubSeq(toClient, 1, n) /\ c'.i = c.i /\ c'.state = c.state
        /\ c'.out = c.out /\ toClient' = Drop(toClient, n) /\ UNCHANGED <<server, toServer>>
    BY <1>1, <2>1, OwnRows, Zenon DEF Receive, Alike, Fields
  <2>3. Left' = Left
    BY <2>2, LeftReceived, Zenon
  <2>4. Fewer
    <3>1. \A S : Count(Left, S) \in Nat
      BY LeftIs
    <3> QED BY <2>3, <3>1 DEF Fewer
  <2>5. Sent' = Sent /\ Going' = Going
    BY <2>2, SentSame
  <2>6. n \in 0..Len(toClient) /\ toClient \in Seq(Part) /\ c.in \in Seq(Part)
    BY DEF Typed, ClientOK
  <2>7. Count(toClient', Element) <= Count(toClient, Element)
    <3>1. Count(toClient, Element)
            = Count(SubSeq(toClient, 1, n), Element) + Count(Drop(toClient, n), Element)
      BY <2>6, CountSplit
    <3>2. SubSeq(toClient, 1, n) \in Seq(Part) /\ Drop(toClient, n) \in Seq(Part)
      BY <2>6, FrontIs, DropIs
    <3>3. /\ Count(SubSeq(toClient, 1, n), Element) \in Nat
          /\ Count(Drop(toClient, n), Element) \in Nat
      BY <3>2, CountIs, Zenon
    <3> QED BY <2>2, <3>1, <3>3
  <2>8. Len(c'.in) < InCap => CanFlush(c)
    <3>1. SubSeq(toClient, 1, n) \in Seq(Part) /\ Len(SubSeq(toClient, 1, n)) = n
      BY <2>6, FrontIs
    <3>2. Len(c'.in) = Len(c.in) + n /\ Len(c.in) \in Nat
      BY <2>2, <2>6, <3>1, ConcatProperties
    <3> QED BY <3>2 DEF CanFlush, XmppAssumption
  <2> QED BY <2>2, <2>4, <2>5, <2>7, <2>8, FewerTurns
<1>6. CASE Handshake \/ GoOn \/ Exit
  <2>1. UNCHANGED <<c, server, toServer, toClient>>
    BY <1>6 DEF Handshake, GoOn, Exit, net
  <2>2. Sent' = Sent /\ Going' = Going
    BY <2>1, SentSame
  <2> QED BY <1>3, <2>1, <2>2
<1>7. CASE \E right \in BOOLEAN : xmppSupplyPassword(right)
  <2>1. PICK right \in BOOLEAN : xmppSupplyPassword(right)
    BY <1>7
  <2>2. UNCHANGED <<server, toServer, toClient>> /\ c.state \in {"SASLPWD", "SASLPLAIN"}
    BY <2>1 DEF xmppSupplyPassword, net, Negotiation, InOrder
  <2>3. CASE Alike(c, c', {"solved"})
    <3>1. c'.in = c.in /\ c'.i = c.i /\ c'.out = c.out /\ c'.state = c.state
      BY <2>3 DEF Alike, Fields
    <3>2. Sent' = Sent /\ Going' = Going
      BY <2>2, <3>1, SentSame
    <3> QED BY <1>3, <2>2, <3>1, <3>2
  <2>4. CASE /\ Alike(c, c', {"solved", "out", "state"})
             /\ c'.state = IF c.state = "SASLPWD" THEN "SASLCHECKRESULT" ELSE "SASLRESULT"
             /\ \E ok \in BOOLEAN :
                  c'.out = Appended(c.out, [E(IF c.state = "SASLPWD" THEN "response"
                                              ELSE "authplain") EXCEPT !.ok = ok])
    <3>1. PICK name \in {"response", "authplain"}, ok \in BOOLEAN :
            c'.out = Appended(c.out, [E(name) EXCEPT !.ok = ok])
      BY <2>4
    <3> DEFINE e == [E(name) EXCEPT !.ok = ok]
    <3>2. e \in Element /\ e.name = name
      <4>1. E(name) \in Element
        BY ElementIs DEF Names
      <4> QED BY <4>1, ElementWith, Zenon DEF E
    <3> HIDE DEF e
    <3>3. Behind(e)
      BY <2>2, <3>1, <3>2, SentBehind DEF e
    <3>4. c'.in = c.in /\ c'.i = c.i
      BY <2>4 DEF Alike, Fields
    <3>5. Left' = Left
      BY <2>2, <3>4, LeftSame
    <3>6. ~ server.bound /\ Count(Sent, Element) = 0 /\ Count(Left, Element) = 0
      <4>1. c.state \in Silent /\ c.state \notin Done
        BY <2>2 DEF Silent, Done
      <4> QED BY <4>1 DEF Turns
    <3>7. Count(Sent', Element) + Count(Left', Element) <= 1
      <4>1. Count(Sent', Element) \in {Count(Sent, Element), Count(Sent, Element) + 1}
        BY <3>3 DEF Behind
      <4> QED BY <3>5, <3>6, <4>1
    <3>8. \A x \in Going' : x.name # "bind"
      <4>1. Going' \subseteq Going \cup {e} /\ e.name # "bind" /\ c.state \notin Done
        BY <2>2, <3>2, <3>3 DEF Behind, Done
      <4> QED BY <4>1 DEF Turns
    <3> QED BY <2>2, <2>4, <3>6, <3>7, <3>8 DEF Turns, Silent
  <2> QED BY <1>1, <2>1, <2>3, <2>4, PasswordRows
<1>8. CASE \E name \in {"presence", "iq"} : Format(name)
  <2>1. PICK name \in {"presence", "iq"} : Format(name)
    BY <1>8
  <2>2. /\ UNCHANGED <<server, toServer, toClient>>
        /\ c.isnegotiationdone /\ server.bound
    BY <2>1 DEF Format, Negotiation, InOrder
  <2>3. E(name) \in Element /\ E("r") \in Element /\ E(name).name = name /\ E("r").name = "r"
    BY ElementIs, Zenon DEF Names, E
  <2>4. /\ c'.state = c.state
        /\ \/ c'.out = c.out
           \/ c'.out = Appended(c.out, E(name))
           \/ c'.out = Appended(Appended(c.out, E(name)), E("r"))
    BY <1>1, <2>1, FormatRows DEF Alike, Fields
  <2>5. /\ Count(Sent', Streams) = Count(Sent, Streams)
        /\ \A e \in Going' : e.name # "bind" \/ e \in Going
    <3>1. c.out \in Seq(Part) /\ Len(c.out) <= OutCap /\ toServer \in Seq(Part)
      BY DEF Typed, ClientOK
    <3>2. E(name) \notin Streams /\ E("r") \notin Streams
      BY <2>3 DEF Streams
    <3> DEFINE b == Appended(c.out, E(name))
               d == Appended(b, E("r"))
    <3>3. /\ b \in Seq(Part) /\ Len(b) <= OutCap
          /\ Count(b, Streams) = Count(c.out, Streams)
          /\ Elements(b) \subseteq Elements(c.out) \cup {E(name)}
      <4>1. b \in Seq(Part) /\ Len(b) <= OutCap
        BY <2>3, <3>1, AppendedIs, Zenon
      <4>2. Count(b, Streams) = Count(c.out, Streams)
        BY <2>3, <3>1, <3>2, CountAppended
      <4>3. Elements(b) \subseteq Elements(c.out) \cup {E(name)}
        BY <2>3, <3>1, ElementsAre
      <4> QED BY <4>1, <4>2, <4>3
    <3> HIDE DEF b
    <3>4. /\ d \in Seq(Part) /\ Count(d, Streams) = Count(b, Streams)
          /\ Elements(d) \subseteq Elements(b) \cup {E("r")}
      BY <2>3, <3>2, <3>3, CountAppended, ElementsAre
    <3> HIDE DEF d
    <3>5. /\ c'.out \in Seq(Part) /\ Count(c'.out, Streams) = Count(c.out, Streams)
          /\ Elements(c'.out) \subseteq Elements(c.out) \cup {E(name), E("r")}
      BY <2>4, <3>1, <3>3, <3>4 DEF b, d
    <3>6. Count(Sent', Streams) = Count(toServer, Streams) + Count(c'.out, Streams)
      <4>1. Sent' = toServer \o c'.out
        BY <2>2 DEF Sent
      <4> QED BY <3>1, <3>5, <4>1, CountConcat
    <3>7. Count(Sent, Streams) = Count(toServer, Streams) + Count(c.out, Streams)
      BY SentIs
    <3>8. \A e \in Going' : e \in Going \/ e = E(name) \/ e = E("r")
      BY <2>2, <3>5 DEF Going
    <3> QED BY <2>3, <3>5, <3>6, <3>7, <3>8
  <2> QED BY <2>2, <2>4, <2>5 DEF Turns, Done
<1>9. CASE xmppEndStream
  <2>1. /\ c'.state = "ENDSTREAM" /\ c'.out = c.out /\ UNCHANGED <<server, toServer, toClient>>
        /\ server.bound
    BY <1>1, <1>9, OwnRows DEF xmppEndStream, net, Alike, Fields, Negotiation, InOrder
  <2>2. Sent' = Sent /\ Going' = Going
    BY <2>1, SentSame
  <2> QED BY <2>1, <2>2 DEF Turns, Done
<1>10. CASE xmppResume
  BY <1>10 DEF xmppResume
<1> QED BY <1>4, <1>5, <1>6, <1>7, <1>8, <1>9, <1>10 DEF Application

LEMMA AnswerTurns ==
  ASSUME Typed, Typed', Turns, c' = c, Heard
  PROVE  /\ toClient' = toClient /\ server'.bound = server.bound => Turns'
         /\ \A e \in Element : Comes(e) /\ server'.bound = server.bound => Turns'
         /\ \A e \in Element : Comes(e) /\ Request.name = "bind" /\ server'.bound => Turns'
<1>1. Count(Left, Element) \in Nat /\ Count(Sent, Element) \in Nat /\ Count(Sent, Streams) \in Nat
  BY LeftIs, SentIs
<1>2. Count(Sent', Element) \in Nat /\ Count(Sent', Streams) \in Nat
  BY SidesNext DEF Sides
<1>3. server.bound \in BOOLEAN /\ server'.bound \in BOOLEAN
  BY DEF Typed, ServerOK, ServerFlags
<1>4. Count(Sent', Element) = Count(Sent, Element) - 1 /\ Request \in Element
  BY DEF Heard
<1>5. Count(Sent, Element) # 0
  BY <1>1, <1>2, <1>4
<1>6. c.state # "INIT" /\ (~ server.bound => c.state \notin Silent)
  BY <1>5 DEF Turns
<1>7. /\ ~ server.bound => Count(Sent', Element) = 0 /\ Count(Left, Element) = 0
      /\ server.bound => c.state \in Done /\ Count(Sent', Streams) = 0
  <2>1. ~ server.bound => Count(Sent, Element) + Count(Left, Element) <= 1
    BY <1>6 DEF Turns, Calm
  <2>2. Count(Sent', Streams) <= Count(Sent, Streams)
    <3>1. Count(Sent', Streams) = Count(Sent, Streams) - (IF Request \in Streams THEN 1 ELSE 0)
      BY DEF Heard
    <3> QED BY <1>1, <3>1
  <2> QED BY <1>1, <1>2, <1>4, <1>5, <2>1, <2>2 DEF Turns
<1>8. (\E e \in Going' : e.name = "bind") => c.state \in Done
  BY DEF Heard, Turns
<1>9. c'.state = c.state
  OBVIOUS
<1>10. ASSUME toClient' = toClient, server'.bound = server.bound PROVE Turns'
  <2>1. Left' = Left
    BY <1>10, LeftSame
  <2>2. ~ server'.bound => Count(Sent', Element) + Count(Left', Element) <= 1
    BY <1>7, <1>10, <2>1
  <2> QED BY <1>3, <1>6, <1>7, <1>8, <1>9, <1>10, <2>2 DEF Turns
<1>11. ASSUME NEW e \in Element, Comes(e), server'.bound = server.bound PROVE Turns'
  <2>1. Count(Left', Element) = Count(Left, Element) + 1
    BY <1>11 DEF Comes
  <2>2. ~ server'.bound => Count(Sent', Element) + Count(Left', Element) <= 1
    BY <1>1, <1>7, <1>11, <2>1
  <2> QED BY <1>3, <1>6, <1>7, <1>8, <1>9, <1>11, <2>2 DEF Turns
<1>12. ASSUME NEW e \in Element, Comes(e), Request.name = "bind", server'.bound
       PROVE  Turns'
  <2>1. c.state \in Done
    BY <1>12 DEF Turns, Heard
  <2>2. Count(Sent', Streams) = 0
    <3>1. ~ server.bound => Count(Sent', Streams) <= Count(Sent', Element)
      <4>1. Sent' \in Seq(Part)
        BY DEF Typed, ClientOK, Sent
      <4>2. Streams \subseteq Element
        BY DEF Streams
      <4> QED BY <4>1, <4>2, CountIs
    <3> QED BY <1>2, <1>3, <1>7, <3>1
  <2> QED BY <1>6, <1>8, <1>9, <1>12, <2>1, <2>2 DEF Turns
<1> QED BY <1>10, <1>11, <1>12

-----------------------------------------------------------------------------
(* What one call of xmppIterate does to the counters and to the elements   *)
(* under way, whichever way it returns.                                    *)
Words == {"stream", "/stream", "starttls", "auth", "bind", "enable", "a"}

Speaks(e) ==
  /\ e \in Element /\ Behind(e) /\ e.name \in Words
  /\ e.name = "bind" => BindResource
  /\ e.name = "enable" => Bound
  /\ e.name = "a" => e.k = c.actualrecv

Turn ==
  /\ Fewer \/ (c'.state = "INIT" /\ ~ CanFlush(c)')
  /\ (Sent' = Sent /\ Going' = Going) \/ \E e \in Element : Speaks(e)
  /\ Calm' => Calm \/ Left' = toClient
  /\ c'.actualsent = c.actualsent
  /\ c'.opts = c.opts \/ BindResource
  /\ c'.actualrecv = c.actualrecv \/ HandOver
  /\ c'.isnegotiationdone = c.isnegotiationdone \/ Bound
  /\ ("SMACKS" \in c'.features <=> "SMACKS" \in c.features) \/ Bound \/ SmacksEnabled
  /\ ret' \in {"READY", "STANZA", "GIVEPWD"} => c'.out = <<>>

LEMMA TakenTurn ==
  ASSUME Typed, xmppIterate, ReadsStanza
  PROVE  /\ \A fs : Took(fs) /\ (After \/ Before) => Fewer
         /\ Moved => Fewer
         /\ Calm /\ c.out = <<>>
<1>1. \A S : Count(Left, S) \in Nat
  BY LeftIs
<1>2. OneRead => Fewer
  BY <1>1 DEF OneRead, Fewer
<1>3. Calm /\ c.out = <<>>
  BY StanzaIs DEF ReadsStanza, Reads, Calm
<1> QED BY <1>2, <1>3, TookIs

(* The rows whose only changes are those of the fields fs.                 *)
LEMMA TurnOf ==
  ASSUME Typed, xmppIterate, Fewer, Calm' => Calm \/ Left' = toClient,
         NEW fs, Alike(c, c', fs),
         fs \cap {"actualsent", "opts", "actualrecv", "isnegotiationdone", "features"} = {},
         \/ c'.out = c.out /\ c.out = <<>>
         \/ c'.out = c.out /\ ret' \notin {"READY", "STANZA", "GIVEPWD"}
         \/ /\ \E e \in Element : Speaks(e)
            /\ ret' \notin {"READY", "STANZA", "GIVEPWD"}
  PROVE  Turn
<1>1. \A f \in {"actualsent", "opts", "actualrecv", "isnegotiationdone", "features"} : c'[f] = c[f]
  BY DEF Alike, Fields
<1>2. /\ c'.actualsent = c.actualsent /\ c'.opts = c.opts /\ c'.actualrecv = c.actualrecv
      /\ c'.isnegotiationdone = c.isnegotiationdone /\ c'.features = c.features
  BY <1>1
<1>3. c'.out = c.out => Sent' = Sent /\ Going' = Going
  BY TookIs
<1>4. (Sent' = Sent /\ Going' = Going) \/ \E e \in Element : Speaks(e)
  BY <1>3
<1>5. ret' \in {"READY", "STANZA", "GIVEPWD"} => c'.out = <<>>
  OBVIOUS
<1> QED BY <1>2, <1>4, <1>5 DEF Turn

LEMMA OtherTurn ==
  ASSUME Typed, xmppIterate,
         Finished \/ SendFirst \/ SkipFails \/ SkipEnds \/ SkipGoesOn \/ Partial
           \/ OpenStream \/ EndStream
  PROVE  Turn
<1>1. DOMAIN c = Fields
  BY DEF Typed, ClientOK
<1>2. UNCHANGED <<server, toServer, toClient>>
  BY IterateIn
<1>3. \A name \in Names : E(name) \in Element /\ E(name).name = name
  BY ElementIs, Zenon DEF E
<1>4. CASE Finished \/ SendFirst
  <2>1. c' = c /\ ret' \notin {"READY", "STANZA", "GIVEPWD"}
    BY <1>4 DEF Finished, SendFirst
  <2>2. Fewer /\ Left' = Left
    BY <1>2, <2>1, LeftSame
  <2>3. Calm' => Calm
    BY <2>1 DEF Calm, CanFlush
  <2>4. Alike(c, c', {})
    BY <1>1, <2>1 DEF Alike
  <2> QED BY <2>1, <2>2, <2>3, <2>4, TurnOf
<1>5. CASE SkipFails \/ SkipEnds \/ SkipGoesOn
  <2>1. c.in \in Seq(Part) /\ c.i \in 0..Len(c.in)
    BY DEF Typed, ClientOK
  <2>2. Rest \in Seq(Part) /\ Len(Rest) = Len(c.in) - c.i
    BY RestIs
  <2>3. c.out = <<>>
    BY <1>5 DEF SkipFails, SkipEnds, SkipGoesOn, Skips, Iterates
  <2>4. /\ Alike(c, c', {"in", "i", "skippingdepth", "rootclosed"})
        /\ \/ c'.in = <<>> /\ c'.i = 0
           \/ c'.in = c.in /\ c'.i \in c.i..Len(c.in)
    <3>1. CASE SkipGoesOn
      BY <1>1, <3>1, OtherRows DEF Alike, Fields
    <3>2. CASE SkipFails
      <4>1. Alike(c, c', {"i"}) /\ c'.i = c.i + 1 /\ Rest # <<>>
        BY <1>1, <3>2, OtherRows
      <4>2. Len(Rest) > 0
        BY <2>2, <4>1
      <4> QED BY <2>1, <2>2, <4>1, <4>2 DEF Alike, Fields
    <3>3. CASE SkipEnds
      <4>1. /\ Alike(c, c', {"i", "skippingdepth", "rootclosed"})
            /\ c'.i = c.i + FirstEnd(Rest) /\ HasEnd(Rest)
        BY <1>1, <3>3, OtherRows
      <4>2. FirstEnd(Rest) \in 1..Len(Rest)
        BY <2>2, <4>1, FirstEndIs
      <4> QED BY <2>1, <2>2, <4>1, <4>2 DEF Alike, Fields
    <3> QED BY <1>5, <3>1, <3>2, <3>3
  <2>5. Fewer /\ (c'.in = <<>> => Left' = toClient)
    BY <1>2, <2>4, LeftSkipped
  <2>6. c'.state = c.state /\ c'.out = c.out
    BY <2>4 DEF Alike, Fields
  <2>7. Calm' => Calm \/ Left' = toClient
    BY <2>4, <2>5, <2>6 DEF Calm, CanFlush
  <2> QED BY <2>3, <2>4, <2>5, <2>6, <2>7, TurnOf
<1>6. CASE Partial
  <2>1. Alike(c, c', {"in", "i", "skippingdepth", "rootclosed"}) /\ c'.in = Rest /\ c'.i = 0
    BY <1>1, <1>6, OtherRows, Zenon DEF Moved, Alike, Fields
  <2>2. Fewer
    BY <1>2, <2>1, LeftSame
  <2>3. c.out = <<>> /\ c.state # "INIT"
    BY <1>6 DEF Partial, Reads, Iterates
  <2>4. Calm /\ c'.out = c.out
    BY <2>1, <2>3 DEF Calm, Alike, Fields
  <2> QED BY <2>1, <2>2, <2>3, <2>4, TurnOf
<1>7. CASE OpenStream
  <2>1. c.state = "INIT" /\ c.out = <<>>
    BY <1>7 DEF OpenStream, Iterates
  <2>2. E("stream") \in Element /\ E("stream").name = "stream"
    BY <1>3 DEF Names
  <2>3. CASE CanFlush(c)
    <3>1. /\ Alike(c, c', {"out", "state"}) /\ c'.out = Appended(<<>>, E("stream"))
          /\ ret' = "SEND"
      <4>1. ret' = "SEND" /\ "SEND" # "EMEM"
        BY <1>7, <2>3 DEF OpenStream
      <4> QED BY <1>1, <1>7, <4>1, EndRows
    <3>2. c'.in = c.in /\ c'.i = c.i
      BY <3>1 DEF Alike, Fields
    <3>3. Behind(E("stream")) /\ Fewer
      BY <1>2, <2>1, <2>2, <3>1, <3>2, TookIs, LeftSame
    <3>4. Speaks(E("stream"))
      BY <2>2, <3>3 DEF Speaks, Words
    <3>5. Calm
      BY <2>3 DEF Calm
    <3> QED BY <2>2, <3>1, <3>3, <3>4, <3>5, TurnOf
  <2>4. CASE ~ CanFlush(c)
    <3>1. c' = [c EXCEPT !.i = 0] /\ ret' = "EMEM"
      BY <1>7, <2>4 DEF OpenStream
    <3>2. Alike(c, c', {"i"})
      BY <1>1, <3>1 DEF Alike, Fields
    <3>3. \A f \in Fields \ {"i"} : c'[f] = c[f]
      BY <3>2 DEF Alike
    <3>4. c'.state = "INIT" /\ c'.out = c.out /\ c'.in = c.in
      BY <2>1, <3>3 DEF Fields
    <3>5. Sent' = Sent /\ Going' = Going
      BY <3>4, TookIs
    <3>6. ~ CanFlush(c)' /\ ~ Calm'
      BY <2>4, <3>4 DEF CanFlush, Calm
    <3>7. /\ c'.actualsent = c.actualsent /\ c'.opts = c.opts /\ c'.actualrecv = c.actualrecv
          /\ c'.isnegotiationdone = c.isnegotiationdone /\ c'.features = c.features
      BY <3>3 DEF Fields
    <3> QED BY <2>1, <3>1, <3>4, <3>5, <3>6, <3>7 DEF Turn
  <2> QED BY <2>3, <2>4
<1>8. CASE EndStream
  <2>1. c.state = "ENDSTREAM" /\ c.out = <<>>
    BY <1>8 DEF EndStream, Iterates
  <2>2. E("/stream") \in Element /\ E("/stream").name = "/stream"
    BY <1>3 DEF Names
  <2>3. /\ Alike(c, c', {"out", "state"}) /\ ret' \in {"SEND", "OK"}
        /\ c'.out = Appended(<<>>, E("/stream")) \/ c'.out = c.out
    BY <1>1, <1>8, EndRows DEF Alike, Fields
  <2>4. c'.in = c.in /\ c'.i = c.i
    BY <2>3 DEF Alike, Fields
  <2>5. Fewer /\ Calm
    BY <1>2, <2>1, <2>4, LeftSame DEF Calm
  <2>6. c'.out = Appended(<<>>, E("/stream")) => Speaks(E("/stream"))
    BY <2>1, <2>2, TookIs DEF Speaks, Words
  <2> QED BY <2>1, <2>2, <2>3, <2>5, <2>6, TurnOf
<1> QED BY <1>4, <1>5, <1>6, <1>7, <1>8

LEMMA ReadTurn ==
  ASSUME Typed, xmppIterate,
         \/ BadStream \/ StartTls \/ NoTls \/ StartScram \/ AskPlain \/ NoMechanism \/ BindResource
         \/ TlsProceeds \/ Challenged \/ PasswordRefused \/ ScramEnds \/ PlainEnds
         \/ Bound \/ Unexpected \/ SmacksEnabled \/ AckAnswer \/ AckRequest \/ HandOver
  PROVE  Turn
<1>1. DOMAIN c = Fields
  BY DEF Typed, ClientOK
<1>2. ReadsStanza
  BY DEF BadStream, StartTls, NoTls, StartScram, AskPlain, NoMechanism, BindResource,
         Authenticates, Encrypted, ReadsFeatures, TlsProceeds, Challenged, PasswordRefused,
         ScramEnds, PlainEnds, Negotiates, Bound, Unexpected, SmacksEnabled, AckAnswer,
         AckRequest, HandOver, Established
<1>3. /\ \A fs : Took(fs) /\ (After \/ Before) => Fewer
      /\ Moved => Fewer
      /\ Calm /\ c.out = <<>>
  BY <1>2, TakenTurn
<1>4. \A name \in Names : E(name) \in Element /\ E(name).name = name
  BY ElementIs, Zenon DEF E
<1>5. ASSUME Looked \/ Moved \/ (Took({}) /\ Before) PROVE Turn
  <2>1. Fewer
    BY <1>3, <1>5 DEF Looked
  <2>2. Alike(c, c', {"in", "i", "stanza"})
    BY <1>5 DEF Looked, Moved, Took, Alike
  <2>3. c'.out = c.out
    BY <2>2 DEF Alike, Fields
  <2> QED BY <1>3, <2>1, <2>2, <2>3, TurnOf
<1>6. ASSUME NEW fs \in {{}, {"state"}, {"solved"}}, Took(fs), After \/ Before
      PROVE  Turn
  <2>1. Fewer
    BY <1>3, <1>6
  <2>2. Alike(c, c', fs \cup {"in", "i", "stanza"})
    BY <1>6 DEF Took
  <2>3. c'.out = c.out
    BY <2>2, <1>6 DEF Alike, Fields
  <2> QED BY <1>3, <1>6, <2>1, <2>2, <2>3, TurnOf
<1>7. ASSUME NEW name \in {"starttls", "auth"}, NEW s, NEW fs \in {{}, {"solved"}},
             Said(E(name), s, fs)
      PROVE  Turn
  <2>1. E(name) \in Element /\ E(name).name = name
    BY <1>4 DEF Names
  <2>2. CASE Took(fs) /\ Before
    BY <1>6, <1>7, <2>2, Zenon
  <2>3. CASE /\ Took(fs \cup {"out", "state"}) /\ After
             /\ c'.out = Appended(<<>>, E(name)) /\ ret' = "SEND"
    <3>1. Speaks(E(name))
      BY <1>3, <2>1, <2>3, TookIs DEF Speaks, Words
    <3>2. Alike(c, c', fs \cup {"out", "state"} \cup {"in", "i", "stanza"})
      BY <2>3 DEF Took
    <3>3. Fewer
      BY <1>3, <2>3
    <3>4. (fs \cup {"out", "state"} \cup {"in", "i", "stanza"})
             \cap {"actualsent", "opts", "actualrecv", "isnegotiationdone", "features"} = {}
      BY <1>7
    <3> QED BY <1>3, <2>1, <2>3, <3>1, <3>2, <3>3, <3>4, TurnOf
  <2> QED BY <1>7, <2>2, <2>3 DEF Said
<1>8. ASSUME NEW f \in {"STARTTLS", "SCRAMSHA1", "PLAIN"}, NEW r \in {"STARTTLS", "OK"},
             Restarted(f, r)
      PROVE  Turn
  <2>1. /\ Took({"features", "state"}) /\ After /\ ret' = r
        /\ c'.features = c.features \cup {f}
    BY <1>8 DEF Restarted
  <2>2. /\ c'.out = c.out /\ c'.actualsent = c.actualsent /\ c'.opts = c.opts
        /\ c'.actualrecv = c.actualrecv /\ c'.isnegotiationdone = c.isnegotiationdone
    BY <2>1 DEF Took, Alike, Fields
  <2>3. Sent' = Sent /\ Going' = Going /\ Fewer
    BY <1>3, <2>1, <2>2, TookIs
  <2> QED BY <1>3, <2>1, <2>2, <2>3 DEF Turn
<1>9. CASE BadStream \/ NoTls \/ NoMechanism
  BY <1>1, <1>5, <1>9, StreamRows
<1>10. CASE StartTls \/ StartScram
  BY <1>1, <1>7, <1>10, StreamRows, Zenon
<1>11. CASE AskPlain
  BY <1>1, <1>6, <1>11, StreamRows DEF Turned
<1>12. CASE BindResource
  <2>1. CASE Aborted
    BY <1>5, <2>1 DEF Aborted
  <2>2. CASE Said(E("bind"), "BIND", {"opts"})
    <3>1. E("bind") \in Element /\ E("bind").name = "bind"
      BY <1>4 DEF Names
    <3>2. /\ Took({"opts"} \cup {"out", "state"}) \/ Took({"opts"})
          /\ After \/ Before
          /\ c'.out = c.out \/ c'.out = Appended(<<>>, E("bind"))
          /\ ret' \in {"SEND", "EMEM"}
      BY <2>2 DEF Said, Took, Alike, Fields
    <3>3. /\ c'.actualsent = c.actualsent /\ c'.features = c.features
          /\ c'.actualrecv = c.actualrecv /\ c'.isnegotiationdone = c.isnegotiationdone
      BY <3>2 DEF Took, Alike, Fields
    <3>4. Fewer
      BY <1>3, <3>2
    <3>5. (Sent' = Sent /\ Going' = Going) \/ \E e \in Element : Speaks(e)
      BY <1>3, <1>12, <3>1, <3>2, TookIs DEF Speaks, Words
    <3> QED BY <1>3, <1>12, <3>2, <3>3, <3>4, <3>5 DEF Turn
  <2> QED BY <1>1, <1>12, <2>1, <2>2, StreamRows
<1>13. CASE TlsProceeds \/ Challenged \/ PasswordRefused \/ ScramEnds \/ PlainEnds
  <2>1. \/ Aborted \/ (\E s, r : Turned(s, r))
        \/ \E f \in {"STARTTLS", "SCRAMSHA1", "PLAIN"}, r \in {"STARTTLS", "OK"} : Restarted(f, r)
    BY <1>1, <1>13, SaslRows
  <2> QED BY <1>5, <1>6, <1>8, <2>1 DEF Aborted, Turned
<1>14. CASE Bound
  <2>1. CASE Looked \/ (Took({}) /\ Before)
    BY <1>5, <2>1
  <2>2. CASE Accepted
    <3>1. /\ Took({"state", "isnegotiationdone", "features", "out"}) /\ After
          /\ c'.out \in {c.out, Appended(<<>>, E("enable"))} /\ ret' \in {"OK", "SEND"}
      BY <2>2 DEF Accepted, Took, Alike, Fields
    <3>2. c'.actualsent = c.actualsent /\ c'.opts = c.opts /\ c'.actualrecv = c.actualrecv
      BY <3>1 DEF Took, Alike, Fields
    <3>3. Fewer
      BY <1>3, <3>1
    <3>4. E("enable") \in Element /\ E("enable").name = "enable"
      BY <1>4 DEF Names
    <3>5. (Sent' = Sent /\ Going' = Going) \/ \E e \in Element : Speaks(e)
      BY <1>3, <1>14, <3>1, <3>4, TookIs DEF Speaks, Words
    <3> QED BY <1>3, <1>14, <3>1, <3>2, <3>3, <3>5 DEF Turn
  <2> QED BY <1>1, <1>14, <2>1, <2>2, BoundIs
<1>15. CASE Unexpected \/ AckAnswer
  BY <1>1, <1>5, <1>15, StanzaRows
<1>16. CASE SmacksEnabled
  <2>1. Took({"features", "cansmackresume"}) /\ After /\ ret' = "OK"
    BY <1>1, <1>16, StanzaRows
  <2>2. /\ c'.out = c.out /\ c'.actualsent = c.actualsent /\ c'.opts = c.opts
        /\ c'.actualrecv = c.actualrecv /\ c'.isnegotiationdone = c.isnegotiationdone
    BY <2>1 DEF Took, Alike, Fields
  <2>3. Sent' = Sent /\ Going' = Going /\ Fewer
    BY <1>3, <2>1, <2>2, TookIs
  <2> QED BY <1>3, <1>16, <2>1, <2>2, <2>3 DEF Turn
<1>17. CASE AckRequest
  <2>1. CASE Looked
    BY <1>5, <2>1
  <2>2. CASE /\ Took({"out"}) /\ After /\ ret' = "SEND"
             /\ c'.out = Appended(<<>>, [E("a") EXCEPT !.k = c.actualrecv])
    <3> DEFINE a == [E("a") EXCEPT !.k = c.actualrecv]
    <3>1. a \in Element /\ a.name = "a" /\ a.k = c.actualrecv
      <4>1. c.actualrecv \in Nat /\ E("a") \in Element
        BY <1>4 DEF Typed, ClientOK, Counters, Names
      <4>2. a \in Element
        BY <4>1, ElementWith, Zenon
      <4> QED BY <4>2 DEF E
    <3> HIDE DEF a
    <3>2. Speaks(a)
      BY <1>3, <2>2, <3>1, TookIs DEF Speaks, Words, a
    <3>3. Alike(c, c', {"out"} \cup {"in", "i", "stanza"}) /\ Fewer
      BY <1>3, <2>2, Zenon DEF Took
    <3> QED BY <1>3, <2>2, <3>1, <3>2, <3>3, TurnOf
  <2> QED BY <1>1, <1>17, <2>1, <2>2, StanzaRows
<1>18. CASE HandOver
  <2>1. Took({"actualrecv"}) /\ After
    BY <1>1, <1>18, StanzaRows
  <2>2. /\ c'.out = c.out /\ c'.actualsent = c.actualsent /\ c'.opts = c.opts
        /\ c'.features = c.features /\ c'.isnegotiationdone = c.isnegotiationdone
    BY <2>1 DEF Took, Alike, Fields
  <2>3. Sent' = Sent /\ Going' = Going /\ Fewer
    BY <1>3, <2>1, <2>2, TookIs
  <2> QED BY <1>3, <1>18, <2>1, <2>2, <2>3 DEF Turn
<1> QED BY <1>9, <1>10, <1>11, <1>12, <1>13, <1>14, <1>15, <1>16, <1>17, <1>18

LEMMA IterateTurn ==
  ASSUME Typed, xmppIterate
  PROVE  Turn
BY OtherTurn, ReadTurn DEF xmppIterate

-----------------------------------------------------------------------------
(* A server that offers no acknowledgements is not asked for any: when it  *)
(* has bound the resource, the client has given them up.                   *)
Offered ==
  /\ Calm => \A e \in Ended(Left) :
       "BIND" \in e.features => server.offered = e.features \cap {"SMACKS"}
  /\ \A e \in Ended(Sent) :
       e.name = "bind" /\ server.offered = {} => "DISABLESMACKS" \in c.opts
  /\ server.bound /\ server.offered = {} => "DISABLESMACKS" \in c.opts

LEMMA NothingEnds ==
  ASSUME NEW s \in Seq(Part), Count(s, Element) = 0
  PROVE  Ended(s) = {}
<1>1. Ended(s) \cap Element = {}
  BY CountIs
<1>2. Ended(s) \subseteq Element
  BY EndedAre, ElementsAre
<1> QED BY <1>1, <1>2

LEMMA StanzaEnded ==
  ASSUME Typed, ReadsStanza
  PROVE  Stanza \in Ended(Left) /\ Stanza \in Coming /\ Calm
<1>1. Stanza \in Ended(Rest)
  BY StanzaIs, EndedAre
<1>2. Calm
  BY DEF ReadsStanza, Reads, Calm
<1> QED BY <1>1, <1>2, LeftIs

LEMMA BindRows ==
  ASSUME Typed, BindResource, xmppIterate
  PROVE  /\ c.opts \subseteq c'.opts
         /\ c.state = "STREAMSENT" /\ ReadsStanza
         /\ \/ Sent' = Sent
            \/ /\ "BIND" \in Stanza.features
               /\ "SMACKS" \notin Stanza.features => "DISABLESMACKS" \in c'.opts
<1>1. DOMAIN c = Fields
  BY DEF Typed, ClientOK
<1>2. ReadsStanza /\ c.state = "STREAMSENT"
  BY DEF BindResource, Encrypted, ReadsFeatures
<1>3. CASE Aborted
  <2>1. c'.opts = c.opts /\ c'.out = c.out
    BY <1>3 DEF Aborted, Looked, Took, Alike, Fields
  <2> QED BY <1>2, <2>1, TookIs
<1>4. CASE /\ "BIND" \in Stanza.features
           /\ c'.opts = c.opts \cup (IF "SMACKS" \in Stanza.features THEN {}
                                     ELSE {"DISABLESMACKS"})
  BY <1>2, <1>4
<1> QED BY <1>1, <1>3, <1>4, StreamRows

LEMMA IterateOffered ==
  ASSUME Typed, Typed', Turns, Offered, xmppIterate
  PROVE  Offered'
<1>1. Turn /\ server' = server
  BY IterateTurn, TookIs
<1>2. c.opts \subseteq c'.opts
  BY <1>1, BindRows DEF Turn
<1>3. Calm' => \A e \in Ended(Left') :
        "BIND" \in e.features => server'.offered = e.features \cap {"SMACKS"}
  <2> SUFFICES ASSUME Calm', NEW e \in Ended(Left'), "BIND" \in e.features
               PROVE  server'.offered = e.features \cap {"SMACKS"}
    OBVIOUS
  <2>1. Fewer
    BY <1>1 DEF Turn, Calm
  <2>2. e \in Ended(Left)
    BY <2>1 DEF Fewer
  <2>3. CASE Calm
    BY <1>1, <2>2, <2>3 DEF Offered
  <2>4. CASE ~ Calm
    <3>1. Left' = toClient /\ Count(toClient, Element) = 0
      BY <1>1, <2>4 DEF Turn, Calm, Turns
    <3>2. toClient \in Seq(Part)
      BY DEF Typed
    <3> QED BY <3>1, <3>2, NothingEnds
  <2> QED BY <2>3, <2>4
<1>4. \A e \in Ended(Sent') :
        e.name = "bind" /\ server'.offered = {} => "DISABLESMACKS" \in c'.opts
  <2> SUFFICES ASSUME NEW e \in Ended(Sent'), e.name = "bind", server'.offered = {}
               PROVE  "DISABLESMACKS" \in c'.opts
    OBVIOUS
  <2>1. CASE e \in Ended(Sent)
    BY <1>1, <1>2, <2>1 DEF Offered
  <2>2. CASE e \notin Ended(Sent)
    <3>1. PICK x \in Element : Speaks(x)
      BY <1>1, <2>2 DEF Turn
    <3>2. e = x /\ BindResource
      BY <2>2, <3>1 DEF Speaks, Behind
    <3>3. ReadsStanza /\ "BIND" \in Stanza.features
          /\ ("SMACKS" \notin Stanza.features => "DISABLESMACKS" \in c'.opts)
      BY <2>2, <3>2, BindRows
    <3>4. server.offered = Stanza.features \cap {"SMACKS"}
      BY <3>3, StanzaEnded DEF Offered
    <3> QED BY <1>1, <3>3, <3>4
  <2> QED BY <2>1, <2>2
<1>5. server'.bound /\ server'.offered = {} => "DISABLESMACKS" \in c'.opts
  BY <1>1, <1>2 DEF Offered
<1> QED BY <1>3, <1>4, <1>5 DEF Offered

(* Stanzas are counted from the request for acknowledgements on, at both   *)
(* ends: it is the first thing the client sends when its resource is       *)
(* bound, and the server sends nothing that counts before it has it.       *)
Acks == "SMACKS" \in c.features

Enabling ==
  \/ server.sm
  \/ \E e \in Going : e.name = "enable"
  \/ \E e \in Coming : e.name = "enabled"

Tally ==
  /\ Enabling => Acks
  /\ Acks => c.isnegotiationdone /\ "DISABLESMACKS" \notin c.opts
  /\ c.isnegotiationdone /\ ~ Acks => "DISABLESMACKS" \in c.opts
  /\ ~ c.isnegotiationdone => Count(Sent, Stanzas) = 0
  /\ ~ Acks => c.actualsent = 0 /\ c.actualrecv = 0 /\ server.handled = 0
  /\ Acks => c.actualsent = server.handled + Count(Sent, Stanzas)
  /\ Acks /\ ~ server.sm => EnableFirst(Sent)
  /\ Acks => c.actualrecv + Count(Left, Countable) <= server.counted
  /\ ~ Acks /\ "DISABLESMACKS" \notin c.opts => Count(Left, Countable) = 0
  /\ \A e \in Coming : e \in Countable => server.bound
  /\ \A e \in Going : e.name = "a" => e.k <= server.counted
  /\ ret \in {"READY", "STANZA", "GIVEPWD"} => c.out = <<>>

LEMMA TallyNumbers ==
  ASSUME Typed
  PROVE  /\ c.actualsent \in Nat /\ c.actualrecv \in Nat
         /\ server.handled \in Nat /\ server.counted \in Nat /\ server.n \in Nat
         /\ server.bound \in BOOLEAN /\ server.sm \in BOOLEAN /\ c.isnegotiationdone \in BOOLEAN
         /\ Count(Sent, Stanzas) \in Nat /\ Count(Left, Countable) \in Nat
<1>1. Count(Sent, Stanzas) \in Nat /\ Count(Left, Countable) \in Nat
  BY SentIs, LeftIs
<1> QED BY <1>1 DEF Typed, ClientOK, Counters, Flags, ServerOK, ServerFlags, ServerCounters

(* The client counts a stanza it hands over exactly if it is one that      *)
(* counts, and reads nothing else that does.                               *)
LEMMA HandedOver ==
  ASSUME Typed, Negotiation, xmppIterate, HandOver
  PROVE  /\ Acks => c'.actualrecv + Count(Left', Countable) = c.actualrecv + Count(Left, Countable)
         /\ ~ Acks => c'.actualrecv = c.actualrecv
<1>1. ReadsStanza /\ DOMAIN c = Fields
  BY DEF HandOver, Established, Typed, ClientOK
<1>2. /\ Took({"actualrecv"}) /\ After
      /\ c'.actualrecv = IF Acks /\ StanzaType(Stanza) \in {"IQ", "MESSAGE", "PRESENCE"}
                         THEN c.actualrecv + 1 ELSE c.actualrecv
  BY <1>1, StanzaRows DEF Acks
<1>3. Count(Left', Countable) = Count(Left, Countable) - (IF Stanza \in Countable THEN 1 ELSE 0)
  BY <1>1, <1>2, TookIs DEF OneRead
<1>4. Stanza \in Element /\ Stanza.name \in ServerNames
  BY <1>1, StanzaIs, StanzaEnded DEF Negotiation, MayCome
<1>5. StanzaType(Stanza) \in {"IQ", "MESSAGE", "PRESENCE"} <=> Stanza \in Countable
  <2>1. StanzaType(Stanza) \in {"IQ", "MESSAGE", "PRESENCE"} <=>
          Stanza.name = "message" \/ (Stanza.name = "iq" /\ Stanza.child = "none")
    BY <1>4, TypeIs
  <2> QED BY <1>4, <2>1 DEF Countable
<1>6. c.actualrecv \in Nat /\ Count(Left, Countable) \in Nat
  BY TallyNumbers
<1> QED BY <1>2, <1>3, <1>5, <1>6

LEMMA IterateTally ==
  ASSUME Typed, Typed', Negotiation, Negotiation', Turns, Turns', Tally, xmppIterate, ~ Bound
  PROVE  Tally'
<1>1. Turn /\ server' = server /\ Coming' \subseteq Coming
  BY IterateTurn, TookIs, IterateIn
<1>2. /\ c.actualsent \in Nat /\ c.actualrecv \in Nat
      /\ server.handled \in Nat /\ server.counted \in Nat
      /\ Count(Sent, Stanzas) \in Nat /\ Count(Left, Countable) \in Nat
  BY TallyNumbers
<1>3. Count(Left', Countable) \in Nat
  BY SidesNext DEF Sides
<1>4. c'.isnegotiationdone = c.isnegotiationdone
  BY <1>1 DEF Turn
<1>5. Acks' <=> Acks
  <2>1. CASE SmacksEnabled
    <3>1. ReadsStanza /\ StanzaType(Stanza) = "SMACKSENABLED"
      BY <2>1 DEF SmacksEnabled, Established
    <3>2. Stanza \in Element /\ Stanza \in Coming /\ Stanza.name \in ServerNames
      BY <3>1, StanzaIs, StanzaEnded DEF Negotiation, MayCome
    <3>3. Stanza.name = "enabled"
      BY <3>1, <3>2, TypeIs
    <3>4. Acks
      BY <3>2, <3>3 DEF Tally, Enabling
    <3>5. DOMAIN c = Fields
      BY DEF Typed, ClientOK
    <3>6. c'.features = c.features \cup {"SMACKS"}
      BY <2>1, <3>5, StanzaRows
    <3> QED BY <3>4, <3>6 DEF Acks
  <2> QED BY <1>1, <2>1 DEF Turn, Acks
<1>6. c.opts \subseteq c'.opts /\ (Acks => c'.opts = c.opts)
  <2>1. CASE BindResource
    <3>1. c.opts \subseteq c'.opts /\ c.state = "STREAMSENT"
      BY <2>1, BindRows
    <3>2. ~ Acks
      BY <3>1 DEF Tally, Negotiation, InOrder, Turns, Done
    <3> QED BY <3>1, <3>2
  <2> QED BY <1>1, <2>1 DEF Turn
<1>7. Acks => Fewer
  BY <1>1, <1>4 DEF Turn, Tally, Negotiation, InOrder, Turns
<1>8. /\ Count(Sent', Stanzas) = Count(Sent, Stanzas)
      /\ EnableFirst(Sent) => EnableFirst(Sent')
      /\ \A e \in Going' :
            e \in Going \/ (e.name # "enable" /\ (e.name = "a" => e.k = c.actualrecv))
  <2>1. CASE Sent' = Sent /\ Going' = Going
    BY <2>1
  <2>2. ASSUME NEW x \in Element, Speaks(x)
        PROVE  /\ Count(Sent', Stanzas) = Count(Sent, Stanzas)
               /\ EnableFirst(Sent) => EnableFirst(Sent')
               /\ Going' \subseteq Going \cup {x}
               /\ x.name # "enable" /\ (x.name = "a" => x.k = c.actualrecv)
    BY <2>2 DEF Speaks, Behind, Words, Stanzas
  <2> QED BY <1>1, <2>1, <2>2 DEF Turn
<1>9. /\ Acks => c'.actualrecv + Count(Left', Countable) <= c.actualrecv + Count(Left, Countable)
      /\ ~ Acks => c'.actualrecv = c.actualrecv
  <2>1. CASE HandOver
    BY <1>2, <2>1, HandedOver
  <2>2. CASE c'.actualrecv = c.actualrecv
    <3>1. Acks => Count(Left', Countable) <= Count(Left, Countable)
      BY <1>7 DEF Fewer
    <3> QED BY <1>2, <1>3, <2>2, <3>1
  <2> QED BY <1>1, <2>1, <2>2 DEF Turn
<1>10. c'.actualsent = c.actualsent
  BY <1>1 DEF Turn
<1>11. Enabling' => Acks'
  <2>1. Enabling' => Enabling
    BY <1>1, <1>8 DEF Enabling
  <2> QED BY <1>5, <2>1 DEF Tally
<1>12. Acks' => c'.isnegotiationdone /\ "DISABLESMACKS" \notin c'.opts
  BY <1>4, <1>5, <1>6 DEF Tally
<1>13. c'.isnegotiationdone /\ ~ Acks' => "DISABLESMACKS" \in c'.opts
  BY <1>4, <1>5, <1>6 DEF Tally
<1>14. ~ c'.isnegotiationdone => Count(Sent', Stanzas) = 0
  BY <1>4, <1>8 DEF Tally
<1>15. ~ Acks' => c'.actualsent = 0 /\ c'.actualrecv = 0 /\ server'.handled = 0
  BY <1>1, <1>5, <1>9, <1>10 DEF Tally
<1>16. Acks' => c'.actualsent = server'.handled + Count(Sent', Stanzas)
  BY <1>1, <1>5, <1>8, <1>10 DEF Tally
<1>17. Acks' /\ ~ server'.sm => EnableFirst(Sent')
  BY <1>1, <1>5, <1>8 DEF Tally
<1>18. Acks' => c'.actualrecv + Count(Left', Countable) <= server'.counted
  <2>1. c'.actualrecv \in Nat
    BY DEF Typed, ClientOK, Counters
  <2>2. Acks => c.actualrecv + Count(Left, Countable) <= server.counted
    BY DEF Tally
  <2> QED BY <1>1, <1>2, <1>3, <1>5, <1>9, <2>1, <2>2
<1>19. \A e \in Coming' : e \in Countable => server'.bound
  BY <1>1 DEF Tally
<1>20. ~ Acks' /\ "DISABLESMACKS" \notin c'.opts => Count(Left', Countable) = 0
  <2> SUFFICES ASSUME ~ Acks', "DISABLESMACKS" \notin c'.opts PROVE Count(Left', Countable) = 0
    OBVIOUS
  <2>1. Count(Left, Countable) = 0
    BY <1>5, <1>6 DEF Tally
  <2>2. CASE Fewer
    <3>1. Count(Left', Countable) <= Count(Left, Countable)
      BY <2>2 DEF Fewer
    <3> QED BY <1>3, <2>1, <3>1
  <2>3. CASE c'.state = "INIT"
    <3>1. ~ server'.bound
      BY <2>3 DEF Turns
    <3>2. Ended(Left') \subseteq Coming' /\ Left' \in Seq(Part)
      BY SidesNext DEF Sides
    <3>3. Ended(Left') \cap Countable = {}
      BY <1>19, <3>1, <3>2
    <3> QED BY <3>2, <3>3, CountIs
  <2> QED BY <1>1, <2>2, <2>3 DEF Turn
<1>21. \A e \in Going' : e.name = "a" => e.k <= server'.counted
  <2>1. c.actualrecv <= server.counted
    BY <1>2 DEF Tally
  <2> QED BY <1>1, <1>8, <2>1 DEF Tally
<1>22. ret' \in {"READY", "STANZA", "GIVEPWD"} => c'.out = <<>>
  BY <1>1 DEF Turn
<1> QED BY <1>11, <1>12, <1>13, <1>14, <1>15, <1>16, <1>17, <1>18, <1>19, <1>20, <1>21, <1>22
        DEF Tally

LEMMA BoundTally ==
  ASSUME Typed, Typed', Tally, xmppIterate, Bound, OutSize <= OutCap
  PROVE  Tally'
<1>1. Turn /\ server' = server /\ Coming' \subseteq Coming /\ toServer' = toServer
  BY IterateTurn, TookIs, IterateIn
<1>2. DOMAIN c = Fields
  BY DEF Typed, ClientOK
<1>3. ReadsStanza /\ c.out = <<>> /\ ~ c.isnegotiationdone /\ ~ Acks
  BY StanzaIs DEF Bound, Negotiates, Tally
<1>4. /\ c.actualsent = 0 /\ c.actualrecv = 0 /\ server.handled = 0 /\ server.counted \in Nat
      /\ Count(Sent, Stanzas) = 0 /\ Count(Left, Countable) \in Nat
      /\ Count(Left', Countable) \in Nat
  BY <1>3, TallyNumbers, SidesNext DEF Tally, Sides
<1>5. c'.actualsent = 0 /\ c'.actualrecv = 0
  <2>1. ~ HandOver
    BY <1>3 DEF HandOver, Established
  <2> QED BY <1>1, <1>4, <2>1 DEF Turn
<1>6. c'.opts = c.opts
  <2>1. ~ BindResource
    BY DEF BindResource, Encrypted, ReadsFeatures, Bound, Negotiates
  <2> QED BY <1>1, <2>1 DEF Turn
<1>7. Fewer
  BY <1>2, <1>3, TakenTurn, BoundIs, Zenon DEF Looked, Accepted
<1>8. Count(Left', Countable) <= Count(Left, Countable)
  BY <1>7 DEF Fewer
<1>9. \A e \in Coming' : e \in Countable => server'.bound
  BY <1>1 DEF Tally
<1>10. ~ Enabling
  BY <1>3 DEF Tally
<1>11. ret' \in {"READY", "STANZA", "GIVEPWD"} => c'.out = <<>>
  BY <1>1 DEF Turn
<1>12. ASSUME c'.out = c.out, c'.features = c.features,
              c'.isnegotiationdone \in BOOLEAN,
              c'.isnegotiationdone => "DISABLESMACKS" \in c.opts
       PROVE  Tally'
  <2>1. Sent' = Sent /\ Going' = Going /\ ~ Acks'
    BY <1>1, <1>3, <1>12, SentSame DEF Acks
  <2>2. ~ Enabling'
    BY <1>1, <1>10, <2>1 DEF Enabling
  <2>3. "DISABLESMACKS" \notin c'.opts => Count(Left', Countable) = 0
    BY <1>3, <1>4, <1>6, <1>8 DEF Tally
  <2>4. \A e \in Going' : e.name = "a" => e.k <= server'.counted
    BY <1>1, <2>1 DEF Tally
  <2> QED BY <1>1, <1>4, <1>5, <1>6, <1>9, <1>11, <1>12, <2>1, <2>2, <2>3, <2>4 DEF Tally
<1>13. CASE Looked \/ (Took({}) /\ Before)
  <2>1. c'.out = c.out /\ c'.features = c.features /\ c'.isnegotiationdone = c.isnegotiationdone
    BY <1>13 DEF Looked, Took, Alike, Fields
  <2> QED BY <1>3, <1>12, <2>1, TallyNumbers
<1>14. CASE /\ Took({"state", "isnegotiationdone"}) /\ c'.isnegotiationdone = TRUE
            /\ "DISABLESMACKS" \in c.opts
  <2>1. c'.out = c.out /\ c'.features = c.features
    BY <1>14 DEF Took, Alike, Fields
  <2> QED BY <1>12, <1>14, <2>1, Zenon
<1>15. CASE /\ Took({"state", "isnegotiationdone", "features", "out"})
            /\ c'.isnegotiationdone = TRUE /\ "DISABLESMACKS" \notin c.opts
            /\ c'.features = c.features \cup {"SMACKS"}
            /\ c'.out = Appended(<<>>, E("enable"))
  <2>1. E("enable") \in Element /\ E("enable").name = "enable" /\ E("enable") \notin Stanzas
    BY ElementIs DEF Names, E, Stanzas
  <2>2. Behind(E("enable")) /\ EnableFirst(Sent')
    <3>1. Len(c.out) + OutSize <= OutCap
      BY <1>3 DEF XmppAssumption
    <3>2. c'.out = Appended(c.out, E("enable"))
      BY <1>3, <1>15
    <3> QED BY <1>1, <1>4, <2>1, <3>1, <3>2, SentBehind
  <2>3. Count(Sent', Stanzas) = 0 /\ Going' \subseteq Going \cup {E("enable")}
    BY <1>4, <2>1, <2>2 DEF Behind
  <2>4. Acks'
    BY <1>15 DEF Acks
  <2>5. Count(Left', Countable) = 0
    BY <1>3, <1>4, <1>8, <1>15 DEF Tally
  <2>6. \A e \in Going' : e.name = "a" => e.k <= server'.counted
    BY <1>1, <2>1, <2>3 DEF Tally
  <2>7. c'.actualrecv + Count(Left', Countable) <= server'.counted
    BY <1>1, <1>4, <1>5, <2>5
  <2>8. c'.actualsent = server'.handled + Count(Sent', Stanzas)
    BY <1>1, <1>4, <1>5, <2>3
  <2>9. c'.isnegotiationdone /\ "DISABLESMACKS" \notin c'.opts /\ EnableFirst(Sent')
    BY <1>6, <1>15, <2>2
  <2> QED BY <1>9, <1>11, <2>4, <2>6, <2>7, <2>8, <2>9 DEF Tally
<1> QED BY <1>2, <1>13, <1>14, <1>15, BoundIs, Zenon DEF Accepted

(* What the application sends: a password, or a stanza and a request for   *)
(* an acknowledgement.                                                     *)
LEMMA Formatted ==
  ASSUME Typed, NEW name \in {"presence", "iq"}, Format(name), c.out = <<>>, OutSize <= OutCap
  PROVE  /\ c'.in = c.in /\ c'.i = c.i /\ c'.state = c.state /\ c'.opts = c.opts
         /\ c'.features = c.features
         /\ c'.isnegotiationdone = c.isnegotiationdone /\ c'.actualrecv = c.actualrecv
         /\ \A e \in Going' : e \in Going \/ e.name \in {"presence", "iq", "r"}
         /\ Ended(Sent') \subseteq Ended(Sent) \cup {E(name), E("r")}
         /\ EnableFirst(Sent) => EnableFirst(Sent')
         /\ Acks => c'.actualsent + Count(Sent, Stanzas) = c.actualsent + Count(Sent', Stanzas)
         /\ ~ Acks => c'.actualsent = c.actualsent
<1>1. DOMAIN c = Fields /\ toServer' = toServer
  BY DEF Typed, ClientOK, Format
<1>2. /\ E(name) \in Element /\ E("r") \in Element /\ E(name).name = name /\ E("r").name = "r"
      /\ E(name) \in Stanzas /\ E("r") \notin Stanzas
  BY ElementIs, Zenon DEF Names, E, Stanzas
<1>3. c.out \in Seq(Part) /\ Len(c.out) <= OutCap /\ toServer \in Seq(Part)
      /\ Len(c.out) + OutSize <= OutCap
  BY DEF Typed, ClientOK, XmppAssumption
<1> DEFINE b == Appended(c.out, E(name))
           d == Appended(b, E("r"))
<1>4. /\ b \in Seq(Part) /\ Len(b) <= OutCap
      /\ Count(b, Stanzas) = Count(c.out, Stanzas) + 1
      /\ Ended(b) \subseteq Ended(c.out) \cup {E(name)}
      /\ Elements(b) \subseteq Elements(c.out) \cup {E(name)}
      /\ \E f \in Seq(Part) : b = c.out \o f
  <2>1. b \in Seq(Part) /\ Len(b) <= OutCap
    BY <1>2, <1>3, AppendedIs, Zenon
  <2>2. Count(b, Stanzas) = Count(c.out, Stanzas) + 1
    <3>1. \A s \in Seq(Part), e \in Element : Len(s) <= OutCap /\ Len(s) + OutSize <= OutCap =>
            \A S : e \in S => Count(Appended(s, e), S) = Count(s, S) + 1
      BY CountAppended
    <3>2. \A S : E(name) \in S => Count(Appended(c.out, E(name)), S) = Count(c.out, S) + 1
      BY <1>2, <1>3, <3>1, Zenon
    <3> QED BY <1>2, <3>2
  <2>3. Ended(b) \subseteq Ended(c.out) \cup {E(name)}
    BY <1>2, <1>3, CountAppended, Zenon
  <2>4. Elements(b) \subseteq Elements(c.out) \cup {E(name)}
    BY <1>2, <1>3, ElementsAre, Zenon
  <2>5. PICK k \in 0..OutSize : b = c.out \o SubSeq(Parts(E(name), OutSize), 1, k)
    BY <1>2, <1>3, AppendedBehind, Zenon
  <2>6. SubSeq(Parts(E(name), OutSize), 1, k) \in Seq(Part)
    BY <1>2, CountParts DEF XmppAssumption
  <2> HIDE DEF b
  <2> QED BY <2>1, <2>2, <2>3, <2>4, <2>5, <2>6
<1> HIDE DEF b
<1>5. /\ d \in Seq(Part)
      /\ Count(d, Stanzas) = Count(b, Stanzas)
      /\ Ended(d) \subseteq Ended(b) \cup {E("r")}
      /\ Elements(d) \subseteq Elements(b) \cup {E("r")}
      /\ \E f \in Seq(Part) : d = b \o f
  <2>1. d \in Seq(Part)
    BY <1>2, <1>4, AppendedIs
  <2>2. Count(d, Stanzas) = Count(b, Stanzas)
    BY <1>2, <1>4, CountAppended
  <2>3. Ended(d) \subseteq Ended(b) \cup {E("r")}
    BY <1>2, <1>4, CountAppended
  <2>4. Elements(d) \subseteq Elements(b) \cup {E("r")}
    BY <1>2, <1>4, ElementsAre
  <2>5. PICK k \in 0..OutSize : d = b \o SubSeq(Parts(E("r"), OutSize), 1, k)
    BY <1>2, <1>4, AppendedBehind, Zenon
  <2>6. SubSeq(Parts(E("r"), OutSize), 1, k) \in Seq(Part)
    BY <1>2, CountParts DEF XmppAssumption
  <2> HIDE DEF d
  <2> QED BY <2>1, <2>2, <2>3, <2>4, <2>5, <2>6, Zenon
<1> HIDE DEF d
<1>6. \/ c' = c
      \/ /\ Acks /\ Alike(c, c', {"out", "actualsent"})
         /\ c'.out = d /\ c'.actualsent = c.actualsent + 1
      \/ ~ Acks /\ Alike(c, c', {"out"}) /\ c'.out = b
  BY <1>1, FormatRows DEF Acks, b, d
<1>7. /\ c'.in = c.in /\ c'.i = c.i /\ c'.state = c.state /\ c'.opts = c.opts
      /\ c'.features = c.features
      /\ c'.isnegotiationdone = c.isnegotiationdone /\ c'.actualrecv = c.actualrecv
      /\ ~ Acks => c'.actualsent = c.actualsent
  BY <1>6 DEF Alike, Fields
<1>8. \A x, y, z \in Seq(Part) : (x \o y) \o z = x \o (y \o z)
  BY Associates
<1>9. /\ \A S : Count(Sent, S) = Count(toServer, S) + Count(c.out, S)
      /\ Count(Sent, Stanzas) \in Nat /\ Count(toServer, Stanzas) \in Nat
      /\ Ended(Sent) = Ended(toServer) \cup Ended(c.out) /\ Sent \in Seq(Part)
  BY SentIs
<1>10. ASSUME NEW s \in Seq(Part), c'.out = s, NEW f \in Seq(Part), s = c.out \o f
       PROVE  /\ Count(Sent', Stanzas) = Count(toServer, Stanzas) + Count(s, Stanzas)
              /\ Ended(Sent') = Ended(toServer) \cup Ended(s)
              /\ EnableFirst(Sent) => EnableFirst(Sent')
  <2>1. Sent' = toServer \o s
    BY <1>1, <1>10 DEF Sent
  <2>2. (toServer \o c.out) \o f = toServer \o (c.out \o f)
    BY <1>3, <1>8, <1>10
  <2>3. Sent' = Sent \o f
    BY <1>10, <2>1, <2>2 DEF Sent
  <2>4. EnableFirst(Sent) => EnableFirst(Sent')
    BY <1>9, <1>10, <2>3, EnableStays
  <2>5. Count(Sent', Stanzas) = Count(toServer, Stanzas) + Count(s, Stanzas)
    BY <1>3, <1>10, <2>1, CountConcat
  <2>6. Ended(Sent') = Ended(toServer) \cup Ended(s)
    BY <1>3, <1>10, <2>1, EndedAre
  <2> QED BY <2>4, <2>5, <2>6
<1>11. Count(c.out, Stanzas) \in Nat /\ c.actualsent \in Nat
  BY <1>3, CountIs, TallyNumbers, Zenon
<1>12. CASE c' = c
  <2>1. Sent' = Sent /\ Going' = Going
    BY <1>1, <1>12, SentSame
  <2> QED BY <1>7, <1>12, <2>1
<1>13. CASE /\ Acks /\ Alike(c, c', {"out", "actualsent"}) /\ c'.out = d
            /\ c'.actualsent = c.actualsent + 1
  <2>1. PICK f \in Seq(Part) : b = c.out \o f
    BY <1>4
  <2>2. PICK g \in Seq(Part) : d = b \o g
    BY <1>5, Zenon
  <2>3. d = c.out \o (f \o g) /\ f \o g \in Seq(Part)
    <3>1. (c.out \o f) \o g = c.out \o (f \o g)
      BY <1>3, <1>8
    <3> QED BY <2>1, <2>2, <3>1, ConcatProperties
  <2>4. /\ Count(Sent', Stanzas) = Count(toServer, Stanzas) + Count(d, Stanzas)
        /\ Ended(Sent') = Ended(toServer) \cup Ended(d)
        /\ EnableFirst(Sent) => EnableFirst(Sent')
    BY <1>5, <1>10, <1>13, <2>3, Zenon
  <2>5. Count(Sent', Stanzas) = Count(Sent, Stanzas) + 1
    BY <1>4, <1>5, <1>9, <1>11, <2>4
  <2>6. Ended(Sent') \subseteq Ended(Sent) \cup {E(name), E("r")}
    BY <1>4, <1>5, <1>9, <2>4
  <2>7. \A e \in Going' : e \in Going \/ e.name \in {"presence", "iq", "r"}
    BY <1>1, <1>2, <1>4, <1>5, <1>13 DEF Going
  <2>8. c'.actualsent + Count(Sent, Stanzas) = c.actualsent + Count(Sent', Stanzas)
    BY <1>9, <1>11, <1>13, <2>5
  <2> QED BY <1>7, <1>13, <2>4, <2>6, <2>7, <2>8
<1>14. CASE ~ Acks /\ Alike(c, c', {"out"}) /\ c'.out = b
  <2>1. PICK f \in Seq(Part) : b = c.out \o f
    BY <1>4
  <2>2. /\ Ended(Sent') = Ended(toServer) \cup Ended(b)
        /\ EnableFirst(Sent) => EnableFirst(Sent')
    BY <1>4, <1>10, <1>14, <2>1
  <2>3. Ended(Sent') \subseteq Ended(Sent) \cup {E(name), E("r")}
    BY <1>4, <1>9, <2>2
  <2>4. \A e \in Going' : e \in Going \/ e.name \in {"presence", "iq", "r"}
    BY <1>1, <1>2, <1>4, <1>14 DEF Going
  <2> QED BY <1>7, <1>14, <2>2, <2>3, <2>4
<1> QED BY <1>6, <1>12, <1>13, <1>14

(* What a step of the application does to the counters and to the elements *)
(* under way.                                                              *)
Acted ==
  /\ server' = server /\ Left' = Left /\ Coming' \subseteq Coming
  /\ Calm' => Calm
  /\ c'.opts = c.opts /\ c'.features = c.features /\ c'.actualrecv = c.actualrecv
  /\ c'.isnegotiationdone = c.isnegotiationdone
  /\ ret' \notin {"READY", "STANZA", "GIVEPWD"}
  /\ \/ Sent' = Sent /\ Going' \subseteq Going /\ c'.actualsent = c.actualsent
     \/ \E name \in {"presence", "iq"} : Format(name)
     \/ /\ ~ c.isnegotiationdone /\ c'.actualsent = c.actualsent
        /\ \E e \in Element : Behind(e) /\ e.name \in {"response", "authplain"}

LEMMA ApplicationActs ==
  ASSUME Typed, Negotiation, Turns, Application, "resume" \notin AppMay
  PROVE  Acted
<1>1. DOMAIN c = Fields
  BY DEF Typed, ClientOK
<1>2. ASSUME NEW fs, Alike(c, c', fs), fs \cap {"in", "i", "opts", "features", "actualrecv",
                                               "isnegotiationdone"} = {},
             toClient' = toClient
      PROVE  /\ c'.in = c.in /\ Left' = Left /\ Coming' \subseteq Coming
             /\ c'.opts = c.opts /\ c'.features = c.features /\ c'.actualrecv = c.actualrecv
             /\ c'.isnegotiationdone = c.isnegotiationdone
  <2>1. \A f \in {"in", "i", "opts", "features", "actualrecv", "isnegotiationdone"} : c'[f] = c[f]
    BY <1>2 DEF Alike, Fields
  <2>2. /\ c'.in = c.in /\ c'.i = c.i
        /\ c'.opts = c.opts /\ c'.features = c.features /\ c'.actualrecv = c.actualrecv
        /\ c'.isnegotiationdone = c.isnegotiationdone
    BY <2>1
  <2>3. Left' = Left
    BY <1>2, <2>2, LeftSame
  <2> QED BY <1>2, <2>2, <2>3 DEF Coming
<1>3. CASE \E n \in 1..Len(c.out) : Send(n)
  <2>1. PICK n \in 1..Len(c.out) : Send(n)
    BY <1>3
  <2>2. /\ Alike(c, c', {"out"}) /\ c'.out = Drop(c.out, n) /\ ret' = "OK"
        /\ toServer' = toServer \o SubSeq(c.out, 1, n) /\ UNCHANGED <<server, toClient>>
    BY <1>1, <2>1, OwnRows, Zenon DEF Send
  <2>3. Sent' = Sent /\ Going' \subseteq Going
    BY <2>2, SentWritten
  <2>4. c'.actualsent = c.actualsent /\ c'.state = c.state /\ c'.in = c.in
    BY <2>2 DEF Alike, Fields
  <2> QED BY <1>2, <2>2, <2>3, <2>4 DEF Acted, Calm, CanFlush
<1>4. CASE \E n \in 1..Len(toClient) : Receive(n)
  <2>1. PICK n \in 1..Len(toClient) : Receive(n)
    BY <1>4
  <2>2. /\ Alike(c, c', {"in"}) /\ c'.in = c.in \o SubSeq(toClient, 1, n) /\ ret' = "OK"
        /\ toClient' = Drop(toClient, n) /\ UNCHANGED <<server, toServer>>
    BY <1>1, <2>1, OwnRows, Zenon DEF Receive
  <2>3. \A f \in Fields \ {"in"} : c'[f] = c[f]
    BY <2>2 DEF Alike
  <2>4. /\ c'.opts = c.opts /\ c'.features = c.features /\ c'.actualrecv = c.actualrecv
        /\ c'.isnegotiationdone = c.isnegotiationdone /\ c'.actualsent = c.actualsent
        /\ c'.i = c.i /\ c'.state = c.state /\ c'.out = c.out
    BY <2>3 DEF Fields
  <2>5. Left' = Left
    BY <2>2, <2>4, LeftReceived
  <2>6. n \in 0..Len(toClient) /\ toClient \in Seq(Part) /\ c.in \in Seq(Part)
    BY DEF Typed, ClientOK
  <2>7. /\ SubSeq(toClient, 1, n) \in Seq(Part) /\ Len(SubSeq(toClient, 1, n)) = n
        /\ Elements(SubSeq(toClient, 1, n)) \subseteq Elements(toClient)
        /\ Elements(Drop(toClient, n)) \subseteq Elements(toClient)
    BY <2>6, FrontIs, ElementsAre
  <2>8. Coming' \subseteq Coming
    <3>1. Elements(c'.in) = Elements(c.in) \cup Elements(SubSeq(toClient, 1, n))
      BY <2>2, <2>6, <2>7, ConcatElements, Zenon
    <3> QED BY <2>2, <2>7, <3>1 DEF Coming
  <2>9. Calm' => Calm
    <3>1. Len(c'.in) = Len(c.in) + n /\ Len(c.in) \in Nat
      BY <2>2, <2>6, <2>7, ConcatProperties
    <3> QED BY <2>4, <3>1 DEF Calm, CanFlush, XmppAssumption
  <2>10. Sent' = Sent /\ Going' = Going
    BY <2>2, <2>4, SentSame
  <2> QED BY <2>2, <2>4, <2>5, <2>8, <2>9, <2>10 DEF Acted
<1>5. CASE Handshake \/ GoOn \/ Exit
  <2>1. UNCHANGED <<c, server, toServer, toClient>> /\ ret' \in {"OK", "EXIT"}
    BY <1>5 DEF Handshake, GoOn, Exit, net
  <2>2. Sent' = Sent /\ Going' = Going
    BY <2>1, SentSame
  <2>3. Alike(c, c', {})
    BY <1>1, <2>1 DEF Alike
  <2> QED BY <1>2, <2>1, <2>2, <2>3 DEF Acted, Calm, CanFlush
<1>6. CASE \E right \in BOOLEAN : xmppSupplyPassword(right)
  <2>1. PICK right \in BOOLEAN : xmppSupplyPassword(right)
    BY <1>6
  <2>2. /\ UNCHANGED <<server, toServer, toClient>> /\ c.state \in {"SASLPWD", "SASLPLAIN"}
        /\ ret' = "OK"
    BY <2>1 DEF xmppSupplyPassword, net, Negotiation, InOrder
  <2>3. Calm /\ ~ c.isnegotiationdone
    BY <2>2 DEF Calm, Turns, Negotiation, InOrder, Done
  <2>4. CASE Alike(c, c', {"solved"})
    <3>1. c'.out = c.out /\ c'.actualsent = c.actualsent
      BY <2>4 DEF Alike, Fields
    <3>2. Sent' = Sent /\ Going' = Going
      BY <2>2, <3>1, SentSame
    <3> QED BY <1>2, <2>2, <2>3, <2>4, <3>1, <3>2 DEF Acted
  <2>5. CASE /\ Alike(c, c', {"solved", "out", "state"})
             /\ \E ok \in BOOLEAN :
                  c'.out = Appended(c.out, [E(IF c.state = "SASLPWD" THEN "response"
                                              ELSE "authplain") EXCEPT !.ok = ok])
    <3>1. PICK name \in {"response", "authplain"}, ok \in BOOLEAN :
            c'.out = Appended(c.out, [E(name) EXCEPT !.ok = ok])
      BY <2>5
    <3> DEFINE e == [E(name) EXCEPT !.ok = ok]
    <3>2. e \in Element /\ e.name = name
      <4>1. E(name) \in Element
        BY ElementIs DEF Names
      <4> QED BY <4>1, ElementWith, Zenon DEF E
    <3> HIDE DEF e
    <3>3. Behind(e)
      BY <2>2, <3>1, <3>2, SentBehind DEF e
    <3>4. c'.actualsent = c.actualsent
      BY <2>5 DEF Alike, Fields
    <3> QED BY <1>2, <2>2, <2>3, <2>5, <3>2, <3>3, <3>4 DEF Acted
  <2> QED BY <1>1, <2>1, <2>4, <2>5, PasswordRows, Zenon
<1>7. CASE \E name \in {"presence", "iq"} : Format(name)
  <2>1. PICK name \in {"presence", "iq"} : Format(name)
    BY <1>7
  <2>2. UNCHANGED <<server, toServer, toClient>> /\ ret' = "OK"
    BY <2>1 DEF Format
  <2>3. Alike(c, c', {"out", "actualsent"})
    BY <1>1, <2>1, FormatRows DEF Alike, Fields
  <2>4. c'.state = c.state
    BY <2>3 DEF Alike, Fields
  <2> QED BY <1>2, <1>7, <2>2, <2>3, <2>4 DEF Acted, Calm, CanFlush
<1>8. CASE xmppEndStream
  <2>1. /\ Alike(c, c', {"state"}) /\ UNCHANGED <<server, toServer, toClient>>
        /\ server.bound /\ ret' = "OK"
    BY <1>1, <1>8, OwnRows DEF xmppEndStream, net, Negotiation, InOrder
  <2>2. c'.out = c.out /\ c'.actualsent = c.actualsent
    BY <2>1 DEF Alike, Fields
  <2>3. Sent' = Sent /\ Going' = Going
    BY <2>1, <2>2, SentSame
  <2>4. Calm
    BY <2>1 DEF Turns, Done, Calm
  <2> QED BY <1>2, <2>1, <2>2, <2>3, <2>4 DEF Acted
<1>9. CASE xmppResume
  BY <1>9 DEF xmppResume
<1> QED BY <1>3, <1>4, <1>5, <1>6, <1>7, <1>8, <1>9 DEF Application

LEMMA ApplicationSpeaks ==
  ASSUME Typed, Negotiation, Turns, Tally, Application, "resume" \notin AppMay, OutSize <= OutCap
  PROVE  /\ \A e \in Ended(Sent') : e \in Ended(Sent) \/ e.name # "bind"
         /\ \A e \in Going' : e \in Going \/ e.name \notin {"enable", "a"}
         /\ EnableFirst(Sent) => EnableFirst(Sent')
         /\ ~ c.isnegotiationdone => Count(Sent', Stanzas) = Count(Sent, Stanzas)
         /\ Acks => c'.actualsent + Count(Sent, Stanzas) = c.actualsent + Count(Sent', Stanzas)
         /\ ~ Acks => c'.actualsent = c.actualsent
<1>1. Acted
  BY ApplicationActs
<1>2. CASE Sent' = Sent /\ Going' \subseteq Going /\ c'.actualsent = c.actualsent
  BY <1>2
<1>3. CASE \E name \in {"presence", "iq"} : Format(name)
  <2>1. PICK name \in {"presence", "iq"} : Format(name)
    BY <1>3
  <2>2. c.out = <<>> /\ c.isnegotiationdone
    BY <2>1 DEF Format, Tally, Negotiation, InOrder
  <2>3. /\ \A e \in Going' : e \in Going \/ e.name \in {"presence", "iq", "r"}
        /\ Ended(Sent') \subseteq Ended(Sent) \cup {E(name), E("r")}
        /\ EnableFirst(Sent) => EnableFirst(Sent')
        /\ Acks => c'.actualsent + Count(Sent, Stanzas) = c.actualsent + Count(Sent', Stanzas)
        /\ ~ Acks => c'.actualsent = c.actualsent
    BY <2>1, <2>2, Formatted, Zenon
  <2>4. E(name).name # "bind" /\ E("r").name # "bind"
    BY DEF E
  <2> QED BY <2>2, <2>3, <2>4
<1>4. CASE /\ ~ c.isnegotiationdone /\ c'.actualsent = c.actualsent
           /\ \E e \in Element : Behind(e) /\ e.name \in {"response", "authplain"}
  <2>1. PICK e \in Element : Behind(e) /\ e.name \in {"response", "authplain"}
    BY <1>4
  <2>2. Count(Sent', Stanzas) = Count(Sent, Stanzas)
    BY <2>1 DEF Behind, Stanzas
  <2> QED BY <1>4, <2>1, <2>2 DEF Behind
<1> QED BY <1>1, <1>2, <1>3, <1>4 DEF Acted

LEMMA ApplicationOffered ==
  ASSUME Typed, Negotiation, Turns, Tally, Offered, Application, "resume" \notin AppMay,
         OutSize <= OutCap
  PROVE  Offered'
<1>1. Acted
  BY ApplicationActs
<1>2. \A e \in Ended(Sent') : e \in Ended(Sent) \/ e.name # "bind"
  BY ApplicationSpeaks
<1> QED BY <1>1, <1>2 DEF Acted, Offered

LEMMA ApplicationTally ==
  ASSUME Typed, Typed', Negotiation, Turns, Tally, Application, "resume" \notin AppMay,
         OutSize <= OutCap
  PROVE  Tally'
<1>1. Acted
  BY ApplicationActs
<1>2. /\ \A e \in Going' : e \in Going \/ e.name \notin {"enable", "a"}
      /\ EnableFirst(Sent) => EnableFirst(Sent')
      /\ ~ c.isnegotiationdone => Count(Sent', Stanzas) = Count(Sent, Stanzas)
      /\ Acks => c'.actualsent + Count(Sent, Stanzas) = c.actualsent + Count(Sent', Stanzas)
      /\ ~ Acks => c'.actualsent = c.actualsent
  BY ApplicationSpeaks
<1>3. /\ c.actualsent \in Nat /\ c'.actualsent \in Nat /\ server.handled \in Nat
      /\ Count(Sent, Stanzas) \in Nat /\ Count(Sent', Stanzas) \in Nat
  <2>1. c'.actualsent \in Nat
    BY DEF Typed, ClientOK, Counters
  <2> QED BY <2>1, TallyNumbers, SidesNext DEF Sides
<1>4. /\ Acks' <=> Acks
      /\ server' = server /\ Coming' \subseteq Coming /\ Left' = Left
      /\ c'.opts = c.opts /\ c'.actualrecv = c.actualrecv
      /\ c'.isnegotiationdone = c.isnegotiationdone
      /\ ret' \notin {"READY", "STANZA", "GIVEPWD"}
  BY <1>1 DEF Acted, Acks
<1>5. Enabling' => Enabling
  BY <1>2, <1>4 DEF Enabling
<1>6. Acks' => c'.actualsent = server'.handled + Count(Sent', Stanzas)
  <2>1. Acks => c.actualsent = server.handled + Count(Sent, Stanzas)
    BY DEF Tally
  <2> QED BY <1>2, <1>3, <1>4, <2>1
<1>7. ~ c'.isnegotiationdone => Count(Sent', Stanzas) = 0
  BY <1>2, <1>4 DEF Tally
<1>8. \A e \in Going' : e.name = "a" => e.k <= server'.counted
  BY <1>2, <1>4 DEF Tally
<1>9. ~ Acks' => c'.actualsent = 0 /\ c'.actualrecv = 0 /\ server'.handled = 0
  BY <1>2, <1>4 DEF Tally
<1>10. Acks' /\ ~ server'.sm => EnableFirst(Sent')
  BY <1>2, <1>4 DEF Tally
<1>11. \A e \in Coming' : e \in Countable => server'.bound
  BY <1>4 DEF Tally
<1> QED BY <1>4, <1>5, <1>6, <1>7, <1>8, <1>9, <1>10, <1>11 DEF Tally

-----------------------------------------------------------------------------
(* What an answer of the server, or a push, does to the elements under way.*)
LEMMA AnswerIs ==
  ASSUME Typed, HasEnd(toServer)
  PROVE  /\ \A s, e : Answer(s, e) /\ e \in Element =>
              c' = c /\ ret' = ret /\ server' = s /\ Heard /\ Comes(e)
         /\ \A s : Ignore(s) =>
              /\ c' = c /\ ret' = ret /\ server' = s /\ toClient' = toClient /\ Heard
              /\ Left' = Left /\ Coming' = Coming
<1>1. ASSUME NEW s, NEW e, Answer(s, e), e \in Element
      PROVE  c' = c /\ ret' = ret /\ server' = s /\ Heard /\ Comes(e)
  <2>1. /\ c' = c /\ ret' = ret /\ server' = s
        /\ toServer' = Drop(toServer, FirstEnd(toServer))
    BY <1>1 DEF Answer
  <2>2. PICK n \in Sizes : toClient' = toClient \o Parts(e, n)
    BY <1>1, Zenon DEF Answer
  <2>3. n \in Nat /\ n > 0
    BY DEF XmppAssumption
  <2> QED BY <1>1, <2>1, <2>2, <2>3, ServerHears, ServerSends
<1>2. ASSUME NEW s, Ignore(s)
      PROVE  /\ c' = c /\ ret' = ret /\ server' = s /\ toClient' = toClient /\ Heard
             /\ Left' = Left /\ Coming' = Coming
  <2>1. /\ c' = c /\ ret' = ret /\ server' = s /\ toClient' = toClient
        /\ toServer' = Drop(toServer, FirstEnd(toServer))
    BY <1>2 DEF Ignore
  <2>2. Heard
    BY <2>1, ServerHears
  <2> QED BY <2>1, <2>2, LeftSame DEF Coming
<1> QED BY <1>1, <1>2

LEMMA PushIs ==
  ASSUME Typed, NEW s, NEW e \in Element, NEW n \in Nat, n > 0, Push(s, e, n)
  PROVE  c' = c /\ ret' = ret /\ server' = s /\ Sent' = Sent /\ Going' = Going /\ Comes(e)
<1>1. /\ c' = c /\ ret' = ret /\ server' = s /\ toServer' = toServer
      /\ toClient' = toClient \o Parts(e, n)
  BY DEF Push
<1> QED BY <1>1, SentSame, ServerSends

(* What a step of the server does, by what it makes of the request it      *)
(* reads, of its counters, and of the element it sends.                    *)
Keeps(fs) ==
  \A f \in {"bound", "sm", "handled", "counted", "offered"} \ fs : server'[f] = server[f]

One(b) == IF b THEN 1 ELSE 0

Plain(e) == Comes(e) /\ e.features = {} /\ e \notin Countable /\ e.name # "enabled"

Quiet == toClient' = toClient /\ Left' = Left /\ Coming' = Coming

Opens ==
  /\ Heard /\ Request.name = "stream"
  /\ \E e \in Element :
       /\ Comes(e) /\ e \notin Countable /\ e.name # "enabled"
       /\ \/ Keeps({}) /\ "BIND" \notin e.features
          \/ Keeps({"offered"}) /\ server'.offered = e.features \cap {"SMACKS"}

Replies ==
  /\ Heard /\ Request.name # "enable" /\ Keeps({})
  /\ Request \in Stanzas => ~ server.bound
  /\ Quiet \/ \E e \in Element : Plain(e)

Binds ==
  /\ Heard /\ Request.name = "bind" /\ Keeps({"bound"}) /\ server'.bound
  /\ \E e \in Element : Plain(e)

Enables ==
  /\ Heard /\ Request.name = "enable" /\ Keeps({"sm"}) /\ server'.sm
  /\ \E e \in Element : Comes(e) /\ e.features = {} /\ e \notin Countable

Handles ==
  /\ Heard /\ Request \in Stanzas
  /\ server'.handled = server.handled + One(server.sm)
  /\ \/ Quiet /\ Keeps({"handled"})
     \/ /\ server.bound /\ Keeps({"handled", "counted"})
        /\ server'.counted = server.counted + One(server.sm)
        /\ \E e \in Element : Comes(e) /\ e.features = {} /\ e.name = "iq"

Pushes ==
  /\ Sent' = Sent /\ Going' = Going /\ server.bound
  /\ server.sm \/ server.offered = {} \/ "early" \in ServerMay
  /\ Keeps({"counted"}) /\ server'.counted = server.counted + One(server.sm)
  /\ \E e \in Element : Comes(e) /\ e.features = {} /\ e.name = "message"

Adds ==
  /\ Sent' = Sent /\ Going' = Going /\ (server.bound \/ server.sm)
  /\ Keeps({}) /\ \E e \in Element : Plain(e)

Served == Opens \/ Replies \/ Binds \/ Enables \/ Handles \/ Pushes \/ Adds

(* What the server's records become.                                       *)
LEMMA ServerRecords ==
  ASSUME ServerOK(server)
  PROVE  /\ \A f \in {"tls", "auth", "asked", "closed"} : \A x :
              server' = [server EXCEPT ![f] = x] => Keeps({})
         /\ \A f \in {"bound", "sm", "offered"} : \A x :
              server' = [server EXCEPT ![f] = x] => Keeps({f}) /\ server'[f] = x
         /\ server' = server => Keeps({})
         /\ server' = Handling(server) =>
              /\ Keeps({"handled"}) /\ server'.handled = server.handled + One(server.sm)
         /\ server' = Counting(Handling(server)) =>
              /\ Keeps({"handled", "counted"})
              /\ server'.handled = server.handled + One(server.sm)
              /\ server'.counted = server.counted + One(server.sm)
         /\ \A L : server' = [Counting(server) EXCEPT !.large = L] =>
              Keeps({"counted"}) /\ server'.counted = server.counted + One(server.sm)
<1>1. /\ DOMAIN server = ServerFlags \cup ServerCounters \cup {"offered", "large", "lost"}
      /\ server.handled \in Nat /\ server.counted \in Nat
  BY DEF ServerOK, ServerCounters
<1>2. \A f \in {"tls", "auth", "asked", "closed"} : \A x :
        server' = [server EXCEPT ![f] = x] => Keeps({})
  BY <1>1 DEF Keeps, ServerFlags, ServerCounters
<1>3. \A f \in {"bound", "sm", "offered"} : \A x :
        server' = [server EXCEPT ![f] = x] => Keeps({f}) /\ server'[f] = x
  BY <1>1 DEF Keeps, ServerFlags, ServerCounters
<1>4. server' = server => Keeps({})
  BY DEF Keeps
<1>5. server' = Handling(server) =>
        Keeps({"handled"}) /\ server'.handled = server.handled + One(server.sm)
  BY <1>1 DEF Keeps, ServerFlags, ServerCounters, Handling, One
<1>6. ASSUME NEW s, ServerOK(s)
      PROVE  /\ \A f \in {"bound", "sm", "handled", "offered"} : Counting(s)[f] = s[f]
             /\ Counting(s).counted = s.counted + One(s.sm)
             /\ \A f \in {"bound", "sm", "handled", "counted", "offered"} : \A L :
                  [Counting(s) EXCEPT !.large = L][f] = Counting(s)[f]
  <2>1. DOMAIN s = ServerFlags \cup ServerCounters \cup {"offered", "large", "lost"}
        /\ s.counted \in Nat
    BY <1>6 DEF ServerOK, ServerCounters
  <2>2. \A f \in {"bound", "sm", "handled", "offered"} : Counting(s)[f] = s[f]
    BY <2>1, Zenon DEF Counting, ServerFlags, ServerCounters
  <2>3. Counting(s).counted = s.counted + One(s.sm)
    BY <2>1 DEF Counting, One, ServerFlags, ServerCounters
  <2>4. ServerOK(Counting(s))
    BY <1>6, HandlingTyped
  <2>5. \A t : ServerOK(t) => \A f \in {"bound", "sm", "handled", "counted", "offered"} : \A L :
          [t EXCEPT !.large = L][f] = t[f]
    BY DEF ServerOK, ServerFlags, ServerCounters
  <2> QED BY <2>2, <2>3, <2>4, <2>5
<1>7. server' = Counting(Handling(server)) =>
        /\ Keeps({"handled", "counted"})
        /\ server'.handled = server.handled + One(server.sm)
        /\ server'.counted = server.counted + One(server.sm)
  <2> SUFFICES ASSUME server' = Counting(Handling(server))
               PROVE  /\ Keeps({"handled", "counted"})
                      /\ server'.handled = server.handled + One(server.sm)
                      /\ server'.counted = server.counted + One(server.sm)
    OBVIOUS
  <2> DEFINE h == Handling(server)
  <2>1. ServerOK(h)
    BY HandlingTyped
  <2>2. /\ \A f \in {"bound", "sm", "counted", "offered"} : h[f] = server[f]
        /\ h.handled = server.handled + One(server.sm)
    BY <1>1 DEF Handling, One, ServerFlags, ServerCounters
  <2>3. server' = Counting(h)
    OBVIOUS
  <2> HIDE DEF h
  <2>4. /\ \A f \in {"bound", "sm", "handled", "offered"} : server'[f] = h[f]
        /\ server'.counted = h.counted + One(h.sm)
    BY <1>6, <2>1, <2>3
  <2> QED BY <2>2, <2>4 DEF Keeps
<1>8. \A L : server' = [Counting(server) EXCEPT !.large = L] =>
        Keeps({"counted"}) /\ server'.counted = server.counted + One(server.sm)
  <2> TAKE L
  <2> HAVE server' = [Counting(server) EXCEPT !.large = L]
  <2>1. \A f \in {"bound", "sm", "handled", "counted", "offered"} : server'[f] = Counting(server)[f]
    BY <1>6, ZenonT(60)
  <2>2. /\ \A f \in {"bound", "sm", "handled", "offered"} : Counting(server)[f] = server[f]
        /\ Counting(server).counted = server.counted + One(server.sm)
    BY <1>6
  <2> QED BY <2>1, <2>2, Zenon DEF Keeps
<1> QED BY <1>2, <1>3, <1>4, <1>5, <1>7, <1>8

LEMMA NamedIs ==
  ASSUME NEW name \in Names
  PROVE  /\ E(name) \in Element
         /\ E(name).name = name /\ E(name).features = {} /\ E(name).child = "none"
BY ElementIs DEF E

LEMMA OkIs ==
  ASSUME NEW name \in Names, NEW ok \in BOOLEAN
  PROVE  LET e == [E(name) EXCEPT !.ok = ok]
         IN  e \in Element /\ e.name = name /\ e.features = {} /\ e.child = "none"
<1>1. [E(name) EXCEPT !.ok = ok] \in Element
  BY NamedIs, ElementWith, Zenon
<1> QED BY <1>1 DEF E

LEMMA KIs ==
  ASSUME NEW name \in Names, NEW k \in Nat
  PROVE  LET e == [E(name) EXCEPT !.k = k]
         IN  e \in Element /\ e.name = name /\ e.features = {} /\ e.child = "none"
<1>1. [E(name) EXCEPT !.k = k] \in Element
  BY NamedIs, ElementWith, Zenon
<1> QED BY <1>1 DEF E

LEMMA FeaturesIs ==
  ASSUME NEW name \in Names, NEW F \in SUBSET (Sasl \cup {"STARTTLS", "BIND", "SMACKS"})
  PROVE  LET e == [E(name) EXCEPT !.features = F]
         IN  e \in Element /\ e.name = name /\ e.features = F /\ e.child = "none"
<1>1. [E(name) EXCEPT !.features = F] \in Element
  BY NamedIs, ElementWith, Zenon
<1> QED BY <1>1 DEF E

LEMMA ServerServes ==
  ASSUME Typed, Answers \/ PushesMessage \/ AsksAck \/ ClosesStream
  PROVE  Served /\ c' = c /\ ret' = ret
<1>1. ServerOK(server) /\ server.n + 1 \in Nat /\ server.handled \in Nat
  BY DEF Typed, ServerOK, ServerCounters
<1>2. \A names : Got(names) =>
        HasEnd(toServer) /\ Request.name \in names /\ Request \in Element
  <2>1. toServer \in Seq(Part)
    BY DEF Typed
  <2>2. HasEnd(toServer) => Request \in Element
    BY <2>1, FirstEndIs, Zenon DEF Request, Part
  <2> QED BY <2>2 DEF Got, Request
<1>3. \A e \in Element : e.features = {} /\ e.child # "none" /\ e.name = "iq" => e \notin Countable
  BY DEF Countable
<1>4. \A e \in Element : e.name \notin {"iq", "message"} => e \notin Countable
  BY DEF Countable
<1>5. \A name \in {"proceed", "failure", "success", "r", "/stream"} :
        E(name) \in Element /\ (Comes(E(name)) => Plain(E(name)))
  <2> TAKE name \in {"proceed", "failure", "success", "r", "/stream"}
  <2>1. name \in Names
    BY DEF Names
  <2>2. E(name) \in Element /\ E(name).name = name /\ E(name).features = {}
    BY <2>1, NamedIs
  <2> QED BY <1>4, <2>2 DEF Plain
<1>6. ASSUME NEW names, Got(names), "enable" \notin names, names \cap {"presence", "iq"} = {},
             NEW s, NEW e \in Element, Answer(s, e), e.features = {}, e.name # "enabled",
             e \notin Countable, server' = s => Keeps({})
      PROVE  Replies /\ c' = c /\ ret' = ret
  <2>1. c' = c /\ ret' = ret /\ server' = s /\ Heard /\ Comes(e)
    BY <1>2, <1>6, AnswerIs
  <2>2. Request.name \in names
    BY <1>2, <1>6
  <2>3. Request \notin Stanzas /\ Request.name # "enable"
    BY <1>6, <2>2 DEF Stanzas
  <2> QED BY <1>6, <2>1, <2>3 DEF Replies, Plain
<1>7. \A name \in {"proceed", "failure", "success"} :
        E(name) \in Element /\ E(name).features = {} /\ E(name).name # "enabled"
        /\ E(name) \notin Countable
  <2> TAKE name \in {"proceed", "failure", "success"}
  <2>1. name \in Names
    BY DEF Names
  <2>2. E(name) \in Element /\ E(name).name = name /\ E(name).features = {}
    BY <2>1, NamedIs
  <2> QED BY <1>4, <2>2
<1>8. CASE OffersStream
  <2>0. HasEnd(toServer) /\ Request.name = "stream"
    BY <1>2, <1>8 DEF OffersStream
  <2>1. ASSUME NEW F \in Offers,
               Answer(server, [E("stream") EXCEPT
                                 !.features = IF server.tls THEN F \ {"STARTTLS"} ELSE F])
        PROVE  Opens /\ c' = c /\ ret' = ret
    <3> DEFINE G == IF server.tls THEN F \ {"STARTTLS"} ELSE F
               e == [E("stream") EXCEPT !.features = G]
    <3>1. G \in SUBSET (Sasl \cup {"STARTTLS"})
      BY DEF XmppAssumption
    <3>2. Answer(server, e)
      BY <2>1
    <3> HIDE DEF G
    <3>3. G \in SUBSET (Sasl \cup {"STARTTLS", "BIND", "SMACKS"}) /\ "BIND" \notin G
      BY <3>1 DEF Sasl
    <3>4. e \in Element /\ e.name = "stream" /\ e.features = G
      <4>1. "stream" \in Names
        BY DEF Names
      <4> QED BY <3>3, <4>1, FeaturesIs
    <3> HIDE DEF e
    <3>5. c' = c /\ ret' = ret /\ server' = server /\ Heard /\ Comes(e)
      BY <2>0, <3>2, <3>4, AnswerIs
    <3>6. Keeps({})
      BY <1>1, <3>5, ServerRecords
    <3>7. e \notin Countable /\ e.name # "enabled" /\ "BIND" \notin e.features
      BY <1>4, <3>3, <3>4
    <3> QED BY <2>0, <3>4, <3>5, <3>6, <3>7 DEF Opens
  <2>2. ASSUME NEW sm \in SUBSET {"SMACKS"},
               Answer([server EXCEPT !.offered = sm],
                      [E("stream") EXCEPT !.features = {"BIND"} \cup sm])
        PROVE  Opens /\ c' = c /\ ret' = ret
    <3> DEFINE G == {"BIND"} \cup sm
               e == [E("stream") EXCEPT !.features = G]
               s == [server EXCEPT !["offered"] = sm]
    <3>1. G \in SUBSET (Sasl \cup {"STARTTLS", "BIND", "SMACKS"}) /\ G \cap {"SMACKS"} = sm
      BY Zenon
    <3>2. Answer(s, e)
      BY <2>2
    <3> HIDE DEF G
    <3>3. e \in Element /\ e.name = "stream" /\ e.features = G
      <4>1. "stream" \in Names
        BY DEF Names
      <4> QED BY <3>1, <4>1, FeaturesIs
    <3> HIDE DEF e
    <3>4. c' = c /\ ret' = ret /\ server' = s /\ Heard /\ Comes(e)
      BY <2>0, <3>2, <3>3, AnswerIs
    <3>5. Keeps({"offered"}) /\ server'["offered"] = sm
      BY <1>1, <3>4, ServerRecords, Zenon
    <3>6. e \notin Countable /\ e.name # "enabled"
      BY <1>4, <3>3
    <3> QED BY <2>0, <3>1, <3>3, <3>4, <3>5, <3>6 DEF Opens
  <2>3. ASSUME Answer(server, E("streamerror")) PROVE Opens /\ c' = c /\ ret' = ret
    <3> DEFINE e == E("streamerror")
    <3>1. e \in Element /\ e.name = "streamerror" /\ e.features = {}
      <4>1. "streamerror" \in Names
        BY DEF Names
      <4> QED BY <4>1, NamedIs
    <3>2. Answer(server, e)
      BY <2>3
    <3> HIDE DEF e
    <3>3. c' = c /\ ret' = ret /\ server' = server /\ Heard /\ Comes(e)
      BY <2>0, <3>1, <3>2, AnswerIs
    <3>4. Keeps({})
      BY <1>1, <3>3, ServerRecords
    <3>5. e \notin Countable
      BY <1>4, <3>1
    <3> QED BY <2>0, <3>1, <3>3, <3>4, <3>5 DEF Opens
  <2>4. \/ \E F \in Offers :
             Answer(server, [E("stream") EXCEPT
                               !.features = IF server.tls THEN F \ {"STARTTLS"} ELSE F])
        \/ \E sm \in SUBSET {"SMACKS"} :
             Answer([server EXCEPT !.offered = sm],
                    [E("stream") EXCEPT !.features = {"BIND"} \cup sm])
        \/ Answer(server, E("streamerror"))
    <3>1. {{"SMACKS"}} \cup (IF May("nosm") THEN {{}} ELSE {}) \subseteq SUBSET {"SMACKS"}
      OBVIOUS
    <3> QED BY <1>8, <3>1, Zenon DEF OffersStream
  <2> QED BY <2>1, <2>2, <2>3, <2>4, Zenon DEF Served
<1>9. CASE AnswersStartTls
  <2>1. Got({"starttls"})
    BY <1>9 DEF AnswersStartTls
  <2>2. ASSUME Answer([server EXCEPT !.tls = TRUE], E("proceed"))
        PROVE  Replies /\ c' = c /\ ret' = ret
    <3>1. server' = [server EXCEPT !["tls"] = TRUE] => Keeps({})
      BY <1>1, ServerRecords, Zenon
    <3> QED BY <1>6, <1>7, <2>1, <2>2, <3>1
  <2>3. ASSUME Answer(server, E("failure")) PROVE Replies /\ c' = c /\ ret' = ret
    <3>1. server' = server => Keeps({})
      BY <1>1, ServerRecords
    <3> QED BY <1>6, <1>7, <2>1, <2>3, <3>1
  <2> QED BY <1>9, <2>2, <2>3 DEF AnswersStartTls, Served
<1>10. CASE AnswersAuth
  <2>1. Got({"auth"})
    BY <1>10 DEF AnswersAuth
  <2>2. server' = server => Keeps({})
    BY <1>1, ServerRecords
  <2>3. ASSUME NEW ok \in BOOLEAN, Answer(server, [E("challenge") EXCEPT !.ok = ok])
        PROVE  Replies /\ c' = c /\ ret' = ret
    <3> DEFINE e == [E("challenge") EXCEPT !.ok = ok]
    <3>1. e \in Element /\ e.name = "challenge" /\ e.features = {}
      <4>1. "challenge" \in Names
        BY DEF Names
      <4> QED BY <4>1, OkIs
    <3>2. Answer(server, e)
      BY <2>3
    <3> HIDE DEF e
    <3>3. e \notin Countable
      BY <1>4, <3>1
    <3> QED BY <1>6, <2>1, <2>2, <3>1, <3>2, <3>3
  <2>4. ASSUME Answer(server, E("failure")) PROVE Replies /\ c' = c /\ ret' = ret
    BY <1>6, <1>7, <2>1, <2>2, <2>4
  <2>5. \/ \E ok \in BOOLEAN : Answer(server, [E("challenge") EXCEPT !.ok = ok])
        \/ Answer(server, E("failure"))
    BY <1>10, Zenon DEF AnswersAuth
  <2> QED BY <2>3, <2>4, <2>5, Zenon DEF Served
<1>11. CASE ChecksPassword
  <2>1. Got({"response", "authplain"})
    BY <1>11 DEF ChecksPassword
  <2>2. ASSUME Answer([server EXCEPT !.auth = TRUE], E("success"))
        PROVE  Replies /\ c' = c /\ ret' = ret
    <3>1. server' = [server EXCEPT !["auth"] = TRUE] => Keeps({})
      BY <1>1, ServerRecords, Zenon
    <3> QED BY <1>6, <1>7, <2>1, <2>2, <3>1
  <2>3. ASSUME Answer(server, E("failure")) PROVE Replies /\ c' = c /\ ret' = ret
    <3>1. server' = server => Keeps({})
      BY <1>1, ServerRecords
    <3> QED BY <1>6, <1>7, <2>1, <2>3, <3>1
  <2> QED BY <1>11, <2>2, <2>3 DEF ChecksPassword, Served
<1>12. CASE AnswersBind
  <2>1. Got({"bind"}) /\ HasEnd(toServer) /\ Request.name = "bind"
    BY <1>2, <1>12 DEF AnswersBind
  <2> DEFINE e(child) == [E("iq") EXCEPT !.child = child]
  <2>2. \A child \in {"bind", "error"} :
          /\ e(child) \in Element /\ e(child).name = "iq" /\ e(child).features = {}
          /\ e(child) \notin Countable
    <3> TAKE child \in {"bind", "error"}
    <3>1. E("iq") \in Element /\ child \in {"none", "bind", "error"}
      BY ElementIs DEF Names
    <3>2. e(child) \in Element
      BY <3>1, ElementWith, Zenon
    <3>3. e(child).name = "iq" /\ e(child).features = {} /\ e(child).child = child
      BY DEF E
    <3> HIDE DEF e
    <3> QED BY <1>3, <3>2, <3>3
  <2>3. \/ Answer([server EXCEPT !.bound = TRUE], e("bind"))
        \/ Answer(server, e("error"))
    BY <1>12 DEF AnswersBind
  <2> HIDE DEF e
  <2>4. ASSUME Answer([server EXCEPT !.bound = TRUE], e("bind"))
        PROVE  Binds /\ c' = c /\ ret' = ret
    <3>1. /\ c' = c /\ ret' = ret /\ server' = [server EXCEPT !["bound"] = TRUE]
          /\ Heard /\ Comes(e("bind"))
      BY <2>1, <2>2, <2>4, AnswerIs
    <3>2. Keeps({"bound"}) /\ server'["bound"] = TRUE
      BY <1>1, <3>1, ServerRecords, Zenon
    <3> QED BY <2>1, <2>2, <3>1, <3>2 DEF Binds, Plain
  <2>5. ASSUME Answer(server, e("error")) PROVE Replies /\ c' = c /\ ret' = ret
    <3>1. server' = server => Keeps({})
      BY <1>1, ServerRecords
    <3> QED BY <1>6, <2>1, <2>2, <2>5, <3>1
  <2> QED BY <2>3, <2>4, <2>5 DEF Served
<1>13. CASE EnablesAcks
  <2> DEFINE e == [E("enabled") EXCEPT !.ok = TRUE]
  <2>1. HasEnd(toServer) /\ Request.name = "enable"
    BY <1>2, <1>13 DEF EnablesAcks
  <2>2. e \in Element /\ e.name = "enabled" /\ e.features = {}
    <3>1. "enabled" \in Names
      BY DEF Names
    <3> QED BY <3>1, OkIs, Zenon
  <2>3. Answer([server EXCEPT !.sm = TRUE], e)
    BY <1>13 DEF EnablesAcks
  <2> HIDE DEF e
  <2>4. c' = c /\ ret' = ret /\ server' = [server EXCEPT !["sm"] = TRUE] /\ Heard /\ Comes(e)
    BY <2>1, <2>2, <2>3, AnswerIs
  <2>5. Keeps({"sm"}) /\ server'["sm"] = TRUE
    BY <1>1, <2>4, ServerRecords, Zenon
  <2> QED BY <1>4, <2>1, <2>2, <2>4, <2>5 DEF Served, Enables
<1>14. CASE HandlesStanza
  <2>1. HasEnd(toServer) /\ Request.name \in {"presence", "iq"} /\ Request \in Element
    BY <1>2, <1>14, Zenon DEF HandlesStanza
  <2>2. Request \in Stanzas /\ Request.name # "enable"
    BY <2>1 DEF Stanzas
  <2>3. \/ Ignore(Handling(server))
        \/ ~ server.bound /\ Ignore(server)
        \/ /\ server.bound
           /\ \E child \in {"none", "error"} :
                Answer(Counting(Handling(server)),
                       [E("iq") EXCEPT !.child = child, !.k = server.n + 1])
    BY <1>14, Zenon DEF HandlesStanza
  <2>4. ASSUME Ignore(Handling(server)) PROVE Handles /\ c' = c /\ ret' = ret
    <3>1. c' = c /\ ret' = ret /\ server' = Handling(server) /\ Heard /\ Quiet
      BY <2>1, <2>4, AnswerIs DEF Quiet
    <3>2. Keeps({"handled"}) /\ server'.handled = server.handled + One(server.sm)
      BY <1>1, <3>1, ServerRecords
    <3> QED BY <2>2, <3>1, <3>2 DEF Handles
  <2>5. ASSUME ~ server.bound, Ignore(server) PROVE Replies /\ c' = c /\ ret' = ret
    <3>1. c' = c /\ ret' = ret /\ server' = server /\ Heard /\ Quiet
      BY <2>1, <2>5, AnswerIs DEF Quiet
    <3>2. Keeps({})
      BY <1>1, <3>1, ServerRecords
    <3> QED BY <2>2, <2>5, <3>1, <3>2 DEF Replies
  <2>6. ASSUME server.bound, NEW child \in {"none", "error"},
               Answer(Counting(Handling(server)),
                      [E("iq") EXCEPT !.child = child, !.k = server.n + 1])
        PROVE  Handles /\ c' = c /\ ret' = ret
    <3> DEFINE e == [E("iq") EXCEPT !.child = child, !.k = server.n + 1]
               s == Counting(Handling(server))
    <3>1. e \in Element /\ e.name = "iq" /\ e.features = {}
      <4>1. E("iq") \in Element
        BY ElementIs DEF Names
      <4>2. e \in Element
        BY <1>1, <4>1, ElementWith, Zenon
      <4> QED BY <4>2 DEF E
    <3>2. Answer(s, e)
      BY <2>6
    <3> HIDE DEF e, s
    <3>3. c' = c /\ ret' = ret /\ server' = s /\ Heard /\ Comes(e)
      BY <2>1, <3>1, <3>2, AnswerIs
    <3>4. /\ Keeps({"handled", "counted"})
          /\ server'.handled = server.handled + One(server.sm)
          /\ server'.counted = server.counted + One(server.sm)
      BY <1>1, <3>3, ServerRecords DEF s
    <3> QED BY <2>2, <2>6, <3>1, <3>3, <3>4 DEF Handles
  <2> QED BY <2>3, <2>4, <2>5, <2>6 DEF Served
<1>15. CASE Acknowledges
  <2> DEFINE e == [E("a") EXCEPT !.k = server.handled]
  <2>1. Got({"r"})
    BY <1>15 DEF Acknowledges
  <2>2. server' = server => Keeps({})
    BY <1>1, ServerRecords
  <2>3. e \in Element /\ e.name = "a" /\ e.features = {}
    <3>1. "a" \in Names
      BY DEF Names
    <3> QED BY <1>1, <3>1, KIs
  <2>4. Answer(server, e)
    BY <1>15 DEF Acknowledges
  <2> HIDE DEF e
  <2>5. e \notin Countable
    BY <1>4, <2>3
  <2>6. Replies /\ c' = c /\ ret' = ret
    BY <1>6, <2>1, <2>2, <2>3, <2>4, <2>5
  <2> QED BY <2>6 DEF Served
<1>16. CASE TakesNote
  <2>1. HasEnd(toServer) /\ Request.name \in {"a", "/stream"} /\ Ignore(server)
    BY <1>2, <1>16 DEF TakesNote
  <2>2. c' = c /\ ret' = ret /\ server' = server /\ Heard /\ Quiet
    BY <2>1, AnswerIs DEF Quiet
  <2>3. Keeps({})
    BY <1>1, <2>2, ServerRecords
  <2> QED BY <2>1, <2>2, <2>3 DEF Served, Replies, Stanzas
<1>17. CASE PushesMessage
  <2> DEFINE e == [E("message") EXCEPT !.k = server.n + 1]
  <2>1. PICK n \in Sizes :
          \E L : Push([Counting(server) EXCEPT !.large = L], e, n)
    BY <1>17, Zenon DEF PushesMessage
  <2>2. PICK L : Push([Counting(server) EXCEPT !.large = L], e, n)
    BY <2>1, Zenon
  <2>3. e \in Element /\ e.name = "message" /\ e.features = {}
    <3>1. "message" \in Names
      BY DEF Names
    <3> QED BY <1>1, <3>1, KIs
  <2> HIDE DEF e
  <2>4. n \in Nat /\ n > 0
    BY DEF XmppAssumption
  <2>5. /\ c' = c /\ ret' = ret /\ server' = [Counting(server) EXCEPT !.large = L]
        /\ Sent' = Sent /\ Going' = Going /\ Comes(e)
    BY <2>2, <2>3, <2>4, PushIs
  <2>6. Keeps({"counted"}) /\ server'.counted = server.counted + One(server.sm)
    BY <1>1, <2>5, ServerRecords
  <2>7. server.bound /\ (server.sm \/ server.offered = {} \/ "early" \in ServerMay)
    BY <1>17 DEF PushesMessage, May
  <2> QED BY <2>3, <2>5, <2>6, <2>7 DEF Served, Pushes
<1>18. CASE AsksAck
  <2>1. Push([server EXCEPT !.asked = server.n], E("r"), 1) /\ server.sm
    BY <1>18 DEF AsksAck
  <2>2. E("r") \in Element /\ 1 \in Nat /\ 1 > 0
    BY <1>5
  <2>3. /\ c' = c /\ ret' = ret /\ server' = [server EXCEPT !["asked"] = server.n]
        /\ Sent' = Sent /\ Going' = Going /\ Comes(E("r"))
    BY <2>1, <2>2, PushIs
  <2>4. Keeps({})
    BY <1>1, <2>3, ServerRecords, Zenon
  <2> QED BY <1>5, <2>1, <2>2, <2>3, <2>4 DEF Served, Adds
<1>19. CASE ClosesStream
  <2>1. Push([server EXCEPT !.closed = TRUE], E("/stream"), 1) /\ server.bound
    BY <1>19 DEF ClosesStream
  <2>2. E("/stream") \in Element /\ 1 \in Nat /\ 1 > 0
    BY <1>5
  <2>3. /\ c' = c /\ ret' = ret /\ server' = [server EXCEPT !["closed"] = TRUE]
        /\ Sent' = Sent /\ Going' = Going /\ Comes(E("/stream"))
    BY <2>1, <2>2, PushIs
  <2>4. Keeps({})
    BY <1>1, <2>3, ServerRecords, Zenon
  <2> QED BY <1>5, <2>1, <2>2, <2>3, <2>4 DEF Served, Adds
<1> QED BY <1>8, <1>9, <1>10, <1>11, <1>12, <1>13, <1>14, <1>15, <1>16, <1>17, <1>18, <1>19
        DEF Answers

(* The server keeps what it has bound, and every step of it either reads   *)
(* an element or finds the resource bound.                                 *)
LEMMA ServedTurns ==
  ASSUME Typed, Typed', Negotiation, Turns, Tally, Served, c' = c
  PROVE  Turns'
<1>1. \A fs : Keeps(fs) /\ "bound" \notin fs => server'.bound = server.bound
  BY DEF Keeps
<1>2. /\ \A s : Heard /\ toClient' = toClient /\ server'.bound = server.bound => Turns'
      /\ \A e \in Element : Heard /\ Comes(e) /\ server'.bound = server.bound => Turns'
      /\ \A e \in Element : Heard /\ Comes(e) /\ Request.name = "bind" /\ server'.bound => Turns'
  BY AnswerTurns
<1>3. CASE Opens
  BY <1>1, <1>2, <1>3 DEF Opens
<1>4. CASE Replies
  BY <1>1, <1>2, <1>4 DEF Replies, Quiet, Plain
<1>5. CASE Binds
  BY <1>2, <1>5 DEF Binds, Plain
<1>6. CASE Enables
  BY <1>1, <1>2, <1>6 DEF Enables
<1>7. CASE Handles
  BY <1>1, <1>2, <1>7 DEF Handles, Quiet
<1>8. CASE Pushes \/ Adds
  <2>1. server.bound
    BY <1>8 DEF Pushes, Adds, Tally, Enabling, Negotiation, InOrder
  <2>2. server'.bound = server.bound /\ Sent' = Sent /\ Going' = Going
    BY <1>1, <1>8 DEF Pushes, Adds
  <2> QED BY <2>1, <2>2 DEF Turns, Done
<1> QED BY <1>3, <1>4, <1>5, <1>6, <1>7, <1>8 DEF Served

LEMMA ServedOffered ==
  ASSUME Typed, Typed', Negotiation, Turns, Offered, Served, c' = c
  PROVE  Offered'
<1>1. \A fs : Keeps(fs) => /\ "bound" \notin fs => server'.bound = server.bound
                           /\ "offered" \notin fs => server'.offered = server.offered
  BY DEF Keeps
<1>2. Calm' = Calm
  BY DEF Calm, CanFlush
<1>3. ASSUME Ended(Sent') \subseteq Ended(Sent), server'.offered = server.offered,
             server'.bound = server.bound
             \/ (Heard /\ Request.name = "bind" /\ server'.bound),
             Left' = Left \/ \E e \in Element : Comes(e) /\ "BIND" \notin e.features
      PROVE  Offered'
  <2>1. \A e \in Ended(Left') : "BIND" \in e.features => e \in Ended(Left)
    BY <1>3 DEF Comes
  <2>2. Calm' => \A e \in Ended(Left') :
          "BIND" \in e.features => server'.offered = e.features \cap {"SMACKS"}
    BY <1>2, <1>3, <2>1 DEF Offered
  <2>3. server'.bound /\ server'.offered = {} => "DISABLESMACKS" \in c'.opts
    BY <1>3, Zenon DEF Offered, Heard
  <2>4. \A e \in Ended(Sent') :
          e.name = "bind" /\ server'.offered = {} => "DISABLESMACKS" \in c'.opts
    BY <1>3 DEF Offered
  <2> QED BY <2>2, <2>3, <2>4 DEF Offered
<1>4. CASE Opens
  <2>1. PICK e \in Element :
          /\ Comes(e)
          /\ \/ Keeps({}) /\ "BIND" \notin e.features
             \/ Keeps({"offered"}) /\ server'.offered = e.features \cap {"SMACKS"}
    BY <1>4 DEF Opens
  <2>2. Heard /\ Request.name = "stream"
    BY <1>4 DEF Opens
  <2>3. CASE Keeps({}) /\ "BIND" \notin e.features
    BY <1>1, <1>3, <2>1, <2>2, <2>3 DEF Heard
  <2>4. CASE Keeps({"offered"}) /\ server'.offered = e.features \cap {"SMACKS"}
    <3>1. server'.bound = server.bound
      BY <1>1, <2>4
    <3>2. Count(Sent, Streams) # 0
      <4>1. Request \in Ended(Sent) \cap Streams
        BY <2>2 DEF Heard, Streams
      <4>2. Sent \in Seq(Part)
        BY SentIs
      <4> QED BY <4>1, <4>2, CountIs
    <3>3. ~ server.bound
      BY <3>2 DEF Turns
    <3>4. Ended(Sent') = {} /\ (Calm => Ended(Left) = {})
      <4>1. /\ Count(Sent', Element) = Count(Sent, Element) - 1
            /\ Count(Sent, Element) \in Nat /\ Count(Left, Element) \in Nat
            /\ Sent \in Seq(Part) /\ Left \in Seq(Part)
        BY <2>2, SentIs, LeftIs DEF Heard
      <4>2. Sent' \in Seq(Part) /\ Count(Sent', Element) \in Nat
        BY SidesNext DEF Sides
      <4>3. Calm
        BY <4>1, <4>2 DEF Calm, Turns
      <4>4. Count(Sent', Element) = 0 /\ Count(Left, Element) = 0
        BY <3>3, <4>1, <4>2, <4>3 DEF Turns
      <4>5. Ended(Sent') = {}
        BY <4>2, <4>4, NothingEnds
      <4> QED BY <4>1, <4>4, <4>5, NothingEnds
    <3> QED BY <1>2, <2>1, <2>4, <3>1, <3>3, <3>4 DEF Offered, Comes
  <2> QED BY <2>1, <2>3, <2>4
<1>5. CASE Replies
  BY <1>1, <1>3, <1>5 DEF Replies, Quiet, Plain, Heard
<1>6. CASE Binds
  <2>1. server'.offered = server.offered
    <3>1. Keeps({"bound"})
      BY <1>6 DEF Binds
    <3> QED BY <1>1, <3>1
  <2>2. \E e \in Element : Comes(e) /\ "BIND" \notin e.features
    BY <1>6 DEF Binds, Plain
  <2> QED BY <1>3, <1>6, <2>1, <2>2, Zenon DEF Binds, Heard
<1>7. CASE Enables
  BY <1>1, <1>3, <1>7 DEF Enables, Heard
<1>8. CASE Handles
  <2>1. server'.bound = server.bound /\ server'.offered = server.offered
    <3>1. CASE Keeps({"handled"})
      BY <1>1, <3>1
    <3>2. CASE Keeps({"handled", "counted"})
      BY <1>1, <3>2
    <3> QED BY <1>8, <3>1, <3>2 DEF Handles
  <2>2. Left' = Left \/ \E e \in Element : Comes(e) /\ "BIND" \notin e.features
    BY <1>8 DEF Handles, Quiet
  <2> QED BY <1>3, <1>8, <2>1, <2>2 DEF Handles, Heard
<1>9. CASE Pushes
  <2>1. server'.bound = server.bound /\ server'.offered = server.offered
    <3>1. Keeps({"counted"})
      BY <1>9 DEF Pushes
    <3> QED BY <1>1, <3>1
  <2>2. \E e \in Element : Comes(e) /\ "BIND" \notin e.features
    BY <1>9 DEF Pushes
  <2> QED BY <1>3, <1>9, <2>1, <2>2 DEF Pushes
<1>10. CASE Adds
  BY <1>1, <1>3, <1>10 DEF Adds, Plain
<1> QED BY <1>4, <1>5, <1>6, <1>7, <1>8, <1>9, <1>10 DEF Served

LEMMA ServedTally ==
  ASSUME Typed, Typed', Negotiation, Turns, Offered, Tally, Served, c' = c, ret' = ret,
         "early" \notin ServerMay
  PROVE  Tally'
<1>1. /\ c.actualsent \in Nat /\ c.actualrecv \in Nat
      /\ server.handled \in Nat /\ server.counted \in Nat
      /\ Count(Sent, Stanzas) \in Nat /\ Count(Left, Countable) \in Nat
      /\ server.bound \in BOOLEAN /\ server.sm \in BOOLEAN /\ c.isnegotiationdone \in BOOLEAN
  BY TallyNumbers
<1>2. /\ server'.handled \in Nat /\ server'.counted \in Nat
      /\ Count(Sent', Stanzas) \in Nat /\ Count(Left', Countable) \in Nat
  BY SidesNext DEF Sides, Typed, ServerOK, ServerCounters
<1>3. \A fs : Keeps(fs) =>
        /\ "bound" \notin fs => server'.bound = server.bound
        /\ "sm" \notin fs => server'.sm = server.sm
        /\ "handled" \notin fs => server'.handled = server.handled
        /\ "counted" \notin fs => server'.counted = server.counted
  BY DEF Keeps
<1>4. c.isnegotiationdone => server.bound
  BY DEF Negotiation, InOrder
<1>5. Acks' <=> Acks
  BY DEF Acks
<1>6. Heard => /\ Going' \subseteq Going /\ Request \in Element
               /\ Count(Sent', Stanzas) = Count(Sent, Stanzas) - One(Request \in Stanzas)
  BY DEF Heard, One
(* A stanza is only read when acknowledgements are enabled, or given up.   *)
<1>7. ASSUME Heard, Request \in Stanzas
      PROVE  /\ server.bound /\ (Acks => server.sm)
             /\ ~ Acks => "DISABLESMACKS" \in c.opts
  <2>1. Count(Sent, Stanzas) # 0
    BY <1>1, <1>2, <1>6, <1>7 DEF One
  <2>2. c.isnegotiationdone
    BY <1>1, <2>1 DEF Tally
  <2>3. Acks => server.sm
    BY <1>1, <1>7 DEF Tally, Heard
  <2> QED BY <1>4, <2>2, <2>3 DEF Tally
<1>8. ASSUME Going' \subseteq Going, server'.sm => Acks, server.bound => server'.bound,
             \A e \in Coming' : e.name = "enabled" => Acks,
             \A e \in Coming' : e \in Countable => server'.bound,
             Count(Sent', Stanzas) <= Count(Sent, Stanzas),
             ~ Acks => server'.handled = server.handled,
             Acks => server'.handled + Count(Sent', Stanzas)
                       = server.handled + Count(Sent, Stanzas),
             Acks /\ ~ server'.sm => EnableFirst(Sent'),
             Acks => Count(Left', Countable) + server.counted
                       <= Count(Left, Countable) + server'.counted,
             ~ Acks /\ "DISABLESMACKS" \notin c.opts =>
               Count(Left', Countable) = Count(Left, Countable),
             server.counted <= server'.counted
      PROVE  Tally'
  <2>1. Enabling' => Acks'
    <3>1. (\E e \in Going' : e.name = "enable") => Acks
      BY <1>8 DEF Tally, Enabling
    <3> QED BY <1>5, <1>8, <3>1 DEF Enabling
  <2>2. Acks' => c'.isnegotiationdone /\ "DISABLESMACKS" \notin c'.opts
    BY <1>5 DEF Tally
  <2>3. c'.isnegotiationdone /\ ~ Acks' => "DISABLESMACKS" \in c'.opts
    BY <1>5 DEF Tally
  <2>4. ~ c'.isnegotiationdone => Count(Sent', Stanzas) = 0
    BY <1>1, <1>2, <1>8 DEF Tally
  <2>5. ~ Acks' => c'.actualsent = 0 /\ c'.actualrecv = 0 /\ server'.handled = 0
    BY <1>5, <1>8 DEF Tally
  <2>6. Acks' => c'.actualsent = server'.handled + Count(Sent', Stanzas)
    BY <1>5, <1>8 DEF Tally
  <2>7. Acks' /\ ~ server'.sm => EnableFirst(Sent')
    BY <1>5, <1>8
  <2>8. Acks' => c'.actualrecv + Count(Left', Countable) <= server'.counted
    <3>1. Acks => c.actualrecv + Count(Left, Countable) <= server.counted
      BY DEF Tally
    <3> QED BY <1>1, <1>2, <1>5, <1>8, <3>1
  <2>9. ~ Acks' /\ "DISABLESMACKS" \notin c'.opts => Count(Left', Countable) = 0
    BY <1>5, <1>8 DEF Tally
  <2>10. \A e \in Going' : e.name = "a" => e.k <= server'.counted
    <3> TAKE e \in Going'
    <3>1. e \in Going
      BY <1>8
    <3>2. e \in Element
      <4>1. toServer \in Seq(Part) /\ c.out \in Seq(Part)
        BY DEF Typed, ClientOK
      <4> QED BY <3>1, <4>1, ElementsAre DEF Going
    <3>3. e.k \in Nat
      BY <3>2 DEF Element
    <3>4. e.name = "a" => e.k <= server.counted
      BY <3>1 DEF Tally
    <3> QED BY <1>1, <1>2, <1>8, <3>3, <3>4
  <2>11. ret' \in {"READY", "STANZA", "GIVEPWD"} => c'.out = <<>>
    BY DEF Tally
  <2> QED BY <1>8, <2>1, <2>2, <2>3, <2>4, <2>5, <2>6, <2>7, <2>8, <2>9, <2>10, <2>11 DEF Tally
(* What is on its way to the client.                                       *)
<1>9. ASSUME Quiet \/ \E e \in Element : Comes(e) /\ e \notin Countable /\ e.name # "enabled",
             server.bound => server'.bound
      PROVE  /\ \A e \in Coming' : e.name = "enabled" => Acks
             /\ \A e \in Coming' : e \in Countable => server'.bound
             /\ Count(Left', Countable) = Count(Left, Countable)
  <2>1. /\ \A e \in Coming' : e \in Coming \/ (e \notin Countable /\ e.name # "enabled")
        /\ Count(Left', Countable) = Count(Left, Countable)
    <3>1. CASE Quiet
      BY <3>1 DEF Quiet
    <3>2. CASE \E e \in Element : Comes(e) /\ e \notin Countable /\ e.name # "enabled"
      <4>1. PICK e \in Element : Comes(e) /\ e \notin Countable /\ e.name # "enabled"
        BY <3>2
      <4>2. Count(Left', Countable) = Count(Left, Countable) + (IF e \in Countable THEN 1 ELSE 0)
        BY <4>1 DEF Comes
      <4> QED BY <1>1, <4>1, <4>2 DEF Comes
    <3> QED BY <1>9, <3>1, <3>2
  <2> QED BY <1>9, <2>1 DEF Tally, Enabling
<1>10. ASSUME \/ Sent' = Sent /\ Going' = Going
              \/ Heard /\ Request \notin Stanzas /\ Request.name # "enable",
              Quiet \/ \E e \in Element : Comes(e) /\ e \notin Countable /\ e.name # "enabled",
              server'.sm = server.sm, server'.handled = server.handled,
              server'.counted = server.counted, server.bound => server'.bound
       PROVE  Tally'
  <2>1. /\ Going' \subseteq Going /\ Count(Sent', Stanzas) = Count(Sent, Stanzas)
        /\ EnableFirst(Sent) => EnableFirst(Sent')
    BY <1>1, <1>6, <1>10 DEF Heard, One
  <2>2. server'.sm => Acks
    BY <1>10 DEF Tally, Enabling
  <2>3. Acks /\ ~ server'.sm => EnableFirst(Sent')
    BY <1>10, <2>1 DEF Tally
  <2>4. /\ \A e \in Coming' : e.name = "enabled" => Acks
        /\ \A e \in Coming' : e \in Countable => server'.bound
        /\ Count(Left', Countable) = Count(Left, Countable)
    BY <1>9, <1>10
  <2> QED BY <1>1, <1>8, <1>10, <2>1, <2>2, <2>3, <2>4
<1>11. ASSUME NEW fs, Keeps(fs), fs \in {{}, {"offered"}, {"bound"}}
       PROVE  server'.sm = server.sm /\ server'.handled = server.handled
              /\ server'.counted = server.counted
  BY <1>3, <1>11
<1>12. CASE Opens
  <2>1. Heard /\ Request \notin Stanzas /\ Request.name # "enable"
    BY <1>12 DEF Opens, Stanzas
  <2>2. PICK fs \in {{}, {"offered"}} : Keeps(fs)
    BY <1>12 DEF Opens
  <2>3. server'.sm = server.sm /\ server'.handled = server.handled
        /\ server'.counted = server.counted /\ server'.bound = server.bound
    BY <1>3, <1>11, <2>2
  <2>4. \E e \in Element : Comes(e) /\ e \notin Countable /\ e.name # "enabled"
    BY <1>12 DEF Opens
  <2> QED BY <1>10, <2>1, <2>3, <2>4
<1>13. CASE Replies
  <2>1. Heard /\ Request \notin Stanzas /\ Request.name # "enable" /\ Keeps({})
    BY <1>7, <1>13 DEF Replies
  <2>2. server'.sm = server.sm /\ server'.handled = server.handled
        /\ server'.counted = server.counted /\ server'.bound = server.bound
    BY <1>3, <1>11, <2>1
  <2>3. Quiet \/ \E e \in Element : Comes(e) /\ e \notin Countable /\ e.name # "enabled"
    BY <1>13 DEF Replies, Plain
  <2> QED BY <1>10, <2>1, <2>2, <2>3
<1>14. CASE Binds
  <2>1. /\ Heard /\ Request \notin Stanzas /\ Request.name # "enable" /\ Keeps({"bound"})
        /\ server'.bound
    BY <1>14 DEF Binds, Stanzas
  <2>2. server'.sm = server.sm /\ server'.handled = server.handled
        /\ server'.counted = server.counted
    BY <1>11, <2>1
  <2>3. \E e \in Element : Comes(e) /\ e \notin Countable /\ e.name # "enabled"
    BY <1>14 DEF Binds, Plain
  <2> QED BY <1>10, <2>1, <2>2, <2>3
<1>15. CASE Adds
  <2>1. Sent' = Sent /\ Going' = Going /\ Keeps({})
    BY <1>15 DEF Adds
  <2>2. server'.sm = server.sm /\ server'.handled = server.handled
        /\ server'.counted = server.counted /\ server'.bound = server.bound
    BY <1>3, <1>11, <2>1
  <2>3. \E e \in Element : Comes(e) /\ e \notin Countable /\ e.name # "enabled"
    BY <1>15 DEF Adds, Plain
  <2> QED BY <1>10, <2>1, <2>2, <2>3
<1>16. CASE Enables
  <2>1. Heard /\ Request.name = "enable" /\ Keeps({"sm"}) /\ server'.sm
    BY <1>16 DEF Enables
  <2>2. server'.handled = server.handled /\ server'.counted = server.counted
        /\ server'.bound = server.bound
    <3>1. Keeps({"sm"})
      BY <2>1
    <3> QED BY <1>3, <3>1
  <2>3. Acks
    BY <2>1 DEF Heard, Tally, Enabling
  <2>4. Going' \subseteq Going /\ Count(Sent', Stanzas) = Count(Sent, Stanzas)
    BY <1>1, <1>6, <2>1 DEF Stanzas, One
  <2>5. PICK e \in Element : Comes(e) /\ e \notin Countable
    BY <1>16 DEF Enables
  <2>6. Count(Left', Countable) = Count(Left, Countable)
    <3>1. Count(Left', Countable) = Count(Left, Countable) + (IF e \in Countable THEN 1 ELSE 0)
      BY <2>5 DEF Comes
    <3> QED BY <1>1, <2>5, <3>1
  <2>7. \A x \in Coming' : x \in Countable => server'.bound
    BY <2>2, <2>5 DEF Comes, Tally
  <2> QED BY <1>1, <1>8, <2>1, <2>2, <2>3, <2>4, <2>6, <2>7
<1>17. CASE Handles
  <2>1. /\ Heard /\ Request \in Stanzas
        /\ server'.handled = server.handled + One(server.sm)
    BY <1>17 DEF Handles
  <2>2. /\ server.bound /\ (Acks => server.sm) /\ (server.sm => Acks)
        /\ ~ Acks => "DISABLESMACKS" \in c.opts
    BY <1>7, <2>1 DEF Tally, Enabling
  <2>3. Going' \subseteq Going /\ Count(Sent', Stanzas) = Count(Sent, Stanzas) - 1
    BY <1>6, <2>1 DEF One
  <2>4. /\ ~ Acks => server'.handled = server.handled
        /\ Acks => server'.handled + Count(Sent', Stanzas) = server.handled + Count(Sent, Stanzas)
    BY <1>1, <1>2, <2>1, <2>2, <2>3 DEF One
  <2>5. CASE Quiet /\ Keeps({"handled"})
    <3>1. server'.sm = server.sm /\ server'.counted = server.counted
          /\ server'.bound = server.bound
      BY <1>3, <2>5
    <3>2. /\ \A e \in Coming' : e.name = "enabled" => Acks
          /\ \A e \in Coming' : e \in Countable => server'.bound
          /\ Count(Left', Countable) = Count(Left, Countable)
      BY <1>9, <2>5, <3>1
    <3> QED BY <1>1, <1>2, <1>8, <2>2, <2>3, <2>4, <3>1, <3>2
  <2>6. CASE /\ server.bound /\ Keeps({"handled", "counted"})
             /\ server'.counted = server.counted + One(server.sm)
             /\ \E e \in Element : Comes(e) /\ e.features = {} /\ e.name = "iq"
    <3>1. server'.sm = server.sm /\ server'.bound = server.bound
      <4>1. Keeps({"handled", "counted"})
        BY <2>6
      <4> QED BY <1>3, <4>1
    <3>2. PICK e \in Element : Comes(e) /\ e.name = "iq"
      BY <2>6
    <3>3. Count(Left', Countable) <= Count(Left, Countable) + 1
      <4>1. Count(Left', Countable) = Count(Left, Countable) + (IF e \in Countable THEN 1 ELSE 0)
        BY <3>2 DEF Comes
      <4> QED BY <1>1, <4>1
    <3>4. Acks => Count(Left', Countable) + server.counted
                    <= Count(Left, Countable) + server'.counted
      BY <1>1, <1>2, <2>2, <2>6, <3>3 DEF One
    <3>5. server.counted <= server'.counted
      BY <1>1, <2>6 DEF One
    <3>6. \A x \in Coming' : x.name = "enabled" => Acks
      BY <3>2 DEF Comes, Tally, Enabling
    <3> QED BY <1>1, <1>2, <1>8, <2>2, <2>3, <2>4, <3>1, <3>4, <3>5, <3>6
  <2> QED BY <1>17, <2>5, <2>6 DEF Handles
<1>18. CASE Pushes
  <2>1. /\ Sent' = Sent /\ Going' = Going /\ server.bound /\ Keeps({"counted"})
        /\ server'.counted = server.counted + One(server.sm)
    BY <1>18 DEF Pushes
  <2>2. server'.sm = server.sm /\ server'.bound = server.bound /\ server'.handled = server.handled
    <3>1. Keeps({"counted"})
      BY <2>1
    <3> QED BY <1>3, <3>1
  <2>3. server.sm \/ server.offered = {}
    BY <1>18 DEF Pushes
  <2>4. /\ Acks <=> server.sm
        /\ ~ Acks => "DISABLESMACKS" \in c.opts
    BY <2>1, <2>3 DEF Tally, Enabling, Offered
  <2>5. PICK e \in Element : Comes(e) /\ e.name = "message"
    BY <1>18 DEF Pushes
  <2>6. Count(Left', Countable) <= Count(Left, Countable) + 1
    <3>1. Count(Left', Countable) = Count(Left, Countable) + (IF e \in Countable THEN 1 ELSE 0)
      BY <2>5 DEF Comes
    <3> QED BY <1>1, <3>1
  <2>7. Acks => Count(Left', Countable) + server.counted
                  <= Count(Left, Countable) + server'.counted
    BY <1>1, <1>2, <2>1, <2>4, <2>6 DEF One
  <2>8. server.counted <= server'.counted
    BY <1>1, <2>1 DEF One
  <2>9. \A x \in Coming' : x.name = "enabled" => Acks
    BY <2>5 DEF Comes, Tally, Enabling
  <2> QED BY <1>1, <1>2, <1>8, <2>1, <2>2, <2>4, <2>7, <2>8, <2>9
<1> QED BY <1>12, <1>13, <1>14, <1>15, <1>16, <1>17, <1>18 DEF Served

-----------------------------------------------------------------------------
Kept == Typed /\ Negotiation /\ Turns /\ Offered /\ Tally

LEMMA KeptInitially == Init => Kept
<1> SUFFICES ASSUME Init PROVE Kept
  OBVIOUS
<1>1. PICK opts \in OptSets : c = xmppInitClient(opts)
  BY DEF Init
<1>2. /\ c.features = {} /\ c.state = "INIT" /\ c.isnegotiationdone = FALSE
      /\ c.in = <<>> /\ c.i = 0 /\ c.out = <<>> /\ c.actualsent = 0 /\ c.actualrecv = 0
  BY <1>1 DEF xmppInitClient
<1>3. /\ ret = "OK" /\ toServer = <<>> /\ toClient = <<>>
      /\ server.bound = FALSE /\ server.sm = FALSE /\ server.handled = 0 /\ server.counted = 0
  BY DEF Init, NewServer
<1>4. Typed /\ Negotiation
  BY TypesInitially, NegotiationInitially
<1>5. Going = {} /\ Coming = {}
  BY <1>2, <1>3 DEF Going, Coming, Elements
<1>6. Sent = <<>> /\ Left = <<>>
  <2>1. <<>> \in Seq(Part) /\ 0 \in 0..Len(<<>>)
    OBVIOUS
  <2>2. Drop(<<>>, 0) \in Seq(Part) /\ Len(Drop(<<>>, 0)) = Len(<<>>) - 0
    BY <2>1, DropIs, Zenon
  <2>3. Rest = <<>>
    BY <1>2, <2>2 DEF Rest
  <2> QED BY <1>2, <1>3, <2>3 DEF Sent, Left
<1>7. \A S : Count(<<>>, S) = 0 /\ Ended(<<>>) = {}
  <2> TAKE S
  <2>1. Ends(<<>>, S) = {}
    BY DEF Ends
  <2>2. Cardinality({}) = 0
    BY FS_EmptySet
  <2>3. Count(<<>>, S) = 0
    BY <2>1, <2>2, Zenon DEF Count
  <2>4. DOMAIN <<>> = {}
    OBVIOUS
  <2>5. Ended(<<>>) = {}
    BY <2>4 DEF Ended
  <2> QED BY <2>3, <2>5
<1>8. \A S : Count(Sent, S) = 0 /\ Count(Left, S) = 0 /\ Count(toClient, S) = 0
  BY <1>3, <1>6, <1>7
<1>9. Ended(Sent) = {} /\ Ended(Left) = {}
  BY <1>6, <1>7
<1>10. Turns
  BY <1>2, <1>3, <1>5, <1>8 DEF Turns, Silent
<1>11. Offered
  BY <1>3, <1>9 DEF Offered
<1>12. Tally
  BY <1>2, <1>3, <1>5, <1>8 DEF Tally, Enabling, Acks
<1> QED BY <1>4, <1>10, <1>11, <1>12 DEF Kept

LEMMA KeptStep ==
  ASSUME Kept, [Next]_vars, "resume" \notin AppMay, "early" \notin ServerMay, OutSize <= OutCap
  PROVE  Kept'
<1>1. Typed /\ Negotiation /\ Turns /\ Offered /\ Tally
  BY DEF Kept
<1>2. Typed' /\ Negotiation'
  BY <1>1, TypesStep, NegotiationStep
<1>3. CASE xmppIterate
  <2>1. Turns' /\ Offered'
    BY <1>1, <1>2, <1>3, IterateTurns, IterateOffered
  <2>2. Tally'
    BY <1>1, <1>2, <1>3, <2>1, IterateTally, BoundTally
  <2> QED BY <1>2, <2>1, <2>2 DEF Kept
<1>4. CASE Application
  <2>1. Turns' /\ Offered' /\ Tally'
    BY <1>1, <1>2, <1>4, ApplicationTurns, ApplicationOffered, ApplicationTally
  <2> QED BY <1>2, <2>1 DEF Kept
<1>5. CASE Answers \/ PushesMessage \/ AsksAck \/ ClosesStream
  <2>1. Served /\ c' = c /\ ret' = ret
    BY <1>1, <1>5, ServerServes
  <2>2. Turns' /\ Offered' /\ Tally'
    BY <1>1, <1>2, <2>1, ServedTurns, ServedOffered, ServedTally
  <2> QED BY <1>2, <2>2 DEF Kept
<1>6. CASE UNCHANGED vars
  <2>1. UNCHANGED <<c, ret, server, toServer, toClient>>
    BY <1>6 DEF vars
  <2>2. /\ Sent' = Sent /\ Left' = Left /\ Going' = Going /\ Coming' = Coming
        /\ Calm' = Calm /\ CanFlush(c)' = CanFlush(c) /\ Acks' = Acks
    BY <2>1 DEF Sent, Left, Rest, Going, Coming, Calm, CanFlush, Acks
  <2>3. Turns'
    BY <1>1, <2>1, <2>2 DEF Turns
  <2>4. Offered'
    BY <1>1, <2>1, <2>2 DEF Offered
  <2>5. Enabling' = Enabling
    BY <2>1, <2>2 DEF Enabling
  <2>6. Tally'
    BY <1>1, <2>1, <2>2, <2>5 DEF Tally
  <2> QED BY <1>2, <2>3, <2>4, <2>6 DEF Kept
<1> QED BY <1>3, <1>4, <1>5, <1>6 DEF Next

LEMMA KeptCounts == Kept => CountsAgree
<1> SUFFICES ASSUME Kept PROVE CountsAgree
  OBVIOUS
<1>1. Typed /\ Tally
  BY DEF Kept
<1>2. toServer \in Seq(Part) /\ c.out \in Seq(Part) /\ Sent \in Seq(Part)
  BY <1>1, SentIs DEF Typed, ClientOK
<1>3. StanzasIn(toServer \o c.out) = Count(Sent, Stanzas)
  <2>1. \A j \in DOMAIN Sent : Sent[j].el \in Element
    <3>1. ASSUME NEW s \in Seq(Part), NEW j \in DOMAIN s PROVE s[j].el \in Element
      <4>1. s[j] \in Part
        OBVIOUS
      <4> QED BY <4>1 DEF Part
    <3> QED BY <1>2, <3>1
  <2>2. {j \in DOMAIN Sent : Sent[j].last /\ Sent[j].el.name \in {"presence", "iq"}}
          = Ends(Sent, Stanzas)
    BY <2>1 DEF Ends, Stanzas
  <2> QED BY <2>2, Zenon DEF StanzasIn, Count, Sent
<1>4. Elements(c.out \o toServer) = Going
  <2>1. Elements(c.out \o toServer) = Elements(c.out) \cup Elements(toServer)
    BY <1>2, ConcatElements
  <2> QED BY <2>1 DEF Going
<1>5. c.actualrecv <= server.counted
  BY <1>1, TallyNumbers DEF Tally
<1>6. "SMACKS" \in c.features => c.actualsent = server.handled + StanzasIn(toServer \o c.out)
  BY <1>1, <1>3 DEF Tally, Acks
<1> QED BY <1>1, <1>4, <1>5, <1>6 DEF CountsAgree, Tally

(* While no session is resumed, no element is longer than the output       *)
(* buffer, and the server sends nothing before it is asked to acknowledge, *)
(* both ends count the same stanzas, whatever else the server does, in     *)
(* whatever pieces it comes.                                               *)
THEOREM CountsKept ==
  ASSUME "resume" \notin AppMay, "early" \notin ServerMay, OutSize <= OutCap
  PROVE  Spec => []CountsAgree
<1>1. Init => Kept
  BY KeptInitially
<1>2. Kept /\ [Next]_vars => Kept'
  BY KeptStep
<1>3. Kept => CountsAgree
  BY KeptCounts
<1> QED BY <1>1, <1>2, <1>3, PTL DEF Spec
=============================================================================
