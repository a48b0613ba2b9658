------------------------------ MODULE ImClient ------------------------------
(***************************************************************************)
(* The example client (example/im.c) above the XMPP engine: its commands,  *)
(* its pending requests, its handlers of stanzas, and the database in      *)
(* which it keeps the session and the skipped keys, over stops and         *)
(* restarts of the program at any point.  The peer is another client of    *)
(* the kind, with one device, that is never stopped.                       *)
(*                                                                         *)
(* A handler runs to its end or the program stops in it, at one of the     *)
(* points between its changes of the database and of the network.          *)
(***************************************************************************)
EXTENDS OmemoSession

CONSTANTS
  Im, Peer,     \* the two devices
  Builds,       \* "zero": RunIm as it is; "load": with its call of LoadSession
  FirstIds,     \* the first device in the peer's list, 0 if it is empty
  Faults,       \* what may fail: "random", "derive", "crypto", "load"
  MaxSend,      \* bound: messages encrypted by one device
  MaxCommands,  \* bound: commands the user types
  MaxTrouble    \* bound: stops and failures

ASSUME ImAssumption ==
  /\ Im # Peer /\ Device = {Im, Peer}
  /\ Builds \subseteq {"zero", "load"}
  /\ Faults \subseteq {"random", "derive", "crypto", "load"}
  /\ FirstIds \subseteq Nat
  /\ MaxSend \in Nat /\ MaxCommands \in Nat /\ MaxTrouble \in Nat

VARIABLES
  build,        \* which program was built
  running,
  im,           \* its memory: the static variables of im.c
  disk,         \* /tmp/session.db
  requests,     \* iqs under way to the server
  answers,      \* iqs under way from the server
  ourlist,      \* the device list the server keeps for our account
  peer,         \* the peer's session, and whether our bundle is published
  out,          \* out[d]: the messages device d sent
  fresh,        \* fresh[d]: how many ratchet key pairs it generated
  ids,          \* how many ids GenerateUuidv4 made
  commands,     \* history: commands typed
  taken,        \* history: messages of the peer whose decryption was saved
  shown,        \* history: messages of the peer that were printed
  shownagain,   \* history: was one printed twice in the life of a session?
  forgot,       \* history: was a session given up?
  trouble       \* how often the program was stopped or something around it failed

vars == <<build, running, im, disk, requests, answers, ourlist, peer, out, fresh,
          ids, commands, taken, shown, shownagain, forgot, trouble>>

Kind == {"REMOTEDEVICELIST", "OURDEVICELIST", "BUNDLE"}

deviceid == 1024

Fault == Faults \cup {"none"}

store == omemoSetupStore(1, NumPreKeys + 3).store

(* A bundle with the prekey that was picked from it.                       *)
Bundle(d, i) ==
  [signed |-> TRUE, ik |-> Pub(d, "ik", store.identity),
   spk |-> Pub(d, "spk", store.cursignedprekey.kp), spk_id |-> store.cursignedprekey.id,
   pk |-> Pub(d, "pk", store.prekeys[i].kp), pk_id |-> store.prekeys[i].id]

NewKey(d) == <<d, "ek", fresh[d] + 1, 1>>

(* RunIm clears the session; the call that would load it is commented out. *)
Started(session) ==
  [session |-> session, remoteid |-> 0, pending |-> [k \in Kind |-> 0], sent |-> FALSE]

Init ==
  /\ build \in Builds
  /\ running = TRUE
  /\ im = Started(ZeroSession)
  /\ disk = [session |-> ZeroSession, mkskipped |-> {}]
  /\ requests = {} /\ answers = {} /\ ourlist = {}
  /\ peer = [session |-> ZeroSession, published |-> FALSE]
  /\ out = [d \in {Im, Peer} |-> {}] /\ fresh = [d \in {Im, Peer} |-> 0]
  /\ ids = 0 /\ commands = 0
  /\ taken = {} /\ shown = {} /\ shownagain = FALSE
  /\ forgot = FALSE /\ trouble = 0

history == <<commands, taken, shown, shownagain, forgot>>

----------------------------------------------------------------------------
(* Requests.  The bit in curpending is the id being there.                 *)

(* Something goes wrong around the client, or does not.                    *)
Trouble(wrong) ==
  /\ wrong => trouble < MaxTrouble
  /\ trouble' = IF wrong THEN trouble + 1 ELSE trouble

(* "accepts" is whether xmppFormatStanza took the stanza; the request is     *)
(* pending in any case.                                                    *)
Request(c, kind, to, accepts) ==
  /\ ids' = ids + 1
  /\ im' = [c EXCEPT !.pending[kind] = ids + 1]
  /\ requests' = IF accepts THEN requests \cup {[id |-> ids + 1, kind |-> kind, to |-> to]}
                 ELSE requests
  /\ Trouble(~accepts)

(* The kinds that wait for an answer with this id.                         *)
Asked(id) == {k \in Kind : im.pending[k] = id /\ id # 0}

Faulty_GetPendingFromId(id) ==
  IF Asked(id) \ {"REMOTEDEVICELIST"} = {} THEN "default" ELSE CHOOSE k \in Asked(id) : TRUE

GetPendingFromId(id) ==
  IF Asked(id) = {} THEN "default" ELSE CHOOSE k \in Asked(id) : TRUE

(* The id is taken out as it is found.                                     *)
Cleared(id) == [im EXCEPT !.pending = [k \in Kind |-> IF @[k] = id THEN 0 ELSE @[k]]]

(* The first READY of a stream: presence, our device list, our bundle.     *)
FirstReady ==
  /\ running /\ ~im.sent
  /\ \E accepts, announces \in BOOLEAN :
       /\ Request([im EXCEPT !.sent = TRUE], "OURDEVICELIST", 0, accepts)
       /\ peer' = [peer EXCEPT !.published = @ \/ announces]
  /\ UNCHANGED <<build, running, disk, answers, ourlist, out, fresh, history>>

(* A device list of ours: it is published again, with this device in it.   *)
ParseOurDeviceList(a) ==
  /\ im' = Cleared(a.id)
  /\ \E accepts \in BOOLEAN :
       /\ ourlist' = IF accepts THEN a.list \cup {deviceid} ELSE ourlist
       /\ Trouble(~accepts)
  /\ UNCHANGED <<disk, requests, ids, fresh, forgot>>

(* Only the first device of the list counts.                               *)
ParseRemoteDeviceList(a) ==
  /\ IF a.first > 0
     THEN \E accepts \in BOOLEAN :
            Request([Cleared(a.id) EXCEPT !.remoteid = a.first],
                    "BUNDLE", a.first, accepts)
     ELSE im' = Cleared(a.id) /\ Trouble(TRUE) /\ UNCHANGED <<requests, ids>>
  /\ UNCHANGED <<disk, ourlist, fresh, forgot>>

Opened(r, a) ==
  /\ im' = [Cleared(a.id) EXCEPT !.session = r.session]
  /\ disk' = [disk EXCEPT !.session = r.session]
  /\ fresh' = [fresh EXCEPT ![Im] = IF r.ret = 0 THEN @ + 1 ELSE @]
  /\ Trouble(r.ret # 0)
  /\ forgot' = (forgot \/ (r.ret = 0 /\ im.session.init # SESSION_UNINIT))
  /\ UNCHANGED <<requests, ids, ourlist>>

(* A bundle sets up a session, also over one that is open; it is saved     *)
(* whether that worked or not.                                             *)
ParseBundle(a) ==
  \E fault \in Fault, i \in Slot :
    Opened(omemoInitiateSession(Im, im.session, store, Bundle(Peer, i), NewKey(Im), fault), a)

(* Any other answer is read for a bundle; a device list is passed over.    *)
ParseSpecificStanza(a) ==
  IF a.kind = "BUNDLE" THEN ParseBundle(a)
  ELSE im' = Cleared(a.id) /\ UNCHANGED <<disk, requests, ids, ourlist, fresh, forgot, trouble>>

HandleIq(a) ==
  /\ running /\ answers' = answers \ {a}
  /\ CASE GetPendingFromId(a.id) = "OURDEVICELIST" -> ParseOurDeviceList(a)
       [] GetPendingFromId(a.id) = "REMOTEDEVICELIST" -> ParseRemoteDeviceList(a)
       [] OTHER -> ParseSpecificStanza(a)
  /\ UNCHANGED <<build, running, peer, out, commands, taken, shown, shownagain>>

----------------------------------------------------------------------------
(* Messages.                                                               *)

(* Where the program stops in a handler; "end" is that it does not.        *)
Stop == {"end", "committed", "saved"}

(* What is left of its memory.                                             *)
Left(memory, stop) == IF stop = "end" THEN memory ELSE Started(ZeroSession)

(* How far the handler of a message came: what was saved, what was shown.  *)
SavedBy(stop) == stop \in {"saved", "end"}

ShownBy(stop) == stop = "end"

Faulty_Committed(m, r, stop) ==
  /\ disk' = [session |-> disk.session, mkskipped |-> r.skipped]
  /\ im' = Left([im EXCEPT !.remoteid = m.sid, !.session = r.session], stop)
  /\ running' = (stop = "end")

(* The transaction is committed and the session is saved in one of its     *)
(* own; then the handler goes on.                                          *)
Committed(m, r, stop) ==
  /\ disk' = [session |-> IF SavedBy(stop) THEN r.session ELSE disk.session,
              mkskipped |-> r.skipped]
  /\ im' = Left([im EXCEPT !.remoteid = m.sid, !.session = r.session], stop)
  /\ running' = (stop = "end")

(* omemoDecryptKey succeeded: the message is printed.                      *)
Decrypted(m, r, stop) ==
  /\ Committed(m, r, stop)
  /\ taken' = IF SavedBy(stop) THEN taken \cup {m.m.body} ELSE taken
  /\ shown' = IF ShownBy(stop) THEN shown \cup {m.m.body} ELSE shown
  /\ shownagain' = (shownagain \/ (ShownBy(stop) /\ ~forgot /\ m.m.body \in shown))
  /\ fresh' = [fresh EXCEPT ![Im] = IF r.session.state.dhs = NewKey(Im) THEN @ + 1 ELSE @]

(* The callback of the source of randomness answers 1 when it fails (825), *)
(* which is not less than 0, and omemo.c hands its answer on.  The session *)
(* that was put back is saved as after a success, and the message is       *)
(* decrypted with the key the stack holds: that of the message opened      *)
(* last, if any.  Its tag refuses it, unless it is that message again,     *)
(* which takes a session given up in between, and then the history knows   *)
(* it already.                                                             *)
NotRefused(r) == r.ret = OMEMO_ERANDOM

(* It failed: the transaction is cancelled.                                *)
Cancelled(m, r) ==
  /\ im' = [im EXCEPT !.remoteid = m.sid, !.session = r.session]
  /\ UNCHANGED <<disk, running>>

Decrypts(m, r, stop) ==
  /\ \/ r.ret = 0 /\ Decrypted(m, r, stop)
     \/ NotRefused(r) /\ Committed(m, r, stop) /\ UNCHANGED <<taken, shown, shownagain, fresh>>
     \/ /\ r.ret # 0 /\ ~NotRefused(r) /\ stop = "end"
        /\ Cancelled(m, r) /\ UNCHANGED <<taken, shown, shownagain, fresh>>
  /\ Trouble(stop # "end")
  /\ UNCHANGED <<build, requests, answers, ourlist, peer, out, ids, commands,
                 forgot>>

Decrypt(m, fault) ==
  omemoDecryptKey(Im, im.session, store, disk.mkskipped, m.m, NewKey(Im), fault)

(* The sender's device id is kept before the message is decrypted.         *)
ParseEncryptedMessage(m) ==
  /\ running
  /\ \E fault \in Fault : \E r \in {Decrypt(m, fault)} :
       \E stop \in Stop : Decrypts(m, r, stop)

----------------------------------------------------------------------------
(* Commands.                                                               *)

Types == running /\ commands < MaxCommands /\ commands' = commands + 1

Omemo ==
  /\ Types /\ im.session.init = SESSION_UNINIT
  /\ \E accepts \in BOOLEAN : Request(im, "REMOTEDEVICELIST", 0, accepts)
  /\ UNCHANGED <<build, running, disk, answers, ourlist, peer, out, fresh,
                 taken, shown, shownagain, forgot>>

(* The session is not saved.                                               *)
CloseOmemo ==
  /\ Types /\ im.session.init # SESSION_UNINIT
  /\ im' = [im EXCEPT !.session = ZeroSession]
  /\ forgot' = TRUE
  /\ UNCHANGED <<build, running, disk, requests, answers, ourlist, peer, out, fresh,
                 ids, taken, shown, shownagain, trouble>>

Emit(d, r, rid, sid) ==
  [out EXCEPT ![d] = @ \cup {[m |-> r.msg, rid |-> rid, sid |-> sid]}]

Faulty_Encrypted(r, stop, accepts) ==
  /\ disk' = IF stop = "end" THEN [disk EXCEPT !.session = r.session] ELSE disk
  /\ im' = Left([im EXCEPT !.session = r.session], stop)
  /\ out' = IF accepts THEN Emit(Im, r, im.remoteid, deviceid) ELSE out
  /\ running' = (stop = "end")
  /\ Trouble(stop # "end" \/ ~accepts)

(* The session is saved before the message is formatted; the stanza may    *)
(* not be taken.                                                           *)
Encrypted(r, stop, accepts) ==
  /\ disk' = [disk EXCEPT !.session = r.session]
  /\ im' = Left([im EXCEPT !.session = r.session], stop)
  /\ out' = IF stop = "end" /\ accepts THEN Emit(Im, r, im.remoteid, deviceid) ELSE out
  /\ running' = (stop = "end")
  /\ Trouble(stop # "end" \/ ~accepts)

Body(d) == Cardinality(out[d]) + 1

SendNormalOmemo ==
  /\ running /\ Body(Im) <= MaxSend
  /\ im.session.init # SESSION_UNINIT /\ im.remoteid # 0
  /\ \E fault \in Fault : \E r \in {omemoEncryptKey(im.session, Body(Im), fault)} :
       IF r.ret # 0 THEN UNCHANGED <<disk, im, out, running, trouble>>
       ELSE \E stop \in {"saved", "end"}, accepts \in BOOLEAN :
              Encrypted(r, stop, accepts)
  /\ UNCHANGED <<build, requests, answers, ourlist, peer, fresh, ids, history>>

----------------------------------------------------------------------------
(* The program is stopped between two handlers, and started.  The stream   *)
(* is lost with what was under way in it.                                  *)
Stopped ==
  /\ running /\ Trouble(TRUE)
  /\ running' = FALSE /\ im' = Started(ZeroSession)
  /\ UNCHANGED <<build, disk, requests, answers, ourlist, peer, out, fresh, ids,
                 history>>

RunIm ==
  /\ ~running
  /\ running' = TRUE
  /\ im' = Started(IF build = "load" THEN disk.session ELSE ZeroSession)
  /\ requests' = {} /\ answers' = {}
  /\ forgot' = (forgot \/ im'.session # disk.session)
  /\ UNCHANGED <<build, disk, ourlist, peer, out, fresh, ids, commands, taken, shown,
                 shownagain, trouble>>

----------------------------------------------------------------------------
(* The server (external) answers each request once, in any order, and the  *)
(* peer uses the library as the client does.                               *)
Serves(q, a) ==
  /\ requests' = requests \ {q}
  /\ answers' = answers \cup {a}
  /\ UNCHANGED <<build, running, im, disk, ourlist, peer, out, fresh, ids, history, trouble>>

Server ==
  \E q \in requests :
    CASE q.kind = "OURDEVICELIST" -> Serves(q, [id |-> q.id, kind |-> q.kind, list |-> ourlist])
      [] q.kind = "BUNDLE" -> Serves(q, [id |-> q.id, kind |-> q.kind])
      [] OTHER -> \E first \in FirstIds :
                   Serves(q, [id |-> q.id, kind |-> q.kind, first |-> first])

PeerSteps(session, newout, new) ==
  /\ peer' = [peer EXCEPT !.session = session]
  /\ out' = newout
  /\ fresh' = [fresh EXCEPT ![Peer] = @ + new]
  /\ UNCHANGED <<build, running, im, disk, requests, answers, ourlist, ids, history, trouble>>

PeerInitiates ==
  /\ peer.published /\ peer.session.init = SESSION_UNINIT
  /\ \E i \in Slot :
       PeerSteps(omemoInitiateSession(Peer, peer.session, store, Bundle(Im, i), NewKey(Peer),
                                      "none").session, out, 1)

PeerEncrypts ==
  /\ Body(Peer) <= MaxSend /\ peer.session.init # SESSION_UNINIT
  /\ \E r \in {omemoEncryptKey(peer.session, Body(Peer), "none")} :
       PeerSteps(r.session, Emit(Peer, r, deviceid, 1), 0)

PeerDecrypts ==
  \E m \in out[Im] :
    \E r \in {omemoDecryptKey(Peer, peer.session, store, {}, m.m, NewKey(Peer), "none")} :
      /\ r.ret = 0
      /\ PeerSteps(r.session, out, IF r.session.state.dhs = NewKey(Peer) THEN 1 ELSE 0)

Next ==
  \/ FirstReady \/ Omemo \/ CloseOmemo \/ SendNormalOmemo
  \/ \E a \in answers : HandleIq(a)
  \/ \E m \in out[Peer] : ParseEncryptedMessage(m)
  \/ Stopped \/ RunIm
  \/ Server \/ PeerInitiates \/ PeerEncrypts \/ PeerDecrypts

(* The client's loop runs and the server answers; nobody has to write.     *)
Spec ==
  /\ Init /\ [][Next]_vars
  /\ WF_vars(FirstReady) /\ WF_vars(Server) /\ WF_vars(RunIm)
  /\ WF_vars(\E a \in answers : HandleIq(a))

----------------------------------------------------------------------------
(* No two messages the client sent are encrypted under one key, wherever   *)
(* the program was stopped and whatever it loaded when it was started.     *)
KeysNeverReused == \A e1, e2 \in out[Im] : e1.m.mk = e2.m.mk => e1 = e2

(* No message of the peer is printed twice in the life of a session,       *)
(* however often the server hands it over.                                 *)
ShownOnce == ~shownagain

Behind(m) == {e \in out[Peer] : e.m.body < m.m.body}

(* As long as the session is not given up, the next message of the peer    *)
(* opens, also after a stop between the database's two transactions.       *)
NextOpens ==
  \A m \in out[Peer] :
    /\ running /\ ~forgot
    /\ im.session.init # SESSION_UNINIT
    /\ {im.session.init, peer.session.init} # {SESSION_INIT}
    /\ \A e \in Behind(m) : e.m.body \in taken
    /\ m.m.body \notin taken
    => Decrypt(m, "none").ret = 0

SharedSecret(session) == SubSeq(session.state.rk, 1, 4)

(* Both have a session, and each its own: the bundle that was asked for    *)
(* came after the session was opened by the peer, or both set one up.      *)
Crossed ==
  /\ SESSION_UNINIT \notin {im.session.init, peer.session.init}
  /\ SharedSecret(im.session) # SharedSecret(peer.session)

(* Then nothing the peer sent gets through, not even the first message of  *)
(* the session it keeps: a crossing never replaces the client's session,   *)
(* and "/plain" is the only way out.                                       *)
CrossedIsDeaf ==
  running /\ Crossed => \A m \in out[Peer] : Decrypt(m, "none").ret # 0

(* Every request comes to what it was made for: the device ends up in the  *)
(* account's device list, and a peer that was asked for is set up with,    *)
(* unless the user, the server or the source of randomness comes in        *)
(* between.                                                                *)
RequestsEnd ==
  /\ im.sent ~> deviceid \in ourlist \/ trouble # 0
  /\ im.pending["REMOTEDEVICELIST"] # 0 ~> im.session.init # SESSION_UNINIT \/ trouble # 0
=============================================================================
