------------------------- MODULE XmppOrder_proofs -------------------------
(***************************************************************************)
(* Proofs about the order in which the XMPP client hands the server's      *)
(* stanzas over, for elements, buffers and reads of every size, lost       *)
(* connections and every server of the model.                              *)
(***************************************************************************)
EXTENDS XmppClient_proofs

USE XmppAssumption

(* The ends in a sequence of parts that matter for the delivery.           *)
Under(s) == {j \in DOMAIN s : s[j].last /\ Numbered(s[j].el)}

(* Every element that has begun is closed.                                 *)
Finishes(s) ==
  \A j \in DOMAIN s : \E h \in DOMAIN s : j <= h /\ s[h].last /\ s[h].el = s[j].el

(* After the end of an element comes the beginning of the next.            *)
Begins(s) == \A j \in DOMAIN s : j = 1 \/ s[j - 1].last => s[j].first

(* The stanzas that are not too large begin within InCap of their end.     *)
Fitting(s, large) ==
  \A j \in Under(s) :
    \/ s[j].el.k \in large
    \/ \E h \in 1..j : /\ j - h < InCap /\ (h = 1 \/ s[h - 1].last)
                       /\ \A m \in h..(j - 1) : ~ s[m].last

(* The end of the result of the binding.                                   *)
BindEnd(p) == p.last /\ p.el.name = "iq" /\ p.el.child = "bind"

(* The result of the binding comes before every stanza.                    *)
BindFirst(s) ==
  \E h \in DOMAIN s : BindEnd(s[h]) /\ \A j \in 1..(h - 1) : j \notin Under(s)

(* What DeliveredInOrder says of what is under way, what the application   *)
(* got and what the server has sent.                                       *)
Delivery(s, g, srv) ==
  /\ \A j, h \in DOMAIN g : j < h => g[j] < g[h]
  /\ \A j, h \in Under(s) : j < h => s[j].el.k < s[h].el.k
  /\ \A j \in DOMAIN g : \A h \in Under(s) : g[j] < s[h].el.k
  /\ ({g[j] : j \in DOMAIN g} \cup {s[j].el.k : j \in Under(s)}) \ srv.large =
     (1..srv.n) \ (srv.large \cup srv.lost)

-----------------------------------------------------------------------------
(* What becomes of these when parts are taken from the front.              *)

LEMMA UnderIs ==
  ASSUME NEW s \in Seq(Part)
  PROVE  /\ \A j \in Under(s) : /\ j \in 1..Len(s) /\ s[j] \in Part /\ s[j].el \in Element
                                /\ s[j].el.k \in Nat /\ s[j].last
         /\ Under(<<>>) = {}
<1>1. ASSUME NEW j \in Under(s)
      PROVE  /\ j \in 1..Len(s) /\ s[j] \in Part /\ s[j].el \in Element
             /\ s[j].el.k \in Nat /\ s[j].last
  <2>1. j \in 1..Len(s) /\ s[j].last
    BY DEF Under
  <2>2. s[j] \in Part
    BY <2>1
  <2>3. s[j].el \in Element
    BY <2>2 DEF Part
  <2>4. s[j].el.k \in Nat
    BY <2>3 DEF Element
  <2> QED
    BY <2>1, <2>2, <2>3, <2>4
<1>2. Under(<<>>) = {}
  BY DEF Under
<1> QED
  BY <1>1, <1>2

LEMMA UnderDropped ==
  ASSUME NEW s \in Seq(Part), NEW n \in 0..Len(s)
  PROVE  /\ \A j \in Under(Drop(s, n)) : /\ j + n \in Under(s) /\ j > 0
                                         /\ Drop(s, n)[j] = s[j + n]
         /\ \A j \in Under(s) : j > n => /\ j - n \in Under(Drop(s, n))
                                         /\ Drop(s, n)[j - n] = s[j]
<1> DEFINE d == Drop(s, n)
<1>1. /\ d \in Seq(Part) /\ Len(d) = Len(s) - n
      /\ \A j \in 1..(Len(s) - n) : d[j] = s[j + n]
  BY DropIs, Zenon
<1> HIDE DEF d
<1>2. ASSUME NEW j \in Under(d) PROVE j + n \in Under(s) /\ j > 0 /\ d[j] = s[j + n]
  <2>1. j \in 1..(Len(s) - n) /\ d[j].last /\ Numbered(d[j].el)
    BY <1>1 DEF Under
  <2>2. d[j] = s[j + n] /\ j + n \in 1..Len(s)
    BY <2>1, <1>1
  <2> QED
    BY <2>1, <2>2 DEF Under
<1>3. ASSUME NEW j \in Under(s), j > n PROVE j - n \in Under(d) /\ d[j - n] = s[j]
  <2>1. j \in 1..Len(s) /\ s[j].last /\ Numbered(s[j].el)
    BY DEF Under
  <2>2. j - n \in 1..(Len(s) - n) /\ (j - n) + n = j
    BY <2>1, <1>3
  <2>3. d[j - n] = s[j] /\ j - n \in DOMAIN d
    BY <2>2, <1>1
  <2> QED
    BY <2>1, <2>3 DEF Under
<1> QED
  BY <1>2, <1>3 DEF d

LEMMA FinishesDropped ==
  ASSUME NEW s \in Seq(Part), NEW n \in 0..Len(s), Finishes(s)
  PROVE  Finishes(Drop(s, n))
<1> DEFINE d == Drop(s, n)
<1>1. /\ d \in Seq(Part) /\ Len(d) = Len(s) - n
      /\ \A j \in 1..(Len(s) - n) : d[j] = s[j + n]
  BY DropIs
<1> HIDE DEF d
<1>2. ASSUME NEW j \in DOMAIN d
      PROVE  \E h \in DOMAIN d : j <= h /\ d[h].last /\ d[h].el = d[j].el
  <2>1. j \in 1..(Len(s) - n) /\ j + n \in DOMAIN s /\ d[j] = s[j + n]
    BY <1>1
  <2>2. PICK h \in DOMAIN s : j + n <= h /\ s[h].last /\ s[h].el = s[j + n].el
    BY <2>1 DEF Finishes
  <2>3. h - n \in DOMAIN d /\ j <= h - n /\ d[h - n] = s[h]
    <3>1. h \in 1..Len(s) /\ h - n \in 1..(Len(s) - n) /\ (h - n) + n = h /\ j <= h - n
      BY <2>1, <2>2
    <3> QED
      BY <3>1, <1>1
  <2> QED
    BY <2>1, <2>2, <2>3
<1> QED
  BY <1>2 DEF Finishes, d

LEMMA BeginsDropped ==
  ASSUME NEW s \in Seq(Part), NEW n \in 0..Len(s), n = 0 \/ s[n].last,
         Begins(s), NEW large, Fitting(s, large)
  PROVE  Begins(Drop(s, n)) /\ Fitting(Drop(s, n), large)
<1> DEFINE d == Drop(s, n)
<1>1. /\ d \in Seq(Part) /\ Len(d) = Len(s) - n
      /\ \A j \in 1..(Len(s) - n) : d[j] = s[j + n]
  BY DropIs
<1>2. \A j \in Under(d) : j + n \in Under(s) /\ j > 0 /\ d[j] = s[j + n]
  BY UnderDropped
<1> HIDE DEF d
<1>3. ASSUME NEW j \in DOMAIN d, j = 1 \/ d[j - 1].last PROVE d[j].first
  <2>1. j \in 1..(Len(s) - n) /\ j + n \in DOMAIN s /\ d[j] = s[j + n]
    BY <1>1
  <2>2. j + n = 1 \/ s[j + n - 1].last
    <3>1. CASE j = 1
      <4>1. n = 0 \/ (s[n].last /\ j + n - 1 = n)
        BY <3>1
      <4> QED
        BY <4>1, <3>1
    <3>2. CASE j # 1
      <4>0. j \in 1..(Len(s) - n) /\ Len(s) \in Nat /\ n \in Nat
        BY <2>1
      <4>1. j - 1 \in 1..(Len(s) - n) /\ (j - 1) + n = j + n - 1
        BY <4>0, <3>2
      <4>2. d[j - 1] = s[(j - 1) + n]
        BY <4>1, <1>1
      <4>3. d[j - 1].last
        BY <1>3, <3>2
      <4> QED
        BY <4>1, <4>2, <4>3
    <3> QED
      BY <3>1, <3>2
  <2> QED
    BY <2>1, <2>2 DEF Begins
<1>4. ASSUME NEW j \in Under(d), d[j].el.k \notin large
      PROVE  \E h \in 1..j : /\ j - h < InCap /\ (h = 1 \/ d[h - 1].last)
                             /\ \A m \in h..(j - 1) : ~ d[m].last
  <2>1. j + n \in Under(s) /\ d[j] = s[j + n] /\ j \in 1..(Len(s) - n)
    BY <1>1, <1>2 DEF Under
  <2>2. PICK h \in 1..(j + n) : /\ (j + n) - h < InCap /\ (h = 1 \/ s[h - 1].last)
                                /\ \A m \in h..((j + n) - 1) : ~ s[m].last
    BY <2>1, <1>4 DEF Fitting
  <2>3. h > n
    <3>1. CASE n = 0
      BY <3>1
    <3>2. CASE n # 0
      <4>1. s[n].last /\ n <= (j + n) - 1
        BY <3>2, <2>1
      <4>2. ~ (n \in h..((j + n) - 1))
        BY <4>1, <2>2
      <4> QED
        BY <4>1, <4>2
    <3> QED
      BY <3>1, <3>2
  <2>4. h - n \in 1..j /\ j - (h - n) < InCap
    BY <2>1, <2>2, <2>3
  <2>5. h - n = 1 \/ d[(h - n) - 1].last
    <3>1. CASE h - n # 1
      <4>1. (h - n) - 1 \in 1..(Len(s) - n) /\ ((h - n) - 1) + n = h - 1 /\ h # 1
        BY <3>1, <2>1, <2>4
      <4> QED
        BY <4>1, <1>1, <2>2, Zenon
    <3> QED
      BY <3>1
  <2>6. ASSUME NEW m \in (h - n)..(j - 1) PROVE ~ d[m].last
    <3>1. m \in 1..(Len(s) - n) /\ m + n \in h..((j + n) - 1)
      BY <2>1, <2>4
    <3> QED
      BY <3>1, <1>1, <2>2
  <2> QED
    BY <2>4, <2>5, <2>6
<1> QED
  BY <1>3, <1>4 DEF Begins, Fitting, d

-----------------------------------------------------------------------------
(* What becomes of them when an element comes behind.                      *)

(* An element of n parts behind the parts of s.                            *)
Longer(t, s, e, n) ==
  /\ t \in Seq(Part) /\ Len(t) = Len(s) + n
  /\ \A j \in 1..Len(s) : t[j] = s[j]
  /\ \A j \in 1..n : /\ t[Len(s) + j].el = e
                     /\ (j = 1 => t[Len(s) + j].first)
                     /\ (j = n => t[Len(s) + j].last)
                     /\ (j # n => ~ t[Len(s) + j].last)

LEMMA PartsBehind ==
  ASSUME NEW s \in Seq(Part), NEW e \in Element, NEW n \in Nat \ {0}
  PROVE  Longer(s \o Parts(e, n), s, e, n)
<1> DEFINE p == Parts(e, n)
           t == s \o p
<1>1. /\ p \in Seq(Part) /\ Len(p) = n
      /\ \A j \in 1..n : p[j].el = e /\ (p[j].first <=> j = 1) /\ (p[j].last <=> j = n)
  BY PartsIs
<1> HIDE DEF p
<1>2. t \in Seq(Part) /\ Len(t) = Len(s) + n
  BY <1>1
<1>3. ASSUME NEW j \in 1..Len(s) PROVE t[j] = s[j]
  BY <1>1
<1>4. ASSUME NEW j \in 1..n PROVE t[Len(s) + j] = p[j]
  BY <1>1
<1> HIDE DEF t
<1>5. ASSUME NEW j \in 1..n
      PROVE  /\ t[Len(s) + j].el = e
             /\ (j = 1 => t[Len(s) + j].first)
             /\ (j = n => t[Len(s) + j].last)
             /\ (j # n => ~ t[Len(s) + j].last)
  <2>1. p[j].el = e /\ (p[j].first <=> j = 1) /\ (p[j].last <=> j = n)
    BY <1>1
  <2>2. t[Len(s) + j] = p[j]
    BY <1>4
  <2> QED
    BY <2>1, <2>2, Zenon
<1>6. Longer(t, s, e, n)
  BY <1>2, <1>3, <1>5, Zenon DEF Longer
<1> QED
  BY <1>6, Zenon DEF t, p

(* At most its own end is added to those that matter.                      *)
Joined(t, s, e, n) ==
  /\ \A j \in Under(s) : t[j] = s[j]
  /\ Under(t) = Under(s) \cup (IF Numbered(e) THEN {Len(s) + n} ELSE {})
  /\ t[Len(s) + n].el = e

LEMMA UnderAppended ==
  ASSUME NEW s \in Seq(Part), NEW e \in Element, NEW n \in Nat \ {0}
  PROVE  Joined(s \o Parts(e, n), s, e, n)
<1> DEFINE t == s \o Parts(e, n)
<1>0. Longer(t, s, e, n)
  BY PartsBehind
<1>1. /\ t \in Seq(Part) /\ Len(t) = Len(s) + n
      /\ \A j \in 1..Len(s) : t[j] = s[j]
      /\ \A j \in 1..n : /\ t[Len(s) + j].el = e
                         /\ (j = 1 => t[Len(s) + j].first)
                         /\ (j = n => t[Len(s) + j].last)
                         /\ (j # n => ~ t[Len(s) + j].last)
  BY <1>0, Zenon DEF Longer
<1> HIDE DEF t
<1>2. \A j \in Under(s) : t[j] = s[j]
  BY <1>1 DEF Under
<1>3. ASSUME NEW j \in Under(t) PROVE j \in Under(s) \/ (Numbered(e) /\ j = Len(s) + n)
  <2>1. j \in 1..(Len(s) + n) /\ t[j].last /\ Numbered(t[j].el)
    BY <1>1 DEF Under
  <2>2. CASE j <= Len(s)
    <3>1. j \in 1..Len(s) /\ t[j] = s[j]
      BY <2>1, <2>2, <1>1
    <3> QED
      BY <3>1, <2>1 DEF Under
  <2>3. CASE j > Len(s)
    <3>1. j - Len(s) \in 1..n /\ Len(s) + (j - Len(s)) = j
      BY <2>1, <2>3
    <3>2. t[j].el = e /\ j - Len(s) = n
      BY <3>1, <2>1, <1>1, Zenon
    <3> QED
      BY <3>1, <3>2, <2>1
  <2> QED
    BY <2>1, <2>2, <2>3
<1>4. ASSUME NEW j \in Under(s) PROVE j \in Under(t)
  <2>1. j \in 1..Len(s) /\ s[j].last /\ Numbered(s[j].el) /\ t[j] = s[j]
    BY <1>1 DEF Under
  <2> QED
    BY <2>1, <1>1 DEF Under
<1>5. Len(s) + n \in DOMAIN t /\ t[Len(s) + n].el = e /\ t[Len(s) + n].last
  <2>1. n \in 1..n /\ Len(s) + n \in 1..Len(t)
    BY <1>1
  <2>2. t[Len(s) + n].el = e /\ t[Len(s) + n].last
    BY <1>1, <2>1, Zenon
  <2> QED
    BY <1>1, <2>1, <2>2
<1>6. Numbered(e) => Len(s) + n \in Under(t)
  BY <1>5 DEF Under
<1>7. Under(t) = Under(s) \cup (IF Numbered(e) THEN {Len(s) + n} ELSE {})
  BY <1>3, <1>4, <1>6
<1>8. Joined(t, s, e, n)
  BY <1>2, <1>5, <1>7, Zenon DEF Joined
<1> QED
  BY <1>8, Zenon DEF t

LEMMA FinishesAppended ==
  ASSUME NEW s \in Seq(Part), NEW e \in Element, NEW n \in Nat \ {0}, Finishes(s)
  PROVE  Finishes(s \o Parts(e, n))
<1> DEFINE t == s \o Parts(e, n)
<1>0. Longer(t, s, e, n)
  BY PartsBehind
<1>1. /\ t \in Seq(Part) /\ Len(t) = Len(s) + n
      /\ \A j \in 1..Len(s) : t[j] = s[j]
      /\ \A j \in 1..n : /\ t[Len(s) + j].el = e
                         /\ (j = 1 => t[Len(s) + j].first)
                         /\ (j = n => t[Len(s) + j].last)
                         /\ (j # n => ~ t[Len(s) + j].last)
  BY <1>0, Zenon DEF Longer
<1> HIDE DEF t
<1>2. ASSUME NEW j \in DOMAIN t
      PROVE  \E h \in DOMAIN t : j <= h /\ t[h].last /\ t[h].el = t[j].el
  <2>1. j \in 1..(Len(s) + n)
    BY <1>1
  <2>2. CASE j <= Len(s)
    <3>1. j \in DOMAIN s /\ t[j] = s[j]
      BY <2>1, <2>2, <1>1
    <3>2. PICK h \in DOMAIN s : j <= h /\ s[h].last /\ s[h].el = s[j].el
      BY <3>1 DEF Finishes
    <3>3. h \in DOMAIN t /\ t[h] = s[h]
      BY <1>1
    <3> QED
      BY <3>1, <3>2, <3>3
  <2>3. CASE j > Len(s)
    <3>1. j - Len(s) \in 1..n /\ Len(s) + (j - Len(s)) = j /\ n \in 1..n
      BY <2>1, <2>3
    <3>2. t[j].el = e /\ t[Len(s) + n].el = e /\ t[Len(s) + n].last
      BY <3>1, <1>1, Zenon
    <3>3. Len(s) + n \in DOMAIN t /\ j <= Len(s) + n
      BY <2>1, <1>1
    <3> QED
      BY <3>2, <3>3
  <2> QED
    BY <2>1, <2>2, <2>3
<1> QED
  BY <1>2 DEF Finishes, t

LEMMA BeginsAppended ==
  ASSUME NEW s \in Seq(Part), NEW e \in Element, NEW n \in Nat \ {0}, Finishes(s), Begins(s),
         NEW small, NEW large, Fitting(s, small), small \subseteq large,
         Numbered(e) /\ n > InCap => e.k \in large
  PROVE  Begins(s \o Parts(e, n)) /\ Fitting(s \o Parts(e, n), large)
<1> DEFINE t == s \o Parts(e, n)
<1>0. Longer(t, s, e, n)
  BY PartsBehind
<1>1. /\ t \in Seq(Part) /\ Len(t) = Len(s) + n
      /\ \A j \in 1..Len(s) : t[j] = s[j]
      /\ \A j \in 1..n : /\ t[Len(s) + j].el = e
                         /\ (j = 1 => t[Len(s) + j].first)
                         /\ (j = n => t[Len(s) + j].last)
                         /\ (j # n => ~ t[Len(s) + j].last)
  BY <1>0, Zenon DEF Longer
<1>2. /\ \A j \in Under(s) : t[j] = s[j]
      /\ Under(t) = Under(s) \cup (IF Numbered(e) THEN {Len(s) + n} ELSE {})
      /\ t[Len(s) + n].el = e
  <2>1. Joined(t, s, e, n)
    BY UnderAppended
  <2> QED
    BY <2>1, Zenon DEF Joined
<1>3. Len(s) > 0 => s[Len(s)].last
  <2> SUFFICES ASSUME Len(s) > 0 PROVE s[Len(s)].last
    OBVIOUS
  <2>1. Len(s) \in DOMAIN s
    OBVIOUS
  <2>2. PICK h \in DOMAIN s : Len(s) <= h /\ s[h].last
    BY <2>1 DEF Finishes
  <2>3. h = Len(s)
    BY <2>2
  <2> QED
    BY <2>2, <2>3
<1> HIDE DEF t
<1>4. ASSUME NEW j \in DOMAIN t, j = 1 \/ t[j - 1].last PROVE t[j].first
  <2>1. j \in 1..(Len(s) + n)
    BY <1>1
  <2>2. CASE j <= Len(s)
    <3>1. j \in DOMAIN s /\ t[j] = s[j] /\ (j # 1 => t[j - 1] = s[j - 1])
      BY <2>1, <2>2, <1>1
    <3> QED
      BY <3>1, <1>4 DEF Begins
  <2>3. CASE j > Len(s) + 1
    <3>1. \E m \in 1..n : Len(s) + m = j - 1 /\ m # n
      <4>1. (j - 1) - Len(s) \in 1..n /\ (j - 1) - Len(s) # n
        BY <2>1, <2>3
      <4>2. Len(s) + ((j - 1) - Len(s)) = j - 1
        BY <2>1
      <4> QED
        BY <4>1, <4>2
    <3>2. ~ t[j - 1].last
      BY <3>1, <1>1, Zenon
    <3>3. j # 1
      BY <2>3
    <3> QED
      BY <3>2, <3>3, <1>4
  <2>4. CASE j = Len(s) + 1
    <3>1. 1 \in 1..n
      OBVIOUS
    <3>2. t[Len(s) + 1].first
      BY <3>1, <1>1, Zenon
    <3> QED
      BY <3>2, <2>4
  <2> QED
    BY <2>1, <2>2, <2>3, <2>4
<1>5. ASSUME NEW j \in Under(t), t[j].el.k \notin large
      PROVE  \E h \in 1..j : /\ j - h < InCap /\ (h = 1 \/ t[h - 1].last)
                             /\ \A m \in h..(j - 1) : ~ t[m].last
  <2>1. CASE j \in Under(s)
    <3>1. j \in 1..Len(s) /\ t[j] = s[j]
      BY <2>1, <1>2 DEF Under
    <3>2. PICK h \in 1..j : /\ j - h < InCap /\ (h = 1 \/ s[h - 1].last)
                            /\ \A m \in h..(j - 1) : ~ s[m].last
      BY <2>1, <3>1, <1>5 DEF Fitting
    <3>3. h # 1 => t[h - 1] = s[h - 1]
      BY <3>1, <1>1
    <3>4. \A m \in h..(j - 1) : t[m] = s[m]
      BY <3>1, <1>1
    <3> QED
      BY <3>2, <3>3, <3>4
  <2>2. CASE j \notin Under(s)
    <3>1. Numbered(e) /\ j = Len(s) + n /\ n <= InCap
      BY <2>2, <1>2, <1>5
    <3>2. Len(s) + 1 \in 1..j /\ j - (Len(s) + 1) < InCap
      BY <3>1
    <3>3. Len(s) + 1 = 1 \/ t[(Len(s) + 1) - 1].last
      BY <1>1, <1>3
    <3>4. ASSUME NEW m \in (Len(s) + 1)..(j - 1) PROVE ~ t[m].last
      <4>1. m - Len(s) \in 1..n /\ m - Len(s) # n /\ Len(s) + (m - Len(s)) = m
        BY <3>1
      <4> QED
        BY <4>1, <1>1, Zenon
    <3> QED
      BY <3>2, <3>3, <3>4
  <2> QED
    BY <2>1, <2>2
<1> QED
  BY <1>4, <1>5, Zenon DEF Begins, Fitting, t

(* A stanza that fits ends within the first InCap parts.                   *)
LEMMA FirstFits ==
  ASSUME NEW s \in Seq(Part), HasEnd(s), NEW large, Fitting(s, large),
         Numbered(s[FirstEnd(s)].el), s[FirstEnd(s)].el.k \notin large
  PROVE  FirstEnd(s) <= InCap
<1> DEFINE n == FirstEnd(s)
<1>1. n \in 1..Len(s) /\ s[n].last /\ \A h \in 1..(n - 1) : ~ s[h].last
  BY FirstEndIs
<1> HIDE DEF n
<1>2. n \in Under(s) /\ s[n].el.k \notin large
  BY <1>1 DEF Under, n
<1>3. PICK h \in 1..n : n - h < InCap /\ (h = 1 \/ s[h - 1].last)
  BY <1>2 DEF Fitting
<1>4. h = 1
  <2>1. h # 1 => h - 1 \in 1..(n - 1)
    BY <1>1
  <2> QED
    BY <2>1, <1>1, <1>3
<1> QED
  BY <1>1, <1>3, <1>4 DEF n

-----------------------------------------------------------------------------
(* What becomes of the delivery.                                           *)

(* The stanzas handed over and those under way.                            *)
Given(g) == {g[j] : j \in DOMAIN g}

Waiting(s) == {s[j].el.k : j \in Under(s)}

(* Ends that are not numbered, or those of large stanzas, are taken.       *)
LEMMA DeliveryDropped ==
  ASSUME NEW s \in Seq(Part), NEW n \in 0..Len(s), NEW g, NEW srv, Delivery(s, g, srv),
         \A j \in Under(s) : j <= n => s[j].el.k \in srv.large
  PROVE  Delivery(Drop(s, n), g, srv)
<1> DEFINE d == Drop(s, n)
<1>1. /\ \A j \in Under(d) : j + n \in Under(s) /\ j > 0 /\ d[j] = s[j + n]
      /\ \A j \in Under(s) : j > n => j - n \in Under(d) /\ d[j - n] = s[j]
  BY UnderDropped, Zenon
<1>2. /\ \A j \in Under(s) : j \in 1..Len(s)
      /\ \A j \in Under(d) : j \in Nat
  <2>1. d \in Seq(Part)
    BY DropIs
  <2> QED
    BY <2>1 DEF Under
<1> HIDE DEF d
<1>3. ASSUME NEW j \in Under(d), NEW h \in Under(d), j < h PROVE d[j].el.k < d[h].el.k
  <2>1. j + n < h + n
    BY <1>2, <1>3
  <2> QED
    BY <2>1, <1>1 DEF Delivery
<1>4. \A j \in DOMAIN g : \A h \in Under(d) : g[j] < d[h].el.k
  BY <1>1 DEF Delivery
<1>5. Waiting(d) \subseteq Waiting(s)
  BY <1>1 DEF Waiting
<1>6. Waiting(s) \ srv.large \subseteq Waiting(d)
  <2> SUFFICES ASSUME NEW j \in Under(s), s[j].el.k \notin srv.large
               PROVE  s[j].el.k \in Waiting(d)
    BY DEF Waiting
  <2>1. j > n
    BY <1>2
  <2> QED
    BY <2>1, <1>1 DEF Waiting
<1>7. (Given(g) \cup Waiting(d)) \ srv.large = (1..srv.n) \ (srv.large \cup srv.lost)
  <2>1. (Given(g) \cup Waiting(s)) \ srv.large = (1..srv.n) \ (srv.large \cup srv.lost)
    BY DEF Delivery, Given, Waiting
  <2> QED
    BY <2>1, <1>5, <1>6
<1>8. \A j, h \in DOMAIN g : j < h => g[j] < g[h]
  BY DEF Delivery
<1>9. \A j, h \in Under(d) : j < h => d[j].el.k < d[h].el.k
  BY <1>3
<1> QED
  BY <1>4, <1>7, <1>8, <1>9, Zenon DEF Delivery, Given, Waiting, d

(* A stanza is handed to the application.                                  *)
LEMMA DeliveryHanded ==
  ASSUME NEW s \in Seq(Part), HasEnd(s), NEW g \in Seq(Nat), NEW srv, Delivery(s, g, srv),
         Numbered(s[FirstEnd(s)].el)
  PROVE  Delivery(Drop(s, FirstEnd(s)), Append(g, s[FirstEnd(s)].el.k), srv)
<1> DEFINE n == FirstEnd(s)
           d == Drop(s, n)
           k == s[n].el.k
           a == Append(g, k)
<1>1. n \in 1..Len(s) /\ s[n].last /\ \A h \in 1..(n - 1) : ~ s[h].last
  BY FirstEndIs
<1> HIDE DEF n
<1>2. n \in Under(s) /\ k \in Nat
  <2>1. n \in Under(s)
    BY <1>1 DEF Under, n
  <2> QED
    BY <2>1, UnderIs
<1>3. /\ \A j \in Under(d) : j + n \in Under(s) /\ j > 0 /\ d[j] = s[j + n]
      /\ \A j \in Under(s) : j > n => j - n \in Under(d) /\ d[j - n] = s[j]
  <2>1. n \in 0..Len(s)
    BY <1>1
  <2> QED
    BY <2>1, UnderDropped, Zenon
<1>4. /\ \A j \in Under(s) : j \in 1..Len(s) /\ j >= n
      /\ \A j \in Under(d) : j \in Nat
  <2>1. d \in Seq(Part)
    BY <1>1, DropIs
  <2>2. ASSUME NEW j \in Under(s) PROVE j \in 1..Len(s) /\ j >= n
    <3>1. j \in 1..Len(s) /\ s[j].last
      BY DEF Under
    <3>2. ~ (j \in 1..(n - 1))
      BY <3>1, <1>1
    <3> QED
      BY <3>1, <3>2, <1>1
  <2> QED
    BY <2>1, <2>2 DEF Under
<1> HIDE DEF d, k
<1>5. /\ DOMAIN g = 1..Len(g) /\ Len(g) \in Nat
      /\ DOMAIN a = 1..(Len(g) + 1) /\ a[Len(g) + 1] = k
      /\ \A j \in 1..Len(g) : a[j] = g[j]
  BY <1>2
<1> HIDE DEF a
<1>6. \A j \in DOMAIN g : g[j] < k
  BY <1>2 DEF Delivery, k
<1>7. ASSUME NEW j \in DOMAIN a, NEW h \in DOMAIN a, j < h PROVE a[j] < a[h]
  <2>1. j \in 1..(Len(g) + 1) /\ h \in 1..(Len(g) + 1) /\ j \in DOMAIN g /\ a[j] = g[j]
    BY <1>5, <1>7
  <2>2. CASE h = Len(g) + 1
    BY <2>1, <2>2, <1>5, <1>6
  <2>3. CASE h # Len(g) + 1
    <3>1. h \in DOMAIN g /\ a[h] = g[h]
      BY <2>1, <2>3, <1>5
    <3> QED
      BY <3>1, <2>1, <1>7 DEF Delivery
  <2> QED
    BY <2>2, <2>3
<1>8. ASSUME NEW j \in Under(d), NEW h \in Under(d), j < h PROVE d[j].el.k < d[h].el.k
  <2>1. j + n < h + n
    BY <1>4, <1>8, <1>1
  <2> QED
    BY <2>1, <1>3 DEF Delivery
<1>9. ASSUME NEW j \in DOMAIN a, NEW h \in Under(d) PROVE a[j] < d[h].el.k
  <2>1. h + n \in Under(s) /\ n < h + n /\ d[h] = s[h + n]
    BY <1>1, <1>3, <1>4
  <2>2. CASE j = Len(g) + 1
    BY <2>1, <2>2, <1>2, <1>5 DEF Delivery, k
  <2>3. CASE j # Len(g) + 1
    <3>1. j \in DOMAIN g /\ a[j] = g[j]
      BY <2>3, <1>5
    <3> QED
      BY <3>1, <2>1 DEF Delivery
  <2> QED
    BY <2>2, <2>3
<1>10. Given(a) \cup Waiting(d) = Given(g) \cup Waiting(s)
  <2>1. Given(a) = Given(g) \cup {k}
    <3>1. ASSUME NEW j \in DOMAIN a PROVE a[j] \in Given(g) \cup {k}
      <4>1. CASE j = Len(g) + 1
        BY <4>1, <1>5
      <4>2. CASE j # Len(g) + 1
        <5>1. j \in DOMAIN g /\ a[j] = g[j]
          BY <4>2, <1>5
        <5> QED
          BY <5>1 DEF Given
      <4> QED
        BY <4>1, <4>2
    <3>2. \A j \in DOMAIN g : j \in DOMAIN a /\ a[j] = g[j]
      BY <1>5
    <3>3. Len(g) + 1 \in DOMAIN a /\ a[Len(g) + 1] = k
      BY <1>5
    <3> QED
      BY <3>1, <3>2, <3>3 DEF Given
  <2>2. Waiting(s) = Waiting(d) \cup {k}
    <3>1. ASSUME NEW j \in Under(s) PROVE s[j].el.k \in Waiting(d) \cup {k}
      <4>1. CASE j = n
        BY <4>1 DEF k
      <4>2. CASE j > n
        BY <4>2, <1>3 DEF Waiting
      <4> QED
        BY <4>1, <4>2, <1>1, <1>4
    <3>2. k \in Waiting(s)
      BY <1>2 DEF Waiting, k
    <3>3. Waiting(d) \subseteq Waiting(s)
      BY <1>3 DEF Waiting
    <3> QED
      BY <3>1, <3>2, <3>3, Zenon DEF Waiting
  <2> QED
    BY <2>1, <2>2
<1>11. (Given(a) \cup Waiting(d)) \ srv.large = (1..srv.n) \ (srv.large \cup srv.lost)
  BY <1>10, Zenon DEF Delivery, Given, Waiting
<1>12. /\ \A j, h \in DOMAIN a : j < h => a[j] < a[h]
       /\ \A j, h \in Under(d) : j < h => d[j].el.k < d[h].el.k
       /\ \A j \in DOMAIN a : \A h \in Under(d) : a[j] < d[h].el.k
  BY <1>7, <1>8, <1>9
<1>13. Delivery(d, a, srv)
  BY <1>11, <1>12, Zenon DEF Delivery, Given, Waiting
<1> QED
  BY <1>13, Zenon DEF d, a, k, n

(* An element comes behind: nothing numbered, or the next stanza.          *)
LEMMA DeliveryAppended ==
  ASSUME NEW s \in Seq(Part), NEW e \in Element, NEW n \in Nat \ {0}, NEW g \in Seq(Nat),
         NEW srv, NEW new, Delivery(s, g, srv), new.lost = srv.lost, srv.n \in Nat,
         srv.large \subseteq 1..srv.n, srv.lost \subseteq 1..srv.n,
         \/ ~ Numbered(e) /\ new.n = srv.n /\ new.large = srv.large
         \/ /\ Numbered(e) /\ e.k = srv.n + 1 /\ new.n = srv.n + 1
            /\ srv.large \subseteq new.large /\ new.large \subseteq srv.large \cup {srv.n + 1}
  PROVE  Delivery(s \o Parts(e, n), g, new)
<1> DEFINE t == s \o Parts(e, n)
<1>1. /\ \A j \in Under(s) : t[j] = s[j]
      /\ Under(t) = Under(s) \cup (IF Numbered(e) THEN {Len(s) + n} ELSE {})
      /\ t[Len(s) + n].el = e
  <2>1. Joined(t, s, e, n)
    BY UnderAppended
  <2> QED
    BY <2>1, Zenon DEF Joined
<1> HIDE DEF t
<1>2. /\ \A j, h \in DOMAIN g : j < h => g[j] < g[h]
      /\ \A j, h \in Under(s) : j < h => s[j].el.k < s[h].el.k
      /\ \A j \in DOMAIN g : \A h \in Under(s) : g[j] < s[h].el.k
      /\ (Given(g) \cup Waiting(s)) \ srv.large = (1..srv.n) \ (srv.large \cup srv.lost)
  BY DEF Delivery, Given, Waiting
<1>3. CASE ~ Numbered(e) /\ new.n = srv.n /\ new.large = srv.large
  <2>1. Under(t) = Under(s)
    BY <1>1, <1>3
  <2>2. Waiting(t) = Waiting(s)
    BY <2>1, <1>1 DEF Waiting
  <2>3. \A j, h \in Under(t) : j < h => t[j].el.k < t[h].el.k
    BY <2>1, <1>1, <1>2
  <2>4. \A j \in DOMAIN g : \A h \in Under(t) : g[j] < t[h].el.k
    BY <2>1, <1>1, <1>2
  <2>5. (Given(g) \cup Waiting(t)) \ new.large = (1..new.n) \ (new.large \cup new.lost)
    BY <2>2, <1>2, <1>3
  <2> QED
    BY <2>3, <2>4, <2>5, <1>2, Zenon DEF Delivery, Given, Waiting, t
<1>4. CASE /\ Numbered(e) /\ e.k = srv.n + 1 /\ new.n = srv.n + 1
           /\ srv.large \subseteq new.large /\ new.large \subseteq srv.large \cup {srv.n + 1}
  <2>1. Under(t) = Under(s) \cup {Len(s) + n}
    BY <1>1, <1>4
  <2>2. Waiting(t) = Waiting(s) \cup {srv.n + 1}
    BY <2>1, <1>1, <1>4 DEF Waiting
  <2>3. \A j \in Under(s) : j \in 1..Len(s) /\ s[j].el.k \in Nat
    BY UnderIs
  <2>4. Given(g) \cup Waiting(s) \subseteq 1..srv.n
    BY <1>2
  <2>5. ASSUME NEW j \in Under(s) PROVE s[j].el.k < srv.n + 1
    <3>1. s[j].el.k \in 1..srv.n
      BY <2>4 DEF Waiting
    <3> QED
      BY <3>1
  <2>6. \A j \in DOMAIN g : g[j] \in Nat /\ g[j] < srv.n + 1
    <3>1. \A j \in DOMAIN g : g[j] \in 1..srv.n
      BY <2>4 DEF Given
    <3> QED
      BY <3>1
  <2>7. ASSUME NEW j \in Under(t), NEW h \in Under(t), j < h PROVE t[j].el.k < t[h].el.k
    <3>1. CASE h \in Under(s)
      <4>1. j \in Under(s)
        BY <2>1, <2>3, <2>7, <3>1
      <4> QED
        BY <4>1, <3>1, <2>7, <1>1, <1>2
    <3>2. CASE h = Len(s) + n
      <4>1. j \in Under(s) /\ t[h].el.k = srv.n + 1
        BY <2>1, <2>7, <3>2, <1>1, <1>4
      <4> QED
        BY <4>1, <2>5, <1>1
    <3> QED
      BY <3>1, <3>2, <2>1
  <2>8. ASSUME NEW j \in DOMAIN g, NEW h \in Under(t) PROVE g[j] < t[h].el.k
    <3>1. CASE h \in Under(s)
      BY <3>1, <1>1, <1>2
    <3>2. CASE h = Len(s) + n
      BY <3>2, <1>1, <1>4, <2>6
    <3> QED
      BY <3>1, <3>2, <2>1
  <2>9. (Given(g) \cup Waiting(t)) \ new.large = (1..new.n) \ (new.large \cup new.lost)
    <3>1. 1..new.n = (1..srv.n) \cup {srv.n + 1} /\ srv.n + 1 \notin 1..srv.n
      BY <1>4
    <3> DEFINE G == Given(g)
               W == Waiting(s)
               I == 1..srv.n
               x == srv.n + 1
    <3>2. /\ (G \cup W) \ srv.large = I \ (srv.large \cup srv.lost)
          /\ G \cup W \subseteq I /\ srv.large \subseteq I /\ srv.lost \subseteq I /\ x \notin I
          /\ new.large = srv.large \/ new.large = srv.large \cup {x}
          /\ 1..new.n = I \cup {x} /\ Waiting(t) = W \cup {x} /\ new.lost = srv.lost
      <4>1. (G \cup W) \ srv.large = I \ (srv.large \cup srv.lost)
        BY <1>2
      <4>2. new.large = srv.large \/ new.large = srv.large \cup {x}
        BY <1>4, Zenon
      <4>3. G \cup W \subseteq I /\ srv.large \subseteq I /\ srv.lost \subseteq I /\ x \notin I
        BY <3>1, <2>4
      <4>4. 1..new.n = I \cup {x} /\ Waiting(t) = W \cup {x} /\ new.lost = srv.lost
        BY <3>1, <2>2
      <4> QED
        BY <4>1, <4>2, <4>3, <4>4, Zenon
    <3> HIDE DEF G, W, I, x
    <3>3. (G \cup Waiting(t)) \ new.large = (1..new.n) \ (new.large \cup new.lost)
      BY <3>2
    <3> QED
      BY <3>3 DEF G
  <2>10. /\ \A j, h \in Under(t) : j < h => t[j].el.k < t[h].el.k
         /\ \A j \in DOMAIN g : \A h \in Under(t) : g[j] < t[h].el.k
    BY <2>7, <2>8
  <2> QED
    BY <2>9, <2>10, <1>2, Zenon DEF Delivery, Given, Waiting, t
<1> QED
  BY <1>3, <1>4

(* A connection is lost with everything that was under way.                *)
LEMMA DeliveryLost ==
  ASSUME NEW s \in Seq(Part), Finishes(s), NEW g \in Seq(Nat), NEW srv, NEW new, Delivery(s, g, srv),
         new.n = srv.n, new.large = srv.large,
         new.lost = srv.lost \cup {e.k : e \in {f \in Elements(s) : Numbered(f)}}
  PROVE  Delivery(<<>>, g, new)
<1> DEFINE K == {e.k : e \in {f \in Elements(s) : Numbered(f)}}
<1>1. Under(<<>>) = {}
  BY UnderIs
<1>2. Waiting(s) = K
  <2>1. ASSUME NEW j \in Under(s) PROVE s[j].el.k \in K
    BY DEF Under, Elements
  <2>2. ASSUME NEW e \in Elements(s), Numbered(e) PROVE e.k \in Waiting(s)
    <3>1. PICK j \in DOMAIN s : s[j].el = e
      BY DEF Elements
    <3>2. PICK h \in DOMAIN s : s[h].last /\ s[h].el = e
      BY <3>1 DEF Finishes
    <3>3. h \in Under(s)
      BY <3>2, <2>2 DEF Under
    <3> QED
      BY <3>2, <3>3 DEF Waiting
  <2>3. K \subseteq Waiting(s)
    BY <2>2
  <2> HIDE DEF K
  <2>4. Waiting(s) \subseteq K
    BY <2>1 DEF Waiting
  <2> QED
    BY <2>3, <2>4, Zenon
<1>3. Given(g) \cap Waiting(s) = {}
  <2> SUFFICES ASSUME NEW j \in DOMAIN g, NEW h \in Under(s), g[j] = s[h].el.k PROVE FALSE
    BY DEF Given, Waiting
  <2>1. g[j] < s[h].el.k /\ g[j] \in Nat
    BY DEF Delivery
  <2> QED
    BY <2>1
<1>4. (Given(g) \cup Waiting(s)) \ srv.large = (1..srv.n) \ (srv.large \cup srv.lost)
  BY DEF Delivery, Given, Waiting
<1>5. Given(g) \ new.large = (1..new.n) \ (new.large \cup new.lost)
  <2> DEFINE G == Given(g)
             W == Waiting(s)
             I == 1..srv.n
  <2>1. /\ (G \cup W) \ srv.large = I \ (srv.large \cup srv.lost) /\ G \cap W = {}
        /\ new.large = srv.large /\ new.lost = srv.lost \cup W /\ 1..new.n = I
    BY <1>2, <1>3, <1>4
  <2> HIDE DEF G, W, I
  <2>2. G \ new.large = (1..new.n) \ (new.large \cup new.lost)
    BY <2>1, Zenon
  <2> QED
    BY <2>2 DEF G
<1>6. Waiting(<<>>) = {}
  BY <1>1 DEF Waiting
<1>7. (Given(g) \cup Waiting(<<>>)) \ new.large = (1..new.n) \ (new.large \cup new.lost)
  BY <1>5, <1>6
<1>8. \A j, h \in DOMAIN g : j < h => g[j] < g[h]
  BY DEF Delivery
<1>9. /\ \A j, h \in Under(<<>>) : j < h => <<>>[j].el.k < <<>>[h].el.k
      /\ \A j \in DOMAIN g : \A h \in Under(<<>>) : g[j] < <<>>[h].el.k
  BY <1>1
<1> QED
  BY <1>7, <1>8, <1>9, Zenon DEF Delivery, Given, Waiting

(* Nothing numbered is under way, before or after.                         *)
LEMMA DeliveryIdle ==
  ASSUME NEW s, NEW t, NEW g, NEW srv, Delivery(s, g, srv), Under(s) = {}, Under(t) = {}
  PROVE  Delivery(t, g, srv)
<1>1. Waiting(t) = {} /\ Waiting(s) = {}
  BY DEF Waiting
<1>2. (Given(g) \cup Waiting(t)) \ srv.large = (1..srv.n) \ (srv.large \cup srv.lost)
  BY <1>1 DEF Delivery, Given, Waiting
<1>3. \A j, h \in DOMAIN g : j < h => g[j] < g[h]
  BY DEF Delivery
<1>4. /\ \A j, h \in Under(t) : j < h => t[j].el.k < t[h].el.k
      /\ \A j \in DOMAIN g : \A h \in Under(t) : g[j] < t[h].el.k
  OBVIOUS
<1> QED
  BY <1>2, <1>3, <1>4, Zenon DEF Delivery, Given, Waiting

-----------------------------------------------------------------------------
(* What a step of the client that reads a stanza makes of its state: once  *)
(* it has asked to be bound, it never goes back.                           *)

Course ==
  /\ c.state \in Done => c'.state \in Done
  /\ ret' = "GIVEPWD" => c'.state \in {"SASLPWD", "SASLPLAIN"}
  /\ c'.state = "ACCEPTSTANZA" => c'.isnegotiationdone \/ c.state = "ACCEPTSTANZA"
  /\ c.isnegotiationdone => c'.isnegotiationdone

(* The fields it may change.                                               *)
ReadFields == {"state", "out", "solved", "opts", "features", "isnegotiationdone",
               "cansmackresume", "actualrecv"}

Reading == Moved \/ (Took(ReadFields) /\ (After \/ Before))

LEMMA TookMore ==
  \A fs : fs \subseteq ReadFields /\ Took(fs) => Took(ReadFields)
BY DEF Took, Alike

LEMMA SameCourse ==
  ASSUME Looked \/ Moved \/ (Took({}) /\ Before), ret' # "GIVEPWD"
  PROVE  Reading /\ Course /\ c'.out = c.out
<1>1. c'.state = c.state /\ c'.isnegotiationdone = c.isnegotiationdone /\ c'.out = c.out
  BY DEF Looked, Moved, Took, Alike, Fields
<1>2. Course
  BY <1>1 DEF Course
<1>3. Reading
  BY TookMore DEF Reading, Looked
<1> QED
  BY <1>1, <1>2, <1>3

LEMMA NewCourse ==
  ASSUME NEW fs, fs \subseteq ReadFields \ {"isnegotiationdone"}, Took(fs), After \/ Before,
         \/ c'.state = c.state /\ ret' # "GIVEPWD"
         \/ c.state \notin Done /\ c'.state # "ACCEPTSTANZA" /\ ret' # "GIVEPWD"
         \/ c.state \notin Done /\ c'.state \in {"SASLPWD", "SASLPLAIN"}
  PROVE  Reading /\ Course
<1>1. c'.isnegotiationdone = c.isnegotiationdone
  BY DEF Took, Alike, Fields
<1>2. Course
  BY <1>1 DEF Course, Done
<1>3. Reading
  BY TookMore DEF Reading
<1> QED
  BY <1>2, <1>3

LEMMA SaidCourse ==
  ASSUME NEW e, NEW s, NEW fs, fs \subseteq ReadFields \ {"isnegotiationdone", "state", "out"},
         Said(e, s, fs), c.state \notin Done, s # "ACCEPTSTANZA"
  PROVE  Reading /\ Course /\ (c'.out = c.out \/ c'.state = s)
<1>1. CASE Took(fs) /\ Before /\ ret' = "EMEM"
  <2>1. c'.state = c.state /\ c'.out = c.out
    BY <1>1 DEF Took, Alike, Fields, ReadFields
  <2> QED
    BY <1>1, <2>1, NewCourse
<1>2. CASE /\ Took(fs \cup {"out", "state"}) /\ After
           /\ c'.out = Appended(<<>>, e) /\ c'.state = s /\ ret' = "SEND"
  <2>1. fs \cup {"out", "state"} \subseteq ReadFields \ {"isnegotiationdone"}
    BY DEF ReadFields
  <2> QED
    BY <1>2, <2>1, NewCourse
<1> QED
  BY <1>1, <1>2 DEF Said

LEMMA ReadCourse ==
  ASSUME Typed,
         \/ BadStream \/ StartTls \/ NoTls \/ StartScram \/ AskPlain \/ NoMechanism \/ BindResource
         \/ TlsProceeds \/ Challenged \/ PasswordRefused \/ ScramEnds \/ PlainEnds
         \/ Bound \/ Unexpected \/ SmacksEnabled \/ AckAnswer \/ AckRequest
  PROVE  /\ Reading /\ Course /\ ReadsStanza /\ got' = got
         /\ BindResource => c'.out = c.out \/ c'.state = "BIND"
<1>1. DOMAIN c = Fields
  BY DEF Typed, ClientOK
<1>2. ReadsStanza
  BY DEF BadStream, StartTls, NoTls, StartScram, AskPlain, NoMechanism, BindResource,
         Authenticates, Encrypted, ReadsFeatures, TlsProceeds, Challenged, PasswordRefused,
         ScramEnds, PlainEnds, Negotiates, Bound, Unexpected, SmacksEnabled, AckAnswer,
         AckRequest, Established
<1>3. got' = got
  <2>1. UNCHANGED net
    BY DEF BadStream, StartTls, NoTls, StartScram, AskPlain, NoMechanism, BindResource, TlsProceeds,
           Challenged, PasswordRefused, ScramEnds, PlainEnds, Bound, Unexpected, SmacksEnabled,
           AckAnswer, AckRequest, Say, Abort, Return
  <2> QED
    BY <2>1 DEF net
<1>4. CASE BadStream \/ NoTls \/ NoMechanism
  <2>1. (Looked \/ Moved) /\ ret' \in {"ESPEC", "ENEGOTIATE"}
    BY <1>1, <1>4, StreamRows
  <2> QED
    BY <1>2, <1>3, <2>1, SameCourse
<1>5. CASE StartTls \/ StartScram \/ AskPlain \/ BindResource
  <2>1. c.state = "STREAMSENT" /\ c.state \notin Done
    BY <1>5 DEF StartTls, StartScram, AskPlain, BindResource, Authenticates, Encrypted,
                ReadsFeatures, Done
  <2>2. CASE StartTls
    <3>1. Said(E("starttls"), "STARTTLS", {})
      BY <1>1, <2>2, StreamRows
    <3>2. Reading /\ Course
      BY <2>1, <3>1, SaidCourse
    <3>3. ~ BindResource
      BY <2>2 DEF StartTls, BindResource, Authenticates, Encrypted, ReadsFeatures
    <3> QED
      BY <1>2, <1>3, <3>2, <3>3
  <2>3. CASE StartScram
    <3>1. Said(E("auth"), "SASLINIT", {"solved"})
      BY <1>1, <2>3, StreamRows
    <3>2. {"solved"} \subseteq ReadFields \ {"isnegotiationdone", "state", "out"}
      BY DEF ReadFields
    <3>3. Reading /\ Course
      BY <2>1, <3>1, <3>2, SaidCourse
    <3>4. ~ BindResource
      BY <2>3 DEF StartScram, BindResource
    <3> QED
      BY <1>2, <1>3, <3>3, <3>4
  <2>4. CASE AskPlain
    <3>1. Took({"state"}) /\ After /\ c'.state = "SASLPLAIN"
      BY <1>1, <2>4, StreamRows DEF Turned
    <3>2. {"state"} \subseteq ReadFields \ {"isnegotiationdone"}
      BY DEF ReadFields
    <3>3. Reading /\ Course
      BY <2>1, <3>1, <3>2, NewCourse
    <3>4. ~ BindResource
      BY <2>4 DEF AskPlain, BindResource
    <3> QED
      BY <1>2, <1>3, <3>3, <3>4
  <2>5. CASE BindResource
    <3>1. CASE Aborted
      <4>1. Looked /\ ret' # "GIVEPWD"
        BY <3>1 DEF Aborted
      <4> QED
        BY <1>2, <1>3, <4>1, SameCourse
    <3>2. CASE Said(E("bind"), "BIND", {"opts"})
      <4>1. {"opts"} \subseteq ReadFields \ {"isnegotiationdone", "state", "out"}
        BY DEF ReadFields
      <4>2. Reading /\ Course /\ (c'.out = c.out \/ c'.state = "BIND")
        BY <2>1, <3>2, <4>1, SaidCourse
      <4> QED
        BY <1>2, <1>3, <4>2
    <3> QED
      BY <1>1, <2>5, <3>1, <3>2, StreamRows
  <2> QED
    BY <1>5, <2>2, <2>3, <2>4, <2>5
<1>6. CASE TlsProceeds \/ Challenged \/ PasswordRefused \/ ScramEnds \/ PlainEnds
  <2>1. /\ c.state \in {"STARTTLS", "SASLINIT", "SASLCHECKRESULT", "SASLRESULT"}
        /\ c.state \notin Done /\ ~ BindResource
    BY <1>6 DEF TlsProceeds, Challenged, PasswordRefused, ScramEnds, PlainEnds, Done, BindResource,
                Encrypted, ReadsFeatures
  <2>2. \/ Aborted \/ Turned("ENDSTREAM", "EPASS") \/ Turned("ENDSTREAM", "ESPEC")
        \/ Turned("SASLPWD", "GIVEPWD")
        \/ \E f, r : Restarted(f, r) /\ r # "GIVEPWD"
    BY <1>1, <1>6, SaslRows
  <2>3. CASE Aborted
    <3>1. Looked /\ ret' # "GIVEPWD"
      BY <2>3 DEF Aborted
    <3> QED
      BY <1>2, <1>3, <2>1, <3>1, SameCourse
  <2>4. CASE Turned("ENDSTREAM", "EPASS") \/ Turned("ENDSTREAM", "ESPEC")
             \/ Turned("SASLPWD", "GIVEPWD")
    <3>1. /\ Took({"state"}) /\ After
          /\ \/ c'.state = "ENDSTREAM" /\ ret' # "GIVEPWD"
             \/ c'.state = "SASLPWD"
      BY <2>4 DEF Turned
    <3>2. {"state"} \subseteq ReadFields \ {"isnegotiationdone"}
      BY DEF ReadFields
    <3>3. Reading /\ Course
      BY <2>1, <3>1, <3>2, NewCourse
    <3> QED
      BY <1>2, <1>3, <2>1, <3>3
  <2>5. CASE \E f, r : Restarted(f, r) /\ r # "GIVEPWD"
    <3>1. Took({"features", "state"}) /\ After /\ c'.state = "INIT" /\ ret' # "GIVEPWD"
      BY <2>5 DEF Restarted
    <3>2. {"features", "state"} \subseteq ReadFields \ {"isnegotiationdone"}
      BY DEF ReadFields
    <3>3. Reading /\ Course
      BY <2>1, <3>1, <3>2, NewCourse
    <3> QED
      BY <1>2, <1>3, <2>1, <3>3
  <2> QED
    BY <2>2, <2>3, <2>4, <2>5
<1>7. CASE Bound
  <2>1. c.state = "BIND" /\ ~ BindResource
    BY <1>7 DEF Bound, BindResource, Encrypted, ReadsFeatures
  <2>2. CASE (Looked /\ ret' = "ESPEC") \/ (Took({}) /\ Before /\ ret' = "EMEM")
    BY <1>2, <1>3, <2>1, <2>2, SameCourse
  <2>3. CASE Accepted
    <3>1. /\ Took({"state", "isnegotiationdone", "features", "out"}) \/ Took({"state", "isnegotiationdone"})
          /\ After /\ c'.state = "ACCEPTSTANZA" /\ c'.isnegotiationdone = TRUE
          /\ ret' \in {"OK", "SEND"}
      BY <2>3 DEF Accepted
    <3>2. /\ {"state", "isnegotiationdone", "features", "out"} \subseteq ReadFields
          /\ {"state", "isnegotiationdone"} \subseteq ReadFields
      BY DEF ReadFields
    <3>3. Reading
      BY <3>1, <3>2, TookMore DEF Reading
    <3>4. Course
      BY <3>1 DEF Course, Done
    <3> QED
      BY <1>2, <1>3, <2>1, <3>3, <3>4
  <2> QED
    BY <1>1, <1>7, <2>2, <2>3, BoundIs
<1>8. CASE Unexpected \/ SmacksEnabled \/ AckAnswer \/ AckRequest
  <2>1. ~ BindResource
    BY <1>8 DEF Unexpected, SmacksEnabled, AckAnswer, AckRequest, Negotiates, Established,
                 BindResource, Encrypted, ReadsFeatures
  <2>2. CASE Looked /\ ret' \in {"ESTATE", "ACK", "EMEM"}
    BY <1>2, <1>3, <2>1, <2>2, SameCourse
  <2>3. CASE \/ Took({"features", "cansmackresume"}) /\ After /\ ret' = "OK"
             \/ Took({"out"}) /\ After /\ ret' = "SEND"
    <3>1. PICK fs \in {{"features", "cansmackresume"}, {"out"}} :
            Took(fs) /\ After /\ ret' \in {"OK", "SEND"}
      BY <2>3
    <3>2. fs \subseteq ReadFields \ {"isnegotiationdone"} /\ c'.state = c.state
      BY <3>1 DEF ReadFields, Took, Alike, Fields
    <3>3. Reading /\ Course
      BY <3>1, <3>2, NewCourse
    <3> QED
      BY <1>2, <1>3, <2>1, <3>3
  <2> QED
    BY <1>1, <1>8, <2>2, <2>3, StanzaRows
<1> QED
  BY <1>4, <1>5, <1>6, <1>7, <1>8

-----------------------------------------------------------------------------
(* The parts the client has received or will receive, and those of them    *)
(* the parser has not taken.                                               *)
Whole == c.in \o toClient

(* The parser's place is one in all the parts; what is left lies behind    *)
(* it.                                                                     *)
LEMMA WholeIs ==
  ASSUME Typed
  PROVE  /\ Whole \in Seq(Part) /\ c.i \in 0..Len(Whole) /\ Elements(Whole) = Coming
         /\ Left = Drop(Whole, c.i) /\ Left \in Seq(Part)
         /\ \A j \in 1..Len(c.in) : Whole[j] = c.in[j]
<1>1. c.in \in Seq(Part) /\ c.i \in 0..Len(c.in) /\ toClient \in Seq(Part)
  BY DEF Typed, ClientOK
<1>2. /\ Whole \in Seq(Part) /\ Len(Whole) = Len(c.in) + Len(toClient)
      /\ \A j \in 1..Len(c.in) : Whole[j] = c.in[j]
  BY <1>1 DEF Whole
<1>3. Left = Drop(Whole, c.i)
  BY <1>1, DropConcat, Zenon DEF Left, Rest, Whole
<1>4. Left \in Seq(Part) /\ c.i \in 0..Len(Whole)
  <2>1. c.i \in 0..Len(Whole)
    BY <1>1, <1>2
  <2> QED
    BY <1>2, <1>3, <2>1, DropIs
<1>5. Elements(Whole) = Coming
  BY <1>1, ConcatElements DEF Whole, Coming
<1> QED
  BY <1>2, <1>3, <1>4, <1>5

(* The first end is the one with no end before it.                         *)
LEMMA FirstEndUnique ==
  ASSUME NEW s \in Seq(Part), NEW n \in 1..Len(s), s[n].last, \A h \in 1..(n - 1) : ~ s[h].last
  PROVE  HasEnd(s) /\ FirstEnd(s) = n
<1>1. HasEnd(s)
  BY DEF HasEnd
<1>2. FirstEnd(s) \in 1..Len(s) /\ s[FirstEnd(s)].last /\ \A h \in 1..(FirstEnd(s) - 1) : ~ s[h].last
  BY <1>1, FirstEndIs
<1> DEFINE m == FirstEnd(s)
<1>3. m \in 1..Len(s) /\ s[m].last /\ \A h \in 1..(m - 1) : ~ s[h].last
  BY <1>2
<1> HIDE DEF m
<1>4. ~ (m < n) /\ ~ (n < m)
  BY <1>3
<1>5. m = n
  BY <1>3, <1>4
<1> QED
  BY <1>1, <1>5 DEF m

(* What the parser finds in the buffer is what comes first.                *)
LEMMA RestFirst ==
  ASSUME Typed
  PROVE  /\ Rest \in Seq(Part) /\ Len(Rest) <= Len(Left) /\ Len(Rest) = Len(c.in) - c.i
         /\ \A j \in 1..Len(Rest) : Left[j] = Rest[j]
         /\ Drop(Left, Len(Rest)) = toClient
         /\ HasEnd(Rest) => /\ HasEnd(Left) /\ FirstEnd(Left) = FirstEnd(Rest)
                            /\ FirstEnd(Rest) \in 1..Len(Rest)
                            /\ Left[FirstEnd(Left)].el = Rest[FirstEnd(Rest)].el
<1>1. /\ toClient \in Seq(Part) /\ Rest \in Seq(Part) /\ Len(Rest) = Len(c.in) - c.i
      /\ Len(Rest) \in Nat
  BY RestIs DEF Typed
<1>2. /\ Left \in Seq(Part) /\ Len(Left) = Len(Rest) + Len(toClient)
      /\ \A j \in 1..Len(Rest) : Left[j] = Rest[j]
  BY <1>1 DEF Left
<1>3. Drop(Left, Len(Rest)) = toClient
  <2>1. Drop(Left, Len(Rest)) = Drop(Rest, Len(Rest)) \o toClient
    <3>1. Len(Rest) \in 0..Len(Rest)
      BY <1>1
    <3> QED
      BY <1>1, <3>1, DropConcat, Zenon DEF Left
  <2>2. Drop(Rest, Len(Rest)) \in Seq(Part) /\ Len(Drop(Rest, Len(Rest))) = 0
    BY <1>1, DropIs
  <2>3. Drop(Rest, Len(Rest)) = <<>>
    BY <2>2
  <2> QED
    BY <1>1, <2>1, <2>3
<1>4. ASSUME HasEnd(Rest)
      PROVE  /\ HasEnd(Left) /\ FirstEnd(Left) = FirstEnd(Rest) /\ FirstEnd(Rest) \in 1..Len(Rest)
             /\ Left[FirstEnd(Left)].el = Rest[FirstEnd(Rest)].el
  <2> DEFINE n == FirstEnd(Rest)
  <2>1. n \in 1..Len(Rest) /\ Rest[n].last /\ \A h \in 1..(n - 1) : ~ Rest[h].last
    BY <1>1, <1>4, FirstEndIs
  <2> HIDE DEF n
  <2>2. n \in 1..Len(Left) /\ Left[n] = Rest[n] /\ \A h \in 1..(n - 1) : Left[h] = Rest[h]
    BY <1>1, <1>2, <2>1
  <2>3. HasEnd(Left) /\ FirstEnd(Left) = n
    BY <1>2, <2>1, <2>2, FirstEndUnique
  <2> QED
    BY <2>1, <2>2, <2>3 DEF n
<1> QED
  BY <1>1, <1>2, <1>3, <1>4

-----------------------------------------------------------------------------
(* The invariant.                                                          *)

(* Nothing is bound before the client has asked for it.                    *)
Stepped ==
  /\ ret = "GIVEPWD" => c.state \in {"SASLPWD", "SASLPLAIN"}
  /\ c.state = "ACCEPTSTANZA" => c.isnegotiationdone
  /\ server.bound \/ (\E e \in Going : e.name = "bind") => c.state \in Done

(* The stanzas of the server come while the resource is bound.             *)
MayArrive(e) ==
  /\ e.name \in ServerNames /\ (e.k > 0 => e.name \in {"iq", "message", "a"})
  /\ Numbered(e) => server.bound /\ e.child # "bind" /\ e.k <= server.n

Arrives ==
  /\ \A e \in Coming : MayArrive(e)
  /\ server.large \subseteq 1..server.n /\ server.lost \subseteq 1..server.n

(* Every element is closed, and the parser is at the beginning of one.     *)
Framed ==
  /\ Finishes(Whole)
  /\ c.skippingdepth = 0 =>
       /\ Begins(Whole) /\ Fitting(Whole, server.large)
       /\ c.i = 0 \/ Whole[c.i].last

(* A bound client whose negotiation goes on has not read that it is bound. *)
Expects == c.skippingdepth = 0 /\ server.bound /\ ~ c.isnegotiationdone => BindFirst(Left)

(* Only a large stanza is skipped, and the client never leaves off.        *)
SkipsLarge(s, large) ==
  /\ HasEnd(s)
  /\ Numbered(s[FirstEnd(s)].el) => s[FirstEnd(s)].el.k \in large

(* While it skips, there is input or the client waits for it.              *)
Awake == c.skippingdepth > 0 => c.in # <<>> \/ ret = "RECV"

(* It skips a large stanza, unless the stream's end was met on the way.    *)
Skipping == c.skippingdepth > 0 => c.rootclosed \/ SkipsLarge(Left, server.large)

(* Until the stream fails, every stanza is delivered, under way or lost.   *)
Delivered == ret \notin {"EXML", "EXIT"} => Delivery(Left, got, server)

(* What depends on where the parser is.                                    *)
Parsing == Framed /\ Expects /\ Skipping /\ Delivered

Ordered == Stepped /\ Arrives /\ Awake /\ Parsing

-----------------------------------------------------------------------------
(* The ways the parser may move.                                           *)

(* What is known of the client and the server otherwise.                   *)
Steady ==
  /\ server'.bound = server.bound /\ server'.n = server.n
  /\ server'.large = server.large /\ server'.lost = server.lost
  /\ c.isnegotiationdone => c'.isnegotiationdone
  /\ ret' \notin {"EXML", "EXIT"} => ret \notin {"EXML", "EXIT"}

LEMMA SteadyDelivery ==
  ASSUME NEW s, NEW g, server'.n = server.n, server'.large = server.large,
         server'.lost = server.lost, Delivery(s, g, server)
  PROVE  Delivery(s, g, server')
BY Zenon DEF Delivery

(* It stays where it is.                                                   *)
LEMMA ParsingStays ==
  ASSUME Typed, Typed', Parsing, Steady, got' = got,
         c'.skippingdepth = c.skippingdepth, c'.rootclosed = c.rootclosed,
         Left' = Left, (Whole' = Whole /\ c'.i = c.i) \/ (Whole' = Left /\ c'.i = 0)
  PROVE  Parsing'
<1>1. /\ Whole \in Seq(Part) /\ c.i \in 0..Len(Whole) /\ Left = Drop(Whole, c.i)
  BY WholeIs
<1>2. Framed'
  <2>1. CASE Whole' = Whole /\ c'.i = c.i
    BY <2>1 DEF Framed, Parsing, Steady
  <2>2. CASE Whole' = Left /\ c'.i = 0
    <3>1. Finishes(Whole')
      BY <1>1, <2>2, FinishesDropped DEF Framed, Parsing
    <3>2. c.skippingdepth = 0 => Begins(Whole') /\ Fitting(Whole', server.large)
      BY <1>1, <2>2, BeginsDropped DEF Framed, Parsing
    <3> QED
      BY <2>2, <3>1, <3>2 DEF Framed, Steady
  <2> QED
    BY <2>1, <2>2
<1>3. Expects'
  BY DEF Expects, Parsing, Steady, Typed, ClientOK, Flags
<1>4. Skipping'
  BY DEF Skipping, Parsing, Steady
<1>5. Delivered'
  BY SteadyDelivery DEF Delivered, Parsing, Steady
<1> QED
  BY <1>2, <1>3, <1>4, <1>5 DEF Parsing

(* It takes a stanza, which is handed to the application if it is numbered.*)
LEMMA ParsingReads ==
  ASSUME Typed, Typed', Parsing, Steady, ReadsStanza, c.skippingdepth = 0,
         c'.skippingdepth = 0, c'.in = Rest, After, toClient' = toClient,
         \/ ~ Numbered(Stanza) /\ got' = got
         \/ Numbered(Stanza) /\ got' = Append(got, Stanza.k),
         ~ c'.isnegotiationdone /\ server.bound =>
           ~ Numbered(Stanza) /\ ~ (Stanza.name = "iq" /\ Stanza.child = "bind")
  PROVE  Parsing'
<1> DEFINE n == FirstEnd(Left)
<1>1. /\ HasEnd(Rest) /\ Stanza = Left[n].el /\ HasEnd(Left) /\ n = FirstEnd(Rest)
      /\ n \in 1..Len(Rest) /\ Len(Rest) <= Len(Left) /\ Rest \in Seq(Part)
  BY StanzaIs, RestFirst
<1>2. /\ Whole \in Seq(Part) /\ c.i \in 0..Len(Whole) /\ Left = Drop(Whole, c.i) /\ Left \in Seq(Part)
  BY WholeIs
<1>3. n \in 1..Len(Left) /\ n \in 0..Len(Left) /\ Left[n].last /\ \A h \in 1..(n - 1) : ~ Left[h].last
  BY <1>1, <1>2, FirstEndIs
<1>4. Whole' = Left /\ c'.i = n
  BY <1>1 DEF Whole, Left, After
<1>5. Left' = Drop(Left, n)
  <2>1. Left' = Drop(Whole', c'.i)
    <3>1. c'.in \in Seq(Part) /\ c'.i \in 0..Len(c'.in) /\ toClient' \in Seq(Part)
      BY DEF Typed, ClientOK
    <3>2. Left' = Drop(c'.in, c'.i) \o toClient'
      BY DEF Left, Rest
    <3>3. Drop(c'.in \o toClient', c'.i) = Drop(c'.in, c'.i) \o toClient'
      BY <3>1, DropConcat, Zenon
    <3> QED
      BY <3>2, <3>3 DEF Whole
  <2> QED
    BY <1>4, <2>1
<1> HIDE DEF n
<1>6. Framed'
  <2>1. Finishes(Left)
    BY <1>2, FinishesDropped DEF Framed, Parsing
  <2>2. Begins(Left) /\ Fitting(Left, server.large)
    BY <1>2, BeginsDropped DEF Framed, Parsing
  <2> QED
    BY <1>3, <1>4, <2>1, <2>2 DEF Framed, Steady
<1>7. Expects'
  <2> SUFFICES ASSUME server.bound, ~ c'.isnegotiationdone PROVE BindFirst(Left')
    BY DEF Expects, Steady
  <2>1. BindFirst(Left)
    BY DEF Expects, Parsing, Steady, Typed, ClientOK, Flags
  <2>2. PICK h \in DOMAIN Left : BindEnd(Left[h]) /\ \A j \in 1..(h - 1) : j \notin Under(Left)
    BY <2>1 DEF BindFirst
  <2>3. h \in 1..Len(Left) /\ h # n /\ ~ (h \in 1..(n - 1))
    BY <1>1, <1>2, <1>3, <2>2 DEF BindEnd
  <2>4. h > n
    BY <1>3, <2>3
  <2> DEFINE d == Drop(Left, n)
  <2>5. /\ d \in Seq(Part) /\ Len(d) = Len(Left) - n
        /\ \A j \in 1..(Len(Left) - n) : d[j] = Left[j + n]
    <3>1. n \in 0..Len(Left) /\ Left \in Seq(Part)
      BY <1>2, <1>3, Zenon
    <3> QED
      BY <3>1, DropIs
  <2>6. \A j \in Under(d) : j + n \in Under(Left) /\ j > 0
    BY <1>2, <1>3, UnderDropped, Zenon
  <2> HIDE DEF d
  <2>7. h - n \in DOMAIN d /\ d[h - n] = Left[h]
    <3>1. h - n \in 1..(Len(Left) - n) /\ (h - n) + n = h
      BY <1>3, <2>3, <2>4
    <3> QED
      BY <2>5, <3>1
  <2>8. ASSUME NEW j \in 1..((h - n) - 1) PROVE j \notin Under(d)
    <3>1. j + n \in 1..(h - 1)
      BY <1>3, <2>3, <2>4
    <3> QED
      BY <2>2, <2>6, <3>1
  <2> QED
    BY <1>5, <2>2, <2>7, <2>8 DEF BindFirst, d
<1>8. Skipping'
  BY DEF Skipping
<1>9. Delivered'
  <2>1. Delivery(Left, got, server)
    BY DEF Delivered, Parsing, ReadsStanza, Reads, Iterates
  <2>2. CASE Numbered(Stanza) /\ got' = Append(got, Stanza.k)
    <3>1. got \in Seq(Nat)
      BY DEF Typed
    <3>2. Delivery(Drop(Left, n), Append(got, Left[n].el.k), server)
      BY <1>1, <1>2, <2>1, <2>2, <3>1, DeliveryHanded DEF n
    <3>3. Delivery(Left', got', server)
      BY <1>1, <1>5, <2>2, <3>2
    <3> QED
      BY <3>3, SteadyDelivery DEF Delivered, Steady
  <2>3. CASE ~ Numbered(Stanza) /\ got' = got
    <3>1. ASSUME NEW j \in Under(Left), j <= n PROVE Left[j].el.k \in server.large
      <4>1. j \in 1..Len(Left) /\ Left[j].last /\ Numbered(Left[j].el)
        BY <1>2 DEF Under
      <4>2. j = n
        BY <1>3, <3>1, <4>1
      <4> QED
        BY <1>1, <2>3, <4>1, <4>2
    <3>2. Delivery(Drop(Left, n), got, server)
      BY <1>2, <1>3, <2>1, <3>1, DeliveryDropped
    <3> QED
      BY <1>5, <2>3, <3>2, SteadyDelivery DEF Delivered, Steady
  <2> QED
    BY <2>2, <2>3
<1> QED
  BY <1>6, <1>7, <1>8, <1>9 DEF Parsing

(* It takes what is left of a stanza that it skips, or fails after it.     *)
LEMMA ParsingSkips ==
  ASSUME Typed, Typed', Parsing, Steady, ret = "OK", got' = got, toClient' = toClient,
         c.skippingdepth > 0,
         \/ SkipFails \/ SkipEnds \/ SkipGoesOn
  PROVE  Parsing'
<1>1. /\ Whole \in Seq(Part) /\ c.i \in 0..Len(Whole) /\ Left = Drop(Whole, c.i) /\ Left \in Seq(Part)
  BY WholeIs
<1>2. /\ Rest \in Seq(Part) /\ Len(Rest) <= Len(Left) /\ Len(Rest) = Len(c.in) - c.i
      /\ \A j \in 1..Len(Rest) : Left[j] = Rest[j]
      /\ Drop(Left, Len(Rest)) = toClient
  BY RestFirst
<1>3. /\ c.in \in Seq(Part) /\ c.i \in 0..Len(c.in) /\ c.skippingdepth \in Nat /\ DOMAIN c = Fields
      /\ toClient \in Seq(Part)
  BY DEF Typed, ClientOK, Counters
<1>4. Delivery(Left, got, server) /\ Finishes(Whole) /\ Finishes(Left)
  BY <1>1, FinishesDropped DEF Parsing, Delivered, Framed
<1>5. CASE SkipFails
  <2>1. Alike(c, c', {"i"}) /\ ret' = "EXML" /\ c.rootclosed
    BY <1>3, <1>5, OtherRows DEF SkipFails
  <2>2. c'.in = c.in /\ c'.skippingdepth = c.skippingdepth /\ c'.rootclosed = c.rootclosed
    BY <2>1, Zenon DEF Alike, Fields
  <2>3. Whole' = Whole
    BY <2>2 DEF Whole
  <2> QED
    BY <1>3, <1>4, <2>1, <2>2, <2>3 DEF Parsing, Framed, Expects, Skipping, Delivered
<1>6. CASE SkipEnds
  <2> DEFINE n == FirstEnd(Rest)
  <2>1. /\ Alike(c, c', {"i", "skippingdepth", "rootclosed"})
        /\ c'.i = c.i + n /\ c'.skippingdepth = 1 /\ c'.rootclosed = TRUE
        /\ HasEnd(Rest) /\ ~ c.rootclosed
    BY <1>3, <1>6, OtherRows DEF SkipEnds
  <2>2. /\ HasEnd(Left) /\ FirstEnd(Left) = n /\ n \in 1..Len(Rest)
    BY <2>1, RestFirst
  <2>3. c'.in = c.in
    BY <2>1 DEF Alike, Fields
  <2>4. Whole' = Whole
    BY <2>3 DEF Whole
  <2>5. n \in 1..Len(Left) /\ Left[n].last /\ \A h \in 1..(n - 1) : ~ Left[h].last
    BY <1>1, <2>2, FirstEndIs
  <2>6. SkipsLarge(Left, server.large)
    BY <2>1 DEF Parsing, Skipping
  <2> HIDE DEF n
  <2>7. ASSUME NEW j \in Under(Left), j <= n PROVE Left[j].el.k \in server.large
    <3>1. j \in 1..Len(Left) /\ Left[j].last /\ Numbered(Left[j].el)
      BY <1>1 DEF Under
    <3>2. j = n
      BY <2>5, <2>7, <3>1
    <3> QED
      BY <2>2, <2>6, <3>1, <3>2 DEF SkipsLarge
  <2>8. n \in 0..Len(Left)
    BY <2>5
  <2>9. Delivery(Drop(Left, n), got, server)
    BY <1>1, <1>4, <2>7, <2>8, DeliveryDropped
  <2>10. Left' = Drop(Left, n)
    <3>1. c'.i \in c.i..Len(Whole) /\ c'.i - c.i = n
      <4>1. Len(Left) = Len(Whole) - c.i
        BY <1>1, DropIs
      <4> QED
        BY <1>1, <2>1, <2>5, <4>1
    <3>2. Drop(Whole, c'.i) = Drop(Left, n)
      BY <1>1, <3>1, DropAgain
    <3>3. Left' = Drop(Whole', c'.i)
      <4>1. c'.in \in Seq(Part) /\ c'.i \in 0..Len(c'.in) /\ toClient' \in Seq(Part)
        BY DEF Typed, ClientOK
      <4>2. Left' = Drop(c'.in, c'.i) \o toClient'
        BY DEF Left, Rest
      <4>3. Drop(c'.in \o toClient', c'.i) = Drop(c'.in, c'.i) \o toClient'
        BY <4>1, DropConcat, Zenon
      <4> QED
        BY <4>2, <4>3 DEF Whole
    <3> QED
      BY <2>4, <3>2, <3>3
  <2>11. Delivery(Left', got', server')
    BY <2>9, <2>10, SteadyDelivery DEF Steady
  <2> QED
    BY <1>4, <2>1, <2>4, <2>11 DEF Parsing, Framed, Expects, Skipping, Delivered
<1>7. CASE SkipGoesOn
  <2> DEFINE n == Len(Rest)
             S == {j \in DOMAIN Rest : Rest[j].first}
  <2>1. /\ Alike(c, c', {"in", "i", "skippingdepth"}) /\ c'.in = <<>> /\ c'.i = 0
        /\ c'.skippingdepth = c.skippingdepth + Cardinality(S)
        /\ IF c.rootclosed THEN Rest = <<>> ELSE ~ HasEnd(Rest)
    <3>1. IF c.rootclosed THEN Rest = <<>> ELSE ~ HasEnd(Rest)
      BY <1>7 DEF SkipGoesOn, Unskipped, Rest
    <3> QED
      BY <1>3, <1>7, <3>1, OtherRows
  <2>2. c'.skippingdepth > 0
    <3>1. IsFiniteSet(S)
      <4>1. S \subseteq 1..Len(Rest) /\ IsFiniteSet(1..Len(Rest))
        BY <1>2, FS_Interval
      <4> QED
        BY <4>1, FS_Subset
    <3>2. Cardinality(S) \in Nat
      BY <3>1, FS_CardinalityType
    <3> QED
      BY <1>3, <2>1, <3>2
  <2>3. c'.rootclosed = c.rootclosed
    BY <2>1 DEF Alike, Fields
  <2>4. n \in Nat /\ n <= Len(Left) /\ n \in 0..Len(Left) /\ \A j \in 1..n : ~ Left[j].last
    <3>1. ~ HasEnd(Rest)
      <4>1. CASE Rest = <<>>
        BY <4>1 DEF HasEnd
      <4> QED
        BY <2>1, <4>1
    <3>2. \A j \in 1..Len(Rest) : ~ Rest[j].last
      BY <1>2, <3>1 DEF HasEnd
    <3>3. Len(Rest) \in Nat
      BY <1>2
    <3> QED
      BY <1>2, <3>2, <3>3
  <2>5. Whole' = toClient /\ Left' = toClient
    <3>1. <<>> \o toClient = toClient
      BY <1>3
    <3>2. Drop(<<>>, 0) = <<>>
      BY DEF Drop
    <3> QED
      BY <2>1, <3>1, <3>2, Zenon DEF Whole, Left, Rest
  <2>6. Left' = Drop(Left, n)
    BY <1>2, <2>5
  <2> HIDE DEF n, S
  <2>7. Finishes(Whole')
    BY <1>1, <1>4, <2>4, <2>5, <2>6, FinishesDropped
  <2>8. ASSUME NEW j \in Under(Left), j <= n PROVE Left[j].el.k \in server.large
    <3>1. j \in 1..n /\ Left[j].last
      BY <1>1, <2>4, <2>8 DEF Under
    <3> QED
      BY <2>4, <3>1
  <2>9. Delivery(Left', got', server')
    <3>1. Delivery(Drop(Left, n), got, server)
      BY <1>1, <1>4, <2>4, <2>8, DeliveryDropped
    <3> QED
      BY <2>6, <3>1, SteadyDelivery DEF Steady
  <2>10. c'.rootclosed \/ SkipsLarge(Left', server.large)
    <3> SUFFICES ASSUME ~ c.rootclosed PROVE SkipsLarge(Drop(Left, n), server.large)
      BY <2>3, <2>6
    <3>1. SkipsLarge(Left, server.large)
      BY DEF Parsing, Skipping
    <3> DEFINE m == FirstEnd(Left)
               d == Drop(Left, n)
    <3>2. m \in 1..Len(Left) /\ Left[m].last /\ \A h \in 1..(m - 1) : ~ Left[h].last
      BY <1>1, <3>1, FirstEndIs DEF SkipsLarge
    <3>3. /\ d \in Seq(Part) /\ Len(d) = Len(Left) - n
          /\ \A j \in 1..(Len(Left) - n) : d[j] = Left[j + n]
      BY <1>1, <2>4, DropIs, Zenon
    <3> HIDE DEF m, d
    <3>4. m > n
      BY <2>4, <3>2
    <3>5. m - n \in 1..Len(d) /\ d[m - n] = Left[m]
      <4>1. m - n \in 1..(Len(Left) - n) /\ (m - n) + n = m
        BY <2>4, <3>2, <3>4
      <4> QED
        BY <3>3, <4>1
    <3>6. ASSUME NEW h \in 1..((m - n) - 1) PROVE ~ d[h].last
      <4>1. h \in 1..(Len(Left) - n) /\ h + n \in 1..(m - 1)
        BY <2>4, <3>2, <3>4
      <4> QED
        BY <3>2, <3>3, <4>1
    <3>7. HasEnd(d) /\ FirstEnd(d) = m - n
      BY <3>2, <3>3, <3>5, <3>6, FirstEndUnique, Zenon
    <3> QED
      BY <3>1, <3>5, <3>7 DEF SkipsLarge, d, m
  <2> QED
    BY <2>2, <2>7, <2>9, <2>10 DEF Parsing, Framed, Expects, Skipping, Delivered, Steady
<1> QED
  BY <1>5, <1>6, <1>7

(* A stanza fills the buffer and is skipped.                               *)
LEMMA ParsingEnters ==
  ASSUME Typed, Typed', Parsing, Steady, ret = "OK", got' = got, toClient' = toClient,
         c.skippingdepth = 0, ~ HasEnd(Rest), Len(Rest) = InCap,
         c'.in = Rest, c'.i = 0, c'.skippingdepth = 1
  PROVE  Parsing'
<1>1. /\ Whole \in Seq(Part) /\ c.i \in 0..Len(Whole) /\ Left = Drop(Whole, c.i) /\ Left \in Seq(Part)
  BY WholeIs
<1>2. /\ Rest \in Seq(Part) /\ Len(Rest) <= Len(Left)
      /\ \A j \in 1..Len(Rest) : Left[j] = Rest[j]
  BY RestFirst
<1>3. Finishes(Left) /\ Fitting(Left, server.large)
  BY <1>1, FinishesDropped, BeginsDropped DEF Framed, Parsing
<1>4. Whole' = Left /\ Left' = Left
  <2>1. Left' = Left
    BY LeftSame
  <2> QED
    BY <2>1 DEF Whole, Left
<1>5. HasEnd(Left)
  <2>1. 1 \in DOMAIN Left
    BY <1>1, <1>2 DEF XmppAssumption
  <2> QED
    BY <1>3, <2>1 DEF Finishes, HasEnd
<1> DEFINE n == FirstEnd(Left)
<1>6. n \in 1..Len(Left) /\ Left[n].last
  BY <1>1, <1>5, FirstEndIs
<1>7. n > InCap
  <2>1. \A j \in 1..Len(Rest) : ~ Left[j].last
    BY <1>2 DEF HasEnd
  <2> HIDE DEF n
  <2>2. ~ (n \in 1..Len(Rest))
    BY <1>6, <2>1
  <2> QED
    BY <1>1, <1>6, <2>2 DEF XmppAssumption
<1>8. SkipsLarge(Left, server.large)
  <2>1. ASSUME Numbered(Left[n].el), Left[n].el.k \notin server.large PROVE FALSE
    <3>1. n <= InCap
      BY <1>1, <1>3, <1>5, <2>1, FirstFits
    <3> QED
      BY <1>6, <1>7, <3>1 DEF XmppAssumption
  <2> QED
    BY <1>5, <2>1 DEF SkipsLarge
<1>9. Delivery(Left', got', server')
  BY <1>4, SteadyDelivery DEF Parsing, Delivered, Steady
<1> QED
  BY <1>3, <1>4, <1>8, <1>9 DEF Parsing, Framed, Expects, Skipping, Delivered, Steady

(* What WholeIs says, for the next state.                                  *)
Fore ==
  /\ Whole \in Seq(Part) /\ c.i \in 0..Len(Whole) /\ Elements(Whole) = Coming
  /\ Left = Drop(Whole, c.i) /\ Left \in Seq(Part)

LEMMA WholeNext == Typed' => Fore'
<1>1. Typed => Fore
  BY WholeIs DEF Fore
<1> QED
  BY <1>1, PTL

(* Before the resource is bound, nothing numbered is under way.            *)
LEMMA UnderArrived ==
  ASSUME Typed, Arrives
  PROVE  /\ \A j \in Under(Whole) : MayArrive(Whole[j].el) /\ Numbered(Whole[j].el)
         /\ \A j \in Under(Left) : MayArrive(Left[j].el) /\ Numbered(Left[j].el)
         /\ ~ server.bound => Under(Whole) = {} /\ Under(Left) = {}
<1>1. /\ Whole \in Seq(Part) /\ c.i \in 0..Len(Whole) /\ Elements(Whole) = Coming
      /\ Left = Drop(Whole, c.i) /\ Left \in Seq(Part)
  BY WholeIs
<1>2. Elements(Left) \subseteq Coming
  BY <1>1, ElementsAre
<1>3. ASSUME NEW s \in {Whole, Left}, NEW j \in Under(s)
      PROVE  MayArrive(s[j].el) /\ Numbered(s[j].el)
  <2>1. s[j].el \in Elements(s) /\ Numbered(s[j].el)
    BY DEF Under, Elements
  <2>2. s[j].el \in Coming
    BY <1>1, <1>2, <2>1
  <2> QED
    BY <2>1, <2>2 DEF Arrives
<1>4. ~ server.bound => Under(Whole) = {} /\ Under(Left) = {}
  BY <1>3 DEF MayArrive
<1> QED
  BY <1>3, <1>4

(* A stream is opened again, with what was read left in the buffer.        *)
LEMMA ParsingRereads ==
  ASSUME Typed, Typed', Parsing, Steady, Arrives, ret = "OK", got' = got, toClient' = toClient,
         ~ server.bound, c.skippingdepth = 0, c'.skippingdepth = 0, c'.in = c.in, c'.i = 0
  PROVE  Parsing'
<1>1. Whole' = Whole
  BY DEF Whole
<1>2. Left' = Drop(Whole, 0) /\ Whole \in Seq(Part)
  BY <1>1, WholeNext, WholeIs DEF Fore
<1>3. Under(Left) = {} /\ Under(Whole) = {}
  BY UnderArrived
<1>4. Under(Left') = {}
  <2>1. 0 \in 0..Len(Whole)
    BY <1>2
  <2>2. \A j \in Under(Drop(Whole, 0)) : j + 0 \in Under(Whole)
    BY <1>2, <2>1, UnderDropped, Zenon
  <2> QED
    BY <1>2, <1>3, <2>2
<1>5. Delivery(Left', got', server')
  <2>1. Delivery(Left, got, server)
    BY DEF Parsing, Delivered
  <2>2. Delivery(Left', got, server)
    BY <1>3, <1>4, <2>1, DeliveryIdle
  <2> QED
    BY <2>2, SteadyDelivery DEF Steady
<1> QED
  BY <1>1, <1>5 DEF Parsing, Framed, Expects, Skipping, Delivered, Steady

(* The connection is lost and made anew.                                   *)
LEMMA ParsingLost ==
  ASSUME Typed, Typed', Parsing, Arrives, Awake, "EXML" \notin Survives, xmppResume
  PROVE  Parsing'
<1>1. DOMAIN c = Fields /\ c.skippingdepth \in Nat /\ toClient \in Seq(Part) /\ got \in Seq(Nat)
  BY DEF Typed, ClientOK, Counters
<1>2. /\ Alike(c, c', {"state", "features", "out"}) /\ toClient' = <<>> /\ got' = got
      /\ c.in = <<>> /\ ret = "READY"
      /\ server' = [server EXCEPT !.tls = FALSE, !.auth = FALSE, !.offered = {},
                     !.bound = FALSE, !.sm = FALSE,
                     !.lost = @ \cup {e.k : e \in {f \in Elements(toClient) : Numbered(f)}}]
  BY <1>1, OwnRows, Zenon DEF xmppResume
<1>3. /\ server'.n = server.n /\ server'.large = server.large /\ server'.bound = FALSE
      /\ server'.lost = server.lost \cup {e.k : e \in {f \in Elements(toClient) : Numbered(f)}}
  <2>1. DOMAIN server = ServerFlags \cup ServerCounters \cup {"offered", "large", "lost"}
    BY DEF Typed, ServerOK
  <2> QED
    BY <1>2, <2>1 DEF ServerFlags, ServerCounters
<1>4. /\ c'.in = <<>> /\ c'.i = c.i /\ c'.skippingdepth = c.skippingdepth
      /\ c'.rootclosed = c.rootclosed
  BY <1>2 DEF Alike, Fields
<1>5. c.skippingdepth = 0
  BY <1>1, <1>2 DEF Awake
<1>6. c.i = 0
  <2>1. c.i \in 0..Len(c.in) /\ c.in = <<>>
    BY <1>2 DEF Typed, ClientOK
  <2> QED
    BY <2>1
<1>7. Whole = toClient /\ Left = toClient /\ Whole' = <<>> /\ Left' = <<>>
  <2>1. <<>> \o toClient = toClient
    BY <1>1
  <2>2. Drop(<<>>, 0) = <<>> /\ <<>> \o <<>> = <<>>
    BY DEF Drop
  <2>3. Whole = toClient /\ Left = toClient
    BY <1>2, <1>6, <2>1, <2>2, Zenon DEF Whole, Left, Rest
  <2>4. Whole' = <<>> /\ Left' = <<>>
    BY <1>2, <1>4, <1>6, <2>2 DEF Whole, Left, Rest
  <2> QED
    BY <2>3, <2>4
<1>8. Framed'
  <2>1. Under(<<>>) = {}
    BY DEF Under
  <2> QED
    BY <1>4, <1>6, <1>7, <2>1 DEF Framed, Finishes, Begins, Fitting
<1>9. Delivery(Left', got', server')
  <2>1. Delivery(toClient, got, server) /\ Finishes(toClient)
    BY <1>2, <1>7 DEF Parsing, Delivered, Framed
  <2>2. Delivery(<<>>, got, server')
    BY <1>1, <1>3, <2>1, DeliveryLost, Zenon
  <2> QED
    BY <1>2, <1>7, <2>2
<1> QED
  BY <1>3, <1>4, <1>5, <1>8, <1>9 DEF Parsing, Expects, Skipping, Delivered

-----------------------------------------------------------------------------
(* What the server sends: nothing numbered, the result of a binding, or    *)
(* the next stanza, which is large if it does not fit the buffer.          *)

SameBooks(s) ==
  s.n = server.n /\ s.large = server.large /\ s.lost = server.lost /\ s.bound = server.bound

(* An element that is not to be delivered.                                 *)
Others(e) == SameBooks(server') /\ ~ Numbered(e) /\ (e.k > 0 => e.name = "a")

(* The result of the binding the client asked for.                         *)
Binding(e) ==
  /\ server'.n = server.n /\ server'.large = server.large /\ server'.lost = server.lost
  /\ server'.bound /\ e.name = "iq" /\ e.child = "bind" /\ e.k = 0
  /\ \E r \in Going : r.name = "bind"

(* The next stanza.                                                        *)
Numbers(e, m) ==
  /\ Numbered(e) /\ e.child # "bind" /\ e.k = server.n + 1 /\ server'.n = server.n + 1
  /\ server.bound /\ server'.bound = server.bound /\ server'.lost = server.lost
  /\ server.large \subseteq server'.large /\ server'.large \subseteq server.large \cup {server.n + 1}
  /\ m > InCap => server.n + 1 \in server'.large

(* The server sends an element of m parts.                                 *)
Supplies(e, m) ==
  /\ toClient' = toClient \o Parts(e, m) /\ e.name \in ServerNames
  /\ Others(e) \/ Binding(e) \/ Numbers(e, m)

(* What the server sends is closed, in order and large if it has to be.    *)
LEMMA ParsingAdds ==
  ASSUME Typed, Typed', Parsing, Arrives, c' = c, ret' = ret, got' = got,
         NEW e \in Element, NEW m \in Nat \ {0}, Supplies(e, m)
  PROVE  Parsing'
<1> DEFINE p == Parts(e, m)
<1>1. /\ Whole \in Seq(Part) /\ c.i \in 0..Len(Whole) /\ Left = Drop(Whole, c.i) /\ Left \in Seq(Part)
  BY WholeIs
<1>2. /\ c.in \in Seq(Part) /\ Rest \in Seq(Part) /\ toClient \in Seq(Part) /\ p \in Seq(Part)
      /\ server.n \in Nat /\ got \in Seq(Nat) /\ m \in Nat
  BY RestIs, PartsIs, Zenon DEF Typed, ClientOK, ServerOK, ServerCounters
<1>3. toClient' = toClient \o p
  BY DEF Supplies
<1> HIDE DEF p
<1>4. Whole' = Whole \o p /\ Left' = Left \o p
  <2>1. Rest' = Rest
    BY DEF Rest
  <2>2. (c.in \o toClient) \o p = c.in \o (toClient \o p)
    BY <1>2, Associates, ZenonT(60)
  <2>3. (Rest \o toClient) \o p = Rest \o (toClient \o p)
    BY <1>2, Associates, ZenonT(60)
  <2>4. Whole' = c.in \o (toClient \o p) /\ Left' = Rest \o (toClient \o p)
    BY <1>3, <2>1 DEF Whole, Left
  <2> QED
    BY <2>2, <2>3, <2>4 DEF Whole, Left
<1>5. Longer(Left \o p, Left, e, m)
  BY <1>1, PartsBehind DEF p
<1>6. /\ Left \o p \in Seq(Part) /\ Len(Left \o p) = Len(Left) + m
      /\ \A j \in 1..Len(Left) : (Left \o p)[j] = Left[j]
      /\ (Left \o p)[Len(Left) + m].el = e /\ (Left \o p)[Len(Left) + m].last
  <2>1. m \in 1..m
    OBVIOUS
  <2> QED
    BY <1>5, <2>1, Zenon DEF Longer
<1>7. server.large \subseteq server'.large
  BY DEF Supplies, Others, Binding, Numbers, SameBooks
<1>8. Framed'
  <2>1. Finishes(Whole')
    BY <1>1, <1>4, FinishesAppended DEF Parsing, Framed, p
  <2>2. ASSUME c.skippingdepth = 0
        PROVE  Begins(Whole') /\ Fitting(Whole', server'.large) /\ (c.i = 0 \/ Whole'[c.i].last)
    <3>1. Begins(Whole) /\ Fitting(Whole, server.large) /\ Finishes(Whole)
      BY <2>2 DEF Parsing, Framed
    <3>2. Numbered(e) /\ m > InCap => e.k \in server'.large
      BY DEF Supplies, Others, Binding, Numbers, Numbered
    <3>3. Begins(Whole \o p) /\ Fitting(Whole \o p, server'.large)
      BY <1>1, <1>7, <3>1, <3>2, BeginsAppended, Zenon DEF p
    <3>4. c.i # 0 => (Whole \o p)[c.i] = Whole[c.i]
      BY <1>1, <1>2
    <3> QED
      BY <1>4, <2>2, <3>3, <3>4, Zenon DEF Parsing, Framed
  <2> QED
    BY <2>1, <2>2 DEF Framed
<1>9. /\ \A j \in Under(Left) : (Left \o p)[j] = Left[j]
      /\ Under(Left \o p) = Under(Left) \cup (IF Numbered(e) THEN {Len(Left) + m} ELSE {})
  <2>1. Left \in Seq(Part)
    BY <1>1
  <2>2. Joined(Left \o Parts(e, m), Left, e, m)
    BY <2>1, UnderAppended
  <2> QED
    BY <2>2, Zenon DEF Joined, p
<1>10. Expects'
  <2> SUFFICES ASSUME c.skippingdepth = 0, server'.bound, ~ c.isnegotiationdone
               PROVE  BindFirst(Left \o p)
    BY <1>4 DEF Expects
  <2>1. CASE server.bound
    <3>1. PICK h \in DOMAIN Left : BindEnd(Left[h]) /\ \A j \in 1..(h - 1) : j \notin Under(Left)
      BY <2>1 DEF Parsing, Expects, BindFirst
    <3>2. h \in DOMAIN (Left \o p) /\ (Left \o p)[h] = Left[h]
      <4>1. h \in 1..Len(Left) /\ Len(Left) \in Nat
        BY <1>1
      <4>2. h \in 1..(Len(Left) + m)
        BY <4>1
      <4> QED
        BY <1>6, <4>1, <4>2
    <3>3. ASSUME NEW j \in 1..(h - 1) PROVE j \notin Under(Left \o p)
      <4>1. j # Len(Left) + m
        BY <1>1, <1>2
      <4> QED
        BY <1>9, <3>1, <4>1
    <3> QED
      BY <3>1, <3>2, <3>3 DEF BindFirst
  <2>2. CASE ~ server.bound
    <3>1. Binding(e)
      BY <2>2, Zenon DEF Supplies, Others, Numbers, SameBooks
    <3>2. Under(Left) = {} /\ ~ Numbered(e)
      BY <2>2, <3>1, UnderArrived DEF Binding, Numbered
    <3>3. Under(Left \o p) = {}
      BY <1>9, <3>2
    <3>4. Len(Left) + m \in DOMAIN (Left \o p)
      BY <1>1, <1>2, <1>6
    <3>5. BindEnd((Left \o p)[Len(Left) + m])
      BY <1>6, <3>1 DEF BindEnd, Binding
    <3> QED
      BY <3>3, <3>4, <3>5 DEF BindFirst
  <2> QED
    BY <2>1, <2>2
<1>11. Skipping'
  <2> SUFFICES ASSUME c.skippingdepth > 0, ~ c.rootclosed PROVE SkipsLarge(Left \o p, server'.large)
    BY <1>4 DEF Skipping
  <2>1. SkipsLarge(Left, server.large)
    BY DEF Parsing, Skipping
  <2> DEFINE n == FirstEnd(Left)
  <2>2. n \in 1..Len(Left) /\ Left[n].last /\ \A h \in 1..(n - 1) : ~ Left[h].last
    BY <1>1, <2>1, FirstEndIs DEF SkipsLarge
  <2> HIDE DEF n
  <2>3. /\ n \in 1..Len(Left \o p) /\ (Left \o p)[n] = Left[n]
        /\ \A h \in 1..(n - 1) : (Left \o p)[h] = Left[h]
    BY <1>2, <1>6, <2>2
  <2>4. HasEnd(Left \o p) /\ FirstEnd(Left \o p) = n
    BY <1>6, <2>2, <2>3, FirstEndUnique, Zenon
  <2> QED
    BY <1>7, <2>1, <2>3, <2>4 DEF SkipsLarge, n
<1>12. Delivered'
  <2> SUFFICES ASSUME ret \notin {"EXML", "EXIT"} PROVE Delivery(Left \o p, got, server')
    BY <1>4 DEF Delivered
  <2>1. Delivery(Left, got, server)
    BY DEF Parsing, Delivered
  <2>2. server.large \subseteq 1..server.n /\ server.lost \subseteq 1..server.n
    BY DEF Arrives
  <2>3. /\ server'.lost = server.lost
        /\ \/ ~ Numbered(e) /\ server'.n = server.n /\ server'.large = server.large
           \/ /\ Numbered(e) /\ e.k = server.n + 1 /\ server'.n = server.n + 1
              /\ server.large \subseteq server'.large
              /\ server'.large \subseteq server.large \cup {server.n + 1}
    BY DEF Supplies, Others, Binding, Numbers, SameBooks, Numbered
  <2> QED
    BY <1>1, <1>2, <2>1, <2>2, <2>3, DeliveryAppended, Zenon DEF p
<1> QED
  BY <1>8, <1>10, <1>11, <1>12 DEF Parsing

(* A step of the server: it sends at most one element.                     *)
Gives ==
  /\ got' = got
  /\ \/ toClient' = toClient /\ SameBooks(server')
     \/ \E e \in Element : \E m \in Nat \ {0} : Supplies(e, m)

(* Which of the server's records stay.                                     *)
LEMMA BooksAre ==
  ASSUME ServerOK(server)
  PROVE  /\ SameBooks(server) /\ SameBooks(Handling(server))
         /\ \A f \in {"tls", "auth", "offered", "sm", "asked", "closed"} : \A x :
              SameBooks([server EXCEPT ![f] = x])
         /\ \A s \in {server, Handling(server)} :
              LET t == Counting(s)
              IN  /\ t.n = server.n + 1 /\ t.large = server.large /\ t.lost = server.lost
                  /\ t.bound = server.bound
                  /\ DOMAIN t = DOMAIN server
<1>1. DOMAIN server = ServerFlags \cup ServerCounters \cup {"offered", "large", "lost"}
  BY DEF ServerOK
<1>2. SameBooks(server)
  BY DEF SameBooks
<1>3. SameBooks(Handling(server)) /\ DOMAIN Handling(server) = DOMAIN server
  BY <1>1 DEF SameBooks, Handling, ServerFlags, ServerCounters
<1>4. \A f \in {"tls", "auth", "offered", "sm", "asked", "closed"} : \A x :
        SameBooks([server EXCEPT ![f] = x])
  BY <1>1 DEF SameBooks, ServerFlags, ServerCounters
<1>5. ASSUME NEW s, SameBooks(s), DOMAIN s = DOMAIN server
      PROVE  /\ Counting(s).n = server.n + 1 /\ Counting(s).large = server.large
             /\ Counting(s).lost = server.lost /\ Counting(s).bound = server.bound
             /\ DOMAIN Counting(s) = DOMAIN server
  BY <1>1, <1>5 DEF SameBooks, Counting, ServerFlags, ServerCounters
<1>6. \A s \in {server, Handling(server)} : SameBooks(s) /\ DOMAIN s = DOMAIN server
  BY <1>2, <1>3
<1> QED
  BY <1>2, <1>3, <1>4, <1>5, <1>6

(* An answer or a push that is nothing to be delivered.                    *)
LEMMA AnswerGives ==
  ASSUME NEW s, NEW e \in Element,
         Answer(s, e) \/ \E n \in Nat \ {0} : Push(s, e, n),
         SameBooks(s), e.name \in ServerNames, ~ Numbered(e), e.k > 0 => e.name = "a"
  PROVE  Gives
<1>1. got' = got /\ server' = s
  BY DEF Answer, Push
<1>2. \E m \in Nat \ {0} : toClient' = toClient \o Parts(e, m)
  <2>1. CASE Answer(s, e)
    <3>1. PICK m \in Sizes : toClient' = toClient \o Parts(e, m)
      BY <2>1, Zenon DEF Answer
    <3>2. m \in Nat \ {0}
      BY DEF XmppAssumption
    <3> QED
      BY <3>1, <3>2
  <2>2. CASE \E n \in Nat \ {0} : Push(s, e, n)
    BY <2>2, Zenon DEF Push
  <2> QED
    BY <2>1, <2>2
<1>3. Others(e)
  BY <1>1 DEF Others, SameBooks
<1> QED
  BY <1>1, <1>2, <1>3 DEF Gives, Supplies

LEMMA PlainGives ==
  ASSUME Typed, NEW name \in ServerNames, NEW s, SameBooks(s),
         NEW F \in SUBSET (Sasl \cup {"STARTTLS", "BIND", "SMACKS"}), NEW ok \in BOOLEAN,
         NEW e \in {E(name), [E(name) EXCEPT !.features = F], [E(name) EXCEPT !.ok = ok]},
         Answer(s, e) \/ \E n \in Nat \ {0} : Push(s, e, n)
  PROVE  Gives
<1>1. name \in Names
  BY DEF Names, ServerNames
<1>2. e \in Element
  <2>1. E(name) \in Element
    BY <1>1, ElementIs
  <2>2. [E(name) EXCEPT !.features = F] \in Element /\ [E(name) EXCEPT !.ok = ok] \in Element
    BY <2>1, ElementWith, Zenon
  <2> QED
    BY <2>1, <2>2, Zenon
<1>3. e.name = name /\ e.k = 0
  BY DEF E
<1> QED
  BY <1>2, <1>3, AnswerGives DEF Numbered

(* The next stanza of the server.                                          *)
LEMMA StanzaGives ==
  ASSUME Typed, server.bound, NEW s, NEW e \in Element, NEW m \in Nat \ {0},
         got' = got, server' = s, toClient' = toClient \o Parts(e, m),
         e.name \in {"iq", "message"}, e.child # "bind", e.k = server.n + 1,
         s.n = server.n + 1, s.lost = server.lost, s.bound = server.bound,
         s.large = IF m > InCap THEN server.large \cup {server.n + 1} ELSE server.large
  PROVE  Gives
<1>1. server.n \in Nat
  BY DEF Typed, ServerOK, ServerCounters
<1>2. Numbers(e, m)
  BY <1>1 DEF Numbers, Numbered
<1>3. e.name \in ServerNames
  BY DEF ServerNames
<1> QED
  BY <1>2, <1>3, Zenon DEF Gives, Supplies

(* Every step of the server is of this kind.                               *)
LEMMA ServerGives ==
  ASSUME Typed, Answers \/ PushesMessage \/ AsksAck \/ ClosesStream
  PROVE  Gives
<1>1. ServerOK(server) /\ server.n + 1 \in Nat /\ server.handled \in Nat
  BY DEF Typed, ServerOK, ServerCounters
<1>2. /\ SameBooks(server) /\ SameBooks(Handling(server))
      /\ \A f \in {"tls", "auth", "offered", "sm", "asked", "closed"} : \A x :
           SameBooks([server EXCEPT ![f] = x])
  BY <1>1, BooksAre, Zenon
<1>3. /\ TRUE \in BOOLEAN /\ {} \in SUBSET (Sasl \cup {"STARTTLS", "BIND", "SMACKS"})
      /\ 1 \in Nat \ {0}
  OBVIOUS
<1>4. ASSUME NEW s, NEW name \in ServerNames, SameBooks(s),
             Answer(s, E(name)) \/ Push(s, E(name), 1)
      PROVE  Gives
  BY <1>3, <1>4, PlainGives, Zenon
<1>5. ASSUME NEW s, SameBooks(s), Ignore(s) PROVE Gives
  <2>1. got' = got /\ toClient' = toClient /\ server' = s
    BY <1>5 DEF Ignore
  <2> QED
    BY <1>5, <2>1 DEF Gives, SameBooks
<1>6. CASE OffersStream
  <2>1. "stream" \in ServerNames /\ "streamerror" \in ServerNames
    BY DEF ServerNames
  <2>2. ASSUME NEW F \in Offers,
               Answer(server, [E("stream") EXCEPT
                                 !.features = IF server.tls THEN F \ {"STARTTLS"} ELSE F])
        PROVE  Gives
    <3> DEFINE G == IF server.tls THEN F \ {"STARTTLS"} ELSE F
    <3>1. G \in SUBSET (Sasl \cup {"STARTTLS", "BIND", "SMACKS"})
      BY DEF XmppAssumption
    <3>2. Answer(server, [E("stream") EXCEPT !.features = G])
      BY <2>2
    <3> HIDE DEF G
    <3> QED
      BY <1>2, <1>3, <2>1, <3>1, <3>2, PlainGives, Zenon
  <2>3. ASSUME NEW sm \in SUBSET {"SMACKS"},
               Answer([server EXCEPT !.offered = sm],
                      [E("stream") EXCEPT !.features = {"BIND"} \cup sm])
        PROVE  Gives
    <3> DEFINE G == {"BIND"} \cup sm
               s == [server EXCEPT !["offered"] = sm]
    <3>1. G \in SUBSET (Sasl \cup {"STARTTLS", "BIND", "SMACKS"}) /\ SameBooks(s)
      <4>1. SameBooks(s)
        BY <1>2
      <4> QED
        BY <4>1
    <3>2. Answer(s, [E("stream") EXCEPT !.features = G])
      BY <2>3
    <3> HIDE DEF G, s
    <3> QED
      BY <1>3, <2>1, <3>1, <3>2, PlainGives, Zenon
  <2>4. ASSUME Answer(server, E("streamerror")) PROVE Gives
    BY <1>2, <1>4, <2>1, <2>4
  <2>5. \/ \E F \in Offers :
             Answer(server, [E("stream") EXCEPT
                               !.features = IF server.tls THEN F \ {"STARTTLS"} ELSE F])
        \/ \E sm \in SUBSET {"SMACKS"} :
             Answer([server EXCEPT !.offered = sm],
                    [E("stream") EXCEPT !.features = {"BIND"} \cup sm])
        \/ Answer(server, E("streamerror"))
    <3>1. {{"SMACKS"}} \cup (IF May("nosm") THEN {{}} ELSE {}) \subseteq SUBSET {"SMACKS"}
      OBVIOUS
    <3> QED
      BY <1>6, <3>1, Zenon DEF OffersStream
  <2> QED
    BY <2>2, <2>3, <2>4, <2>5, Zenon
<1>7. CASE AnswersStartTls \/ ChecksPassword
  <2>1. \A name \in {"proceed", "failure", "success"} : name \in ServerNames
    BY DEF ServerNames
  <2>2. \E s \in {server, [server EXCEPT !["tls"] = TRUE], [server EXCEPT !["auth"] = TRUE]} :
          \E name \in {"proceed", "failure", "success"} : Answer(s, E(name))
    BY <1>7, Zenon DEF AnswersStartTls, ChecksPassword
  <2>3. \A s \in {server, [server EXCEPT !["tls"] = TRUE], [server EXCEPT !["auth"] = TRUE]} :
          SameBooks(s)
    BY <1>2
  <2> QED
    BY <1>4, <2>1, <2>2, <2>3, Zenon
<1>8. CASE AnswersAuth
  <2>1. "challenge" \in ServerNames /\ "failure" \in ServerNames
    BY DEF ServerNames
  <2>2. \/ \E ok \in BOOLEAN : Answer(server, [E("challenge") EXCEPT !.ok = ok])
        \/ Answer(server, E("failure"))
    BY <1>8, Zenon DEF AnswersAuth
  <2>3. ASSUME NEW ok \in BOOLEAN, Answer(server, [E("challenge") EXCEPT !.ok = ok]) PROVE Gives
    BY <1>2, <1>3, <2>1, <2>3, PlainGives, Zenon
  <2> QED
    BY <1>2, <1>4, <2>1, <2>2, <2>3, Zenon
<1>9. CASE AnswersBind
  <2> DEFINE e(child) == [E("iq") EXCEPT !.child = child]
             s == [server EXCEPT !["bound"] = TRUE]
  <2>1. \A child \in {"bind", "error"} :
          e(child) \in Element /\ e(child).name = "iq" /\ e(child).k = 0 /\ e(child).child = child
    <3> TAKE child \in {"bind", "error"}
    <3>1. E("iq") \in Element /\ child \in {"none", "bind", "error"}
      BY ElementIs DEF Names
    <3>2. e(child) \in Element
      BY <3>1, ElementWith, Zenon
    <3> QED
      BY <3>2 DEF E
  <2>2. Answer(s, e("bind")) \/ Answer(server, e("error"))
    BY <1>9, Zenon DEF AnswersBind
  <2>3. s.n = server.n /\ s.large = server.large /\ s.lost = server.lost /\ s.bound
    BY <1>1 DEF ServerOK, ServerFlags, ServerCounters
  <2>4. "iq" \in ServerNames
    BY DEF ServerNames
  <2>5. \E r \in Going : r.name = "bind"
    <3>1. HasEnd(toServer) /\ Request.name = "bind"
      BY <1>9 DEF AnswersBind, Got, Request
    <3>2. toServer \in Seq(Part)
      BY DEF Typed
    <3>3. Request \in Elements(toServer)
      BY <3>1, <3>2, FirstEndIs DEF Request, Elements
    <3> QED
      BY <3>1, <3>3 DEF Going
  <2> HIDE DEF e, s
  <2>6. ASSUME Answer(s, e("bind")) PROVE Gives
    <3>1. got' = got /\ server' = s
      BY <2>6 DEF Answer
    <3>2. PICK m \in Sizes : toClient' = toClient \o Parts(e("bind"), m)
      BY <2>6, Zenon DEF Answer
    <3>3. m \in Nat \ {0}
      BY DEF XmppAssumption
    <3>4. Binding(e("bind"))
      BY <2>1, <2>3, <2>5, <3>1 DEF Binding
    <3> QED
      BY <2>1, <2>4, <3>1, <3>2, <3>3, <3>4 DEF Gives, Supplies
  <2>7. ASSUME Answer(server, e("error")) PROVE Gives
    BY <1>2, <2>1, <2>4, <2>7, AnswerGives DEF Numbered
  <2> QED
    BY <2>2, <2>6, <2>7
<1>10. CASE EnablesAcks
  <2> DEFINE s == [server EXCEPT !["sm"] = TRUE]
  <2>1. "enabled" \in ServerNames /\ SameBooks(s)
    <3>1. SameBooks(s)
      BY <1>2
    <3> QED
      BY <3>1 DEF ServerNames
  <2>2. Answer(s, [E("enabled") EXCEPT !.ok = TRUE])
    BY <1>10, Zenon DEF EnablesAcks
  <2> HIDE DEF s
  <2> QED
    BY <1>3, <2>1, <2>2, PlainGives, Zenon
<1>11. CASE HandlesStanza
  <2>1. \/ Ignore(Handling(server)) \/ Ignore(server)
        \/ /\ server.bound
           /\ \E child \in {"none", "error"} :
                Answer(Counting(Handling(server)),
                       [E("iq") EXCEPT !.child = child, !.k = server.n + 1])
    BY <1>11, Zenon DEF HandlesStanza
  <2>2. ASSUME server.bound, NEW child \in {"none", "error"},
               Answer(Counting(Handling(server)),
                      [E("iq") EXCEPT !.child = child, !.k = server.n + 1])
        PROVE  Gives
    <3> DEFINE e == [E("iq") EXCEPT !.child = child, !.k = server.n + 1]
               s == Counting(Handling(server))
    <3>1. e \in Element
      <4>1. E("iq") \in Element
        BY ElementIs DEF Names
      <4> QED
        BY <1>1, <4>1, ElementWith, Zenon
    <3>2. e.name = "iq" /\ e.child = child /\ e.k = server.n + 1
      BY DEF E
    <3>3. /\ s.n = server.n + 1 /\ s.large = server.large /\ s.lost = server.lost
          /\ s.bound = server.bound
      BY <1>1, BooksAre
    <3>4. got' = got /\ server' = s /\ \E m \in Sizes : m <= InCap /\ toClient' = toClient \o Parts(e, m)
      BY <2>2, Zenon DEF Answer
    <3> HIDE DEF e, s
    <3>5. PICK m \in Sizes : m <= InCap /\ toClient' = toClient \o Parts(e, m)
      BY <3>4
    <3>6. m \in Nat \ {0} /\ ~ (m > InCap)
      BY <3>5 DEF XmppAssumption
    <3> QED
      BY <2>2, <3>1, <3>2, <3>3, <3>4, <3>5, <3>6, StanzaGives, Zenon
  <2> QED
    BY <1>2, <1>5, <2>1, <2>2
<1>12. CASE Acknowledges
  <2> DEFINE e == [E("a") EXCEPT !.k = server.handled]
  <2>1. e \in Element
    <3>1. E("a") \in Element
      BY ElementIs DEF Names
    <3> QED
      BY <1>1, <3>1, ElementWith, Zenon
  <2>2. e.name = "a" /\ "a" \in ServerNames
    BY DEF E, ServerNames
  <2>3. Answer(server, e)
    BY <1>12 DEF Acknowledges
  <2> HIDE DEF e
  <2> QED
    BY <1>2, <2>1, <2>2, <2>3, AnswerGives DEF Numbered
<1>13. CASE TakesNote
  BY <1>2, <1>5, <1>13 DEF TakesNote
<1>14. CASE PushesMessage
  <2> DEFINE e == [E("message") EXCEPT !.k = server.n + 1]
             L(m) == IF m > InCap THEN server.large \cup {server.n + 1} ELSE server.large
             s(m) == [Counting(server) EXCEPT !.large = L(m)]
  <2>1. Counting(server).large = server.large
    BY <1>1, BooksAre
  <2>2. PICK m \in Sizes : Push(s(m), e, m)
    BY <1>14, <2>1, Zenon DEF PushesMessage
  <2>3. m \in Nat \ {0} /\ server.bound
    BY <1>14 DEF XmppAssumption, PushesMessage
  <2>4. e \in Element
    <3>1. E("message") \in Element
      BY ElementIs DEF Names
    <3> QED
      BY <1>1, <3>1, ElementWith, Zenon
  <2>5. e.name = "message" /\ e.child = "none" /\ e.k = server.n + 1
    BY DEF E
  <2>6. /\ s(m).n = server.n + 1 /\ s(m).large = L(m) /\ s(m).lost = server.lost
        /\ s(m).bound = server.bound
    <3> DEFINE t == Counting(server)
    <3>1. /\ t.n = server.n + 1 /\ t.large = server.large /\ t.lost = server.lost
          /\ t.bound = server.bound /\ DOMAIN t = DOMAIN server
      BY <1>1, BooksAre
    <3> HIDE DEF t, L
    <3> QED
      BY <1>1, <3>1 DEF ServerOK, t
  <2>7. got' = got /\ server' = s(m) /\ toClient' = toClient \o Parts(e, m)
    BY <2>2 DEF Push
  <2> HIDE DEF e, s
  <2> QED
    BY <2>3, <2>4, <2>5, <2>6, <2>7, StanzaGives, Zenon
<1>15. CASE AsksAck
  <2>1. "r" \in ServerNames /\ SameBooks([server EXCEPT !["asked"] = server.n])
    <3>1. SameBooks([server EXCEPT !["asked"] = server.n])
      BY <1>2
    <3> QED
      BY <3>1 DEF ServerNames
  <2>2. Push([server EXCEPT !["asked"] = server.n], E("r"), 1)
    BY <1>15 DEF AsksAck
  <2> QED
    BY <1>4, <2>1, <2>2
<1>16. CASE ClosesStream
  <2>1. "/stream" \in ServerNames /\ SameBooks([server EXCEPT !["closed"] = TRUE])
    <3>1. SameBooks([server EXCEPT !["closed"] = TRUE])
      BY <1>2
    <3> QED
      BY <3>1 DEF ServerNames
  <2>2. Push([server EXCEPT !["closed"] = TRUE], E("/stream"), 1)
    BY <1>16, Zenon DEF ClosesStream
  <2> QED
    BY <1>4, <2>1, <2>2
<1> QED
  BY <1>6, <1>7, <1>8, <1>9, <1>10, <1>11, <1>12, <1>13, <1>14, <1>15, <1>16 DEF Answers

(* So a step of the server keeps the order.                                *)
LEMMA ServerOrders ==
  ASSUME Typed, Typed', Ordered, Answers \/ PushesMessage \/ AsksAck \/ ClosesStream
  PROVE  Ordered'
<1>1. Stepped /\ Arrives /\ Awake /\ Parsing
  BY DEF Ordered
<1>2. Served /\ c' = c /\ ret' = ret /\ Gives
  BY ServerServes, ServerGives
<1>3. Going' \subseteq Going /\ got' = got
  BY <1>2 DEF Served, Opens, Replies, Binds, Enables, Handles, Pushes, Adds, Heard, Gives
<1>4. server.n \in Nat /\ toClient \in Seq(Part) /\ \A e \in Coming : e.k \in Nat
  <2>1. toClient \in Seq(Part) /\ c.in \in Seq(Part)
    BY DEF Typed, ClientOK
  <2>2. Coming \subseteq Element
    BY <2>1, ElementsAre DEF Coming
  <2> QED
    BY <2>1, <2>2 DEF Typed, ServerOK, ServerCounters, Element
<1>5. CASE toClient' = toClient /\ SameBooks(server')
  <2>1. Whole' = Whole /\ Left' = Left /\ Coming' = Coming
    BY <1>2, <1>5 DEF Whole, Left, Rest, Coming
  <2>2. Steady
    BY <1>2, <1>5 DEF Steady, SameBooks
  <2>3. Parsing'
    BY <1>1, <1>2, <1>3, <2>1, <2>2, ParsingStays
  <2>4. Stepped'
    BY <1>1, <1>2, <1>3, <1>5 DEF Stepped, SameBooks
  <2>5. Arrives'
    BY <1>1, <1>5, <2>1 DEF Arrives, MayArrive, SameBooks
  <2> QED
    BY <1>1, <1>2, <2>3, <2>4, <2>5 DEF Ordered, Awake
<1>6. ASSUME NEW e \in Element, NEW m \in Nat \ {0}, Supplies(e, m) PROVE Ordered'
  <2>1. Parsing'
    BY <1>1, <1>2, <1>3, <1>6, ParsingAdds
  <2>2. Stepped'
    <3>1. server'.bound => server.bound \/ \E r \in Going : r.name = "bind"
      BY <1>6, Zenon DEF Supplies, Others, Binding, Numbers, SameBooks
    <3> QED
      BY <1>1, <1>2, <1>3, <3>1 DEF Stepped
  <2>3. Coming' \subseteq Coming \cup {e}
    <3>1. toClient' = toClient \o Parts(e, m) /\ m \in Nat /\ m > 0
      BY <1>6 DEF Supplies
    <3> QED
      BY <1>2, <3>1, ServerSends DEF Comes
  <2>4. /\ server.bound => server'.bound
        /\ server'.n \in {server.n, server.n + 1}
        /\ server'.lost = server.lost
        /\ server'.large \subseteq server.large \cup {server'.n}
        /\ server'.n = server.n => server'.large = server.large
    BY <1>4, <1>6 DEF Supplies, Others, Binding, Numbers, SameBooks
  <2>5. MayArrive(e)'
    BY <1>4, <1>6 DEF Supplies, Others, Binding, Numbers, SameBooks, MayArrive, Numbered
  <2>6. ASSUME NEW d \in Coming PROVE MayArrive(d)'
    <3>1. MayArrive(d) /\ d.k \in Nat
      BY <1>1, <1>4 DEF Arrives
    <3>2. server'.n \in Nat /\ server.n <= server'.n
      BY <1>4, <2>4
    <3> QED
      BY <1>4, <2>4, <3>1, <3>2 DEF MayArrive
  <2>7. server'.large \subseteq 1..server'.n /\ server'.lost \subseteq 1..server'.n
    <3>1. server.large \subseteq 1..server.n /\ server.lost \subseteq 1..server.n
      BY <1>1 DEF Arrives
    <3> QED
      BY <1>4, <2>4, <3>1
  <2>8. Arrives'
    BY <2>3, <2>5, <2>6, <2>7 DEF Arrives
  <2> QED
    BY <1>1, <1>2, <2>1, <2>2, <2>8 DEF Ordered, Awake
<1> QED
  BY <1>2, <1>5, <1>6 DEF Gives

-----------------------------------------------------------------------------
(* A step of the client keeps the order.                                   *)

(* Every step of the client follows the course of the negotiation.         *)
LEMMA IterateCourse ==
  ASSUME Typed, xmppIterate
  PROVE  /\ Course /\ Steady
         /\ (\E e \in Going' : e.name = "bind") =>
              (\E e \in Going : e.name = "bind") \/ c'.state = "BIND"
<1>1. DOMAIN c = Fields
  BY DEF Typed, ClientOK
<1>2. Turn /\ server' = server /\ ret = "OK" /\ (c'.out = c.out => Going' = Going)
  BY IterateTurn, IterateIn, TookIs
<1>3. CASE Finished \/ SendFirst \/ SkipFails \/ SkipEnds \/ SkipGoesOn \/ Partial
  <2>1. c'.state = c.state /\ c'.isnegotiationdone = c.isnegotiationdone
    BY <1>1, <1>3, OtherRows, Zenon DEF Finished, SendFirst, Alike, Moved, Fields
  <2>2. ret' # "GIVEPWD"
    BY <1>1, <1>3, OtherRows, Zenon DEF Finished, SendFirst
  <2>3. ~ BindResource
    BY <1>3 DEF Finished, SendFirst, SkipFails, SkipEnds, SkipGoesOn, Partial, Skips, Iterates,
                BindResource, Encrypted, ReadsFeatures, ReadsStanza, Reads
  <2> QED
    BY <1>2, <2>1, <2>2, <2>3 DEF Course, Steady, Turn, Speaks, Behind
<1>4. CASE OpenStream
  <2>1. c.state = "INIT" /\ ~ BindResource
    BY <1>4 DEF OpenStream, BindResource, Encrypted, ReadsFeatures
  <2>2. /\ c'.state \in {"INIT", "STREAMSENT"} /\ ret' # "GIVEPWD"
        /\ c'.isnegotiationdone = c.isnegotiationdone
    BY <1>1, <1>4, <2>1, EndRows DEF Alike, Fields
  <2> QED
    BY <1>2, <2>1, <2>2 DEF Course, Steady, Done, Turn, Speaks, Behind
<1>5. CASE EndStream
  <2>1. c.state = "ENDSTREAM" /\ ~ BindResource
    BY <1>5 DEF EndStream, BindResource, Encrypted, ReadsFeatures
  <2>2. /\ c'.state = "UNINIT" /\ ret' # "GIVEPWD"
        /\ c'.isnegotiationdone = c.isnegotiationdone
    BY <1>1, <1>5, <2>1, EndRows DEF Alike, Fields
  <2> QED
    BY <1>2, <2>1, <2>2 DEF Course, Steady, Done, Turn, Speaks, Behind
<1>6. CASE HandOver
  <2>1. ~ BindResource
    BY <1>6 DEF HandOver, Established, BindResource, Encrypted, ReadsFeatures
  <2>2. Took({"actualrecv"}) /\ ret' = "STANZA"
    BY <1>1, <1>6, StanzaRows
  <2>3. c'.state = c.state /\ c'.isnegotiationdone = c.isnegotiationdone
    BY <2>2 DEF Took, Alike, Fields
  <2> QED
    BY <1>2, <2>1, <2>2, <2>3 DEF Course, Steady, Turn, Speaks, Behind
<1>7. CASE \/ BadStream \/ StartTls \/ NoTls \/ StartScram \/ AskPlain \/ NoMechanism \/ BindResource
           \/ TlsProceeds \/ Challenged \/ PasswordRefused \/ ScramEnds \/ PlainEnds
           \/ Bound \/ Unexpected \/ SmacksEnabled \/ AckAnswer \/ AckRequest
  <2>1. Course /\ (BindResource => c'.out = c.out \/ c'.state = "BIND")
    BY <1>7, ReadCourse
  <2> QED
    BY <1>2, <2>1 DEF Course, Steady, Turn, Speaks, Behind
<1> QED
  BY <1>3, <1>4, <1>5, <1>6, <1>7 DEF xmppIterate

(* While it skips, it reads nothing else.                                  *)
LEMMA NothingSkipped ==
  ASSUME Typed, Awake, ReadsStanza \/ Partial \/ OpenStream \/ EndStream
  PROVE  c.skippingdepth = 0
<1>1. c.skippingdepth \in Nat
  BY DEF Typed, ClientOK, Counters
<1>2. ret = "OK" /\ Iterates /\ ~ Skips
  BY DEF ReadsStanza, Partial, OpenStream, EndStream, Reads, Iterates
<1> QED
  BY <1>1, <1>2 DEF Awake, Skips

(* Before the negotiation is over, nothing is to be delivered.             *)
LEMMA NothingYet ==
  ASSUME Typed, Stepped, Arrives, Awake, Parsing, ReadsStanza
  PROVE  /\ Stanza \in Element /\ MayArrive(Stanza)
         /\ server.bound => c.state \in {"BIND", "ACCEPTSTANZA"}
         /\ server.bound /\ ~ c.isnegotiationdone => c.state = "BIND"
         /\ ~ c.isnegotiationdone => ~ Numbered(Stanza)
<1>1. Stanza \in Element /\ Stanza \in Coming /\ MayArrive(Stanza)
  BY StanzaIs, StanzaEnded DEF Arrives
<1>2. server.bound => c.state \in {"BIND", "ACCEPTSTANZA"}
  BY DEF Stepped, Done, ReadsStanza, Reads, Iterates
<1>3. server.bound /\ ~ c.isnegotiationdone => c.state = "BIND"
  BY <1>2 DEF Stepped
<1>4. ASSUME ~ c.isnegotiationdone, Numbered(Stanza) PROVE FALSE
  <2>1. server.bound /\ Stanza.child # "bind"
    BY <1>1, <1>4 DEF MayArrive
  <2>2. BindFirst(Left)
    BY <1>4, <2>1, NothingSkipped DEF Parsing, Expects
  <2>3. PICK h \in DOMAIN Left : BindEnd(Left[h]) /\ \A j \in 1..(h - 1) : j \notin Under(Left)
    BY <2>2 DEF BindFirst
  <2> DEFINE n == FirstEnd(Left)
  <2>4. HasEnd(Left) /\ Stanza = Left[n].el /\ Left \in Seq(Part)
    BY StanzaIs, RestFirst, WholeIs
  <2>5. n \in 1..Len(Left) /\ Left[n].last /\ \A j \in 1..(n - 1) : ~ Left[j].last
    BY <2>4, FirstEndIs
  <2> HIDE DEF n
  <2>6. n \in Under(Left)
    BY <1>4, <2>4, <2>5 DEF Under
  <2>7. h \in 1..Len(Left) /\ h # n /\ ~ (n \in 1..(h - 1)) /\ ~ (h \in 1..(n - 1))
    BY <2>1, <2>3, <2>4, <2>5, <2>6 DEF BindEnd
  <2> QED
    BY <2>5, <2>7
<1> QED
  BY <1>1, <1>2, <1>3, <1>4

(* Reading a stanza of the negotiation takes it from the input.            *)
LEMMA ReadParses ==
  ASSUME Typed, Typed', Stepped, Arrives, Awake, Parsing, xmppIterate,
         \/ BadStream \/ StartTls \/ NoTls \/ StartScram \/ AskPlain \/ NoMechanism \/ BindResource
         \/ TlsProceeds \/ Challenged \/ PasswordRefused \/ ScramEnds \/ PlainEnds
         \/ Bound \/ Unexpected \/ SmacksEnabled \/ AckAnswer \/ AckRequest
  PROVE  Parsing' /\ c'.skippingdepth = 0
<1>1. Reading /\ Course /\ ReadsStanza /\ got' = got /\ Steady /\ toClient' = toClient
  BY ReadCourse, IterateCourse, IterateIn
<1>2. c.skippingdepth = 0
  BY <1>1, NothingSkipped
<1>3. CASE Moved \/ (Took(ReadFields) /\ Before)
  <2>1. c'.skippingdepth = c.skippingdepth /\ c'.rootclosed = c.rootclosed /\ c'.in = Rest /\ c'.i = 0
    BY <1>3 DEF Moved, Took, Alike, Fields, ReadFields, Before
  <2>2. Left' = Left
    BY <1>1, <2>1, LeftSame
  <2>3. Whole' = Left
    BY <1>1, <2>1 DEF Whole, Left
  <2> QED
    BY <1>1, <1>2, <2>1, <2>2, <2>3, ParsingStays
<1>4. CASE Took(ReadFields) /\ After
  <2>1. c'.skippingdepth = 0 /\ c'.in = Rest
    BY <1>2, <1>4 DEF Took, Alike, Fields, ReadFields
  <2>2. /\ Stanza \in Element /\ MayArrive(Stanza)
        /\ server.bound => c.state \in {"BIND", "ACCEPTSTANZA"}
        /\ server.bound /\ ~ c.isnegotiationdone => c.state = "BIND"
        /\ ~ c.isnegotiationdone => ~ Numbered(Stanza)
    BY <1>1, NothingYet
  <2>3. Stanza.name \in ServerNames
    BY <2>2 DEF MayArrive
  <2>4. ASSUME Numbered(Stanza) PROVE FALSE
    <3>1. c.isnegotiationdone /\ c.state # "STREAMSENT"
      BY <2>2, <2>4 DEF MayArrive
    <3>2. SmacksEnabled \/ AckAnswer \/ AckRequest
      BY <3>1 DEF BadStream, StartTls, NoTls, StartScram, AskPlain, NoMechanism, BindResource,
                  Authenticates, Encrypted, ReadsFeatures, TlsProceeds, Challenged, PasswordRefused,
                  ScramEnds, PlainEnds, Bound, Unexpected, Negotiates
    <3>3. StanzaType(Stanza) \in {"SMACKSENABLED", "ACKANSWER", "ACKREQUEST"}
      BY <3>2 DEF SmacksEnabled, AckAnswer, AckRequest
    <3>4. Stanza.name \in {"enabled", "a", "r"}
      BY <2>2, <2>3, <3>3, TypeIs
    <3> QED
      BY <2>4, <3>4 DEF Numbered
  <2>5. ASSUME ~ c'.isnegotiationdone, server.bound, Stanza.name = "iq", Stanza.child = "bind"
        PROVE  FALSE
    <3>1. ~ c.isnegotiationdone /\ c.state = "BIND"
      BY <1>1, <2>2, <2>5 DEF Course
    <3>2. Bound
      BY <3>1 DEF BadStream, StartTls, NoTls, StartScram, AskPlain, NoMechanism, BindResource,
                  Authenticates, Encrypted, ReadsFeatures, TlsProceeds, Challenged, PasswordRefused,
                  ScramEnds, PlainEnds, Unexpected, SmacksEnabled, AckAnswer, AckRequest, Established
    <3>3. StanzaType(Stanza) = "BINDJID"
      BY <2>2, <2>3, <2>5, TypeIs
    <3>4. ret' # "ESPEC"
      BY <3>2, <3>3 DEF Bound, Return
    <3>5. ~ Before
      BY <1>1, <1>4, StanzaIs DEF Before, After
    <3>6. Accepted
      <4>1. DOMAIN c = Fields
        BY DEF Typed, ClientOK
      <4> QED
        BY <3>2, <3>4, <3>5, <4>1, BoundIs
    <3> QED
      BY <2>5, <3>6 DEF Accepted
  <2> QED
    BY <1>1, <1>2, <1>4, <2>1, <2>4, <2>5, ParsingReads
<1> QED
  BY <1>1, <1>3, <1>4 DEF Reading

(* Handing over a stanza takes it from the input to the application.       *)
LEMMA HandOverParses ==
  ASSUME Typed, Typed', Stepped, Arrives, Awake, Parsing, xmppIterate, HandOver
  PROVE  Parsing' /\ c'.skippingdepth = 0
<1>1. /\ ReadsStanza /\ DOMAIN c = Fields /\ c.isnegotiationdone /\ Steady /\ toClient' = toClient
      /\ StanzaType(Stanza) \notin {"SMACKSENABLED", "ACKANSWER", "ACKREQUEST"}
      /\ got' = IF Stanza.k > 0 THEN Append(got, Stanza.k) ELSE got
  BY IterateCourse, IterateIn DEF HandOver, Established, Typed, ClientOK
<1>2. c.skippingdepth = 0
  BY <1>1, NothingSkipped
<1>3. Took({"actualrecv"}) /\ After
  BY <1>1, StanzaRows
<1>4. c'.skippingdepth = 0 /\ c'.in = Rest /\ c'.isnegotiationdone
  BY <1>1, <1>2, <1>3 DEF Took, Alike, Fields
<1>5. Stanza \in Element /\ MayArrive(Stanza)
  BY <1>1, NothingYet
<1>6. Stanza.k > 0 => Numbered(Stanza)
  <2>1. Stanza.name # "a"
    BY <1>1, <1>5, TypeIs DEF MayArrive
  <2> QED
    BY <1>5, <2>1 DEF MayArrive, Numbered
<1>7. \/ ~ Numbered(Stanza) /\ got' = got
      \/ Numbered(Stanza) /\ got' = Append(got, Stanza.k)
  BY <1>1, <1>6 DEF Numbered
<1> QED
  BY <1>1, <1>2, <1>3, <1>4, <1>7, ParsingReads

(* Skipping, waiting for more and opening a stream deliver nothing.        *)
LEMMA OtherParses ==
  ASSUME Typed, Typed', Stepped, Arrives, Awake, Parsing, xmppIterate,
         Finished \/ SendFirst \/ SkipFails \/ SkipEnds \/ SkipGoesOn \/ Partial
           \/ OpenStream \/ EndStream
  PROVE  Parsing' /\ Awake'
<1>1. /\ DOMAIN c = Fields /\ c.skippingdepth \in Nat /\ Steady
      /\ toClient' = toClient /\ ret = "OK"
  BY IterateCourse, IterateIn DEF Typed, ClientOK, Counters
<1>2. got' = got
  BY DEF Finished, SendFirst, SkipFails, SkipEnds, SkipGoesOn, Partial, OpenStream, EndStream, net
<1>3. ASSUME c'.skippingdepth = c.skippingdepth, c'.rootclosed = c.rootclosed,
             c'.in = c.in, c'.i = c.i
      PROVE  Parsing'
  <2>1. Left' = Left /\ Whole' = Whole
    BY <1>1, <1>3, LeftSame DEF Whole
  <2> QED
    BY <1>1, <1>2, <1>3, <2>1, ParsingStays
<1>4. CASE Finished \/ SendFirst
  <2>1. c' = c
    BY <1>4 DEF Finished, SendFirst
  <2>2. Awake'
    BY <1>1, <2>1 DEF Awake
  <2> QED
    BY <1>3, <2>1, <2>2
<1>5. CASE SkipFails \/ SkipEnds \/ SkipGoesOn
  <2>1. c.skippingdepth > 0 /\ c.in # <<>>
    BY <1>5 DEF SkipFails, SkipEnds, SkipGoesOn, Skips
  <2>2. Parsing'
    BY <1>1, <1>2, <1>5, <2>1, ParsingSkips
  <2>3. c'.in = c.in \/ ret' = "RECV"
    BY <1>1, <1>5, OtherRows, Zenon DEF Alike, Fields
  <2> QED
    BY <2>1, <2>2, <2>3 DEF Awake
<1>6. CASE Partial
  <2>1. c.skippingdepth = 0 /\ ~ HasEnd(Rest)
    BY <1>6, NothingSkipped DEF Partial, Rest
  <2>2. CASE /\ Alike(c, c', {"in", "i", "skippingdepth", "rootclosed"})
             /\ c'.in = Rest /\ c'.i = 0 /\ Len(Rest) = InCap /\ c'.skippingdepth = 1
    <3>1. Parsing'
      BY <1>1, <1>2, <2>1, <2>2, ParsingEnters
    <3>2. c'.in # <<>>
      BY <2>2 DEF XmppAssumption
    <3> QED
      BY <3>1, <3>2 DEF Awake
  <2>3. CASE Moved
    <3>1. c'.skippingdepth = c.skippingdepth /\ c'.rootclosed = c.rootclosed /\ c'.in = Rest /\ c'.i = 0
      BY <2>3 DEF Moved, Alike, Fields
    <3>2. Left' = Left /\ Whole' = Left
      BY <1>1, <3>1, LeftSame DEF Whole, Left
    <3>3. Parsing'
      BY <1>1, <1>2, <3>1, <3>2, ParsingStays
    <3> QED
      BY <2>1, <3>1, <3>3 DEF Awake
  <2> QED
    BY <1>1, <1>6, <2>2, <2>3, OtherRows, Zenon
<1>7. CASE OpenStream
  <2>1. c.skippingdepth = 0 /\ c.state = "INIT"
    BY <1>7, NothingSkipped DEF OpenStream
  <2>2. \/ Alike(c, c', {"out", "state"})
        \/ Alike(c, c', {"i"}) /\ c'.i = 0
    BY <1>1, <1>7, EndRows
  <2>3. /\ c'.skippingdepth = c.skippingdepth /\ c'.rootclosed = c.rootclosed /\ c'.in = c.in
        /\ c'.i = c.i \/ c'.i = 0
    BY <2>2 DEF Alike, Fields
  <2>4. ~ server.bound
    BY <2>1 DEF Stepped, Done
  <2>5. Parsing'
    <3>1. CASE c'.i = c.i
      BY <1>3, <2>3, <3>1
    <3>2. CASE c'.i = 0
      BY <1>1, <1>2, <2>1, <2>3, <2>4, <3>2, ParsingRereads
    <3> QED
      BY <2>3, <3>1, <3>2
  <2> QED
    BY <2>1, <2>3, <2>5 DEF Awake
<1>8. CASE EndStream
  <2>1. c.skippingdepth = 0
    BY <1>8, NothingSkipped
  <2>2. Alike(c, c', {"out", "state"})
    BY <1>1, <1>8, EndRows DEF Alike
  <2>3. /\ c'.skippingdepth = c.skippingdepth /\ c'.rootclosed = c.rootclosed
        /\ c'.in = c.in /\ c'.i = c.i
    BY <2>2 DEF Alike, Fields
  <2> QED
    BY <1>3, <2>1, <2>3 DEF Awake
<1> QED
  BY <1>4, <1>5, <1>6, <1>7, <1>8

LEMMA IterateOrders ==
  ASSUME Typed, Typed', Ordered, xmppIterate
  PROVE  Ordered'
<1>1. Stepped /\ Arrives /\ Awake /\ Parsing
  BY DEF Ordered
<1>2. /\ Course /\ server' = server /\ Coming' \subseteq Coming
      /\ (\E e \in Going' : e.name = "bind") =>
           (\E e \in Going : e.name = "bind") \/ c'.state = "BIND"
  BY IterateCourse, IterateIn
<1>3. Stepped'
  BY <1>1, <1>2 DEF Stepped, Course, Done
<1>4. Arrives'
  BY <1>1, <1>2 DEF Arrives, MayArrive
<1>5. Parsing' /\ Awake'
  <2>1. CASE Finished \/ SendFirst \/ SkipFails \/ SkipEnds \/ SkipGoesOn \/ Partial
             \/ OpenStream \/ EndStream
    BY <1>1, <2>1, OtherParses
  <2>2. CASE HandOver
    BY <1>1, <2>2, HandOverParses DEF Awake
  <2>3. CASE \/ BadStream \/ StartTls \/ NoTls \/ StartScram \/ AskPlain \/ NoMechanism
             \/ BindResource \/ TlsProceeds \/ Challenged \/ PasswordRefused \/ ScramEnds
             \/ PlainEnds \/ Bound \/ Unexpected \/ SmacksEnabled \/ AckAnswer \/ AckRequest
    BY <1>1, <2>3, ReadParses DEF Awake
  <2> QED
    BY <2>1, <2>2, <2>3 DEF xmppIterate
<1> QED
  BY <1>3, <1>4, <1>5 DEF Ordered

-----------------------------------------------------------------------------
(* So does a step of the application, or a lost connection.                *)

(* The application does not touch the input.                               *)
LEMMA OwnOrders ==
  ASSUME Typed, Typed', Ordered, NEW fs, Alike(c, c', fs),
         fs \cap {"in", "i", "skippingdepth", "rootclosed", "isnegotiationdone"} = {},
         UNCHANGED <<server, toClient, got>>, ret # "RECV",
         ret' \in {"EXML", "EXIT"} \/ ret \notin {"EXML", "EXIT"}
  PROVE  /\ Arrives' /\ Awake' /\ Parsing'
         /\ c'.isnegotiationdone = c.isnegotiationdone
<1>1. \A f \in {"in", "i", "skippingdepth", "rootclosed", "isnegotiationdone"} : c'[f] = c[f]
  BY DEF Alike, Fields
<1>2. /\ c'.in = c.in /\ c'.i = c.i /\ c'.skippingdepth = c.skippingdepth
      /\ c'.rootclosed = c.rootclosed /\ c'.isnegotiationdone = c.isnegotiationdone
  BY <1>1
<1>3. Left' = Left /\ Whole' = Whole /\ Coming' = Coming
  BY <1>2, LeftSame DEF Whole, Coming
<1>4. Steady
  BY <1>2 DEF Steady
<1>5. Parsing'
  BY <1>2, <1>3, <1>4, ParsingStays DEF Ordered
<1>6. Arrives'
  BY <1>3 DEF Ordered, Arrives, MayArrive
<1>7. Awake'
  BY <1>2 DEF Ordered, Awake
<1> QED
  BY <1>2, <1>5, <1>6, <1>7

(* What is received was under way.                                         *)
LEMMA ReceiveOrders ==
  ASSUME Typed, Typed', Ordered, NEW n \in 1..Len(toClient), Receive(n)
  PROVE  Ordered'
<1>1. DOMAIN c = Fields
  BY DEF Typed, ClientOK
<1>2. /\ Alike(c, c', {"in"}) /\ c'.in = c.in \o SubSeq(toClient, 1, n) /\ ret' = "OK"
      /\ toClient' = Drop(toClient, n) /\ UNCHANGED <<server, toServer, got>>
      /\ ret \in {"RECV", "READY"}
  BY <1>1, OwnRows, Zenon DEF Receive
<1>3. \A f \in Fields \ {"in"} : c'[f] = c[f]
  BY <1>2 DEF Alike
<1>4. /\ c'.isnegotiationdone = c.isnegotiationdone /\ c'.skippingdepth = c.skippingdepth
      /\ c'.rootclosed = c.rootclosed /\ c'.i = c.i /\ c'.state = c.state /\ c'.out = c.out
  BY <1>3 DEF Fields
<1>5. Left' = Left
  BY <1>2, <1>4, LeftReceived
<1> DEFINE f == SubSeq(toClient, 1, n)
           d == Drop(toClient, n)
<1>6. n \in 0..Len(toClient) /\ toClient \in Seq(Part) /\ c.in \in Seq(Part)
  BY DEF Typed, ClientOK
<1>7. /\ f \in Seq(Part) /\ d \in Seq(Part) /\ Len(f) = n /\ toClient = f \o d
      /\ Elements(f) \subseteq Elements(toClient) /\ Elements(d) \subseteq Elements(toClient)
  BY <1>6, FrontIs, DropIs, CountSplit, ElementsAre, Zenon
<1>8. c'.in = c.in \o f /\ toClient' = d
  BY <1>2
<1> HIDE DEF f, d
<1>9. Whole' = Whole
  <2>1. (c.in \o f) \o d = c.in \o (f \o d)
    BY <1>6, <1>7, Associates, ZenonT(60)
  <2> QED
    BY <1>7, <1>8, <2>1 DEF Whole
<1>10. Coming' \subseteq Coming
  <2>1. Elements(c'.in) = Elements(c.in) \cup Elements(f)
    BY <1>6, <1>7, <1>8, ConcatElements
  <2> QED
    BY <1>7, <1>8, <2>1 DEF Coming
<1>11. c'.in # <<>>
  <2>1. Len(c.in \o f) = Len(c.in) + Len(f)
    BY <1>6, <1>7, ConcatProperties, Zenon
  <2>4. Len(c.in) \in Nat
    BY <1>6
  <2>2. Len(c'.in) = Len(c.in) + n
    BY <1>7, <1>8, <2>1
  <2>3. n \in 1..Len(toClient) /\ Len(toClient) \in Nat
    BY <1>6, <1>2
  <2> QED
    BY <2>2, <2>3, <2>4
<1>12. Steady
  BY <1>2, <1>4 DEF Steady
<1>13. Parsing'
  BY <1>2, <1>4, <1>5, <1>9, <1>12, ParsingStays DEF Ordered
<1>14. Arrives'
  BY <1>2, <1>10 DEF Ordered, Arrives, MayArrive
<1>15. Going' = Going
  BY <1>2, <1>4, SentSame
<1>16. Stepped'
  BY <1>2, <1>4, <1>15 DEF Ordered, Stepped
<1> QED
  BY <1>11, <1>13, <1>14, <1>16 DEF Ordered, Awake

(* What is on the connection when it is lost is recorded as lost.          *)
LEMMA ResumeOrders ==
  ASSUME Typed, Typed', Ordered, "EXML" \notin Survives, xmppResume
  PROVE  Ordered'
<1>1. DOMAIN c = Fields /\ toClient \in Seq(Part) /\ server.n \in Nat
      /\ DOMAIN server = ServerFlags \cup ServerCounters \cup {"offered", "large", "lost"}
  BY DEF Typed, ClientOK, ServerOK, ServerCounters
<1>2. Parsing'
  BY ParsingLost DEF Ordered
<1>3. /\ Alike(c, c', {"state", "features", "out"}) /\ c'.state = "INIT" /\ c'.out = <<>>
      /\ toClient' = <<>> /\ toServer' = <<>> /\ c.in = <<>> /\ ret = "READY" /\ ret' = "OK"
      /\ server' = [server EXCEPT !.tls = FALSE, !.auth = FALSE, !.offered = {},
                     !.bound = FALSE, !.sm = FALSE,
                     !.lost = @ \cup {e.k : e \in {f \in Elements(toClient) : Numbered(f)}}]
  BY <1>1, OwnRows, Zenon DEF xmppResume
<1>4. /\ server'.n = server.n /\ server'.large = server.large /\ server'.bound = FALSE
      /\ server'.lost = server.lost \cup {e.k : e \in {f \in Elements(toClient) : Numbered(f)}}
  BY <1>1, <1>3 DEF ServerFlags, ServerCounters
<1>5. c'.in = <<>> /\ c'.skippingdepth = c.skippingdepth
  BY <1>3 DEF Alike, Fields
<1>6. Going' = {} /\ Coming' = {}
  BY <1>3, <1>5 DEF Going, Coming, Elements
<1>7. Stepped'
  BY <1>3, <1>4, <1>6 DEF Stepped
<1>8. Arrives'
  <2>1. ASSUME NEW e \in Elements(toClient), Numbered(e) PROVE e.k \in 1..server.n
    <3>1. e \in Coming /\ e \in Element
      BY <1>1, ElementsAre DEF Coming
    <3>2. MayArrive(e) /\ e.k \in Nat
      BY <3>1 DEF Ordered, Arrives, Element
    <3> QED
      BY <1>1, <2>1, <3>2 DEF MayArrive, Numbered
  <2>2. server'.lost \subseteq 1..server.n
    BY <1>4, <2>1 DEF Ordered, Arrives
  <2> QED
    BY <1>4, <1>6, <2>2 DEF Ordered, Arrives
<1>9. Awake'
  BY <1>3, <1>5 DEF Ordered, Awake
<1> QED
  BY <1>2, <1>7, <1>8, <1>9 DEF Ordered

LEMMA ApplicationOrders ==
  ASSUME Typed, Typed', Ordered, "EXML" \notin Survives, Application
  PROVE  Ordered'
<1>1. DOMAIN c = Fields
  BY DEF Typed, ClientOK
<1>2. Stepped
  BY DEF Ordered
<1>3. CASE \E n \in 1..Len(c.out) : Send(n)
  <2>1. PICK n \in 1..Len(c.out) : Send(n)
    BY <1>3
  <2>2. /\ Alike(c, c', {"out"}) /\ c'.out = Drop(c.out, n) /\ ret = "SEND" /\ ret' = "OK"
        /\ toServer' = toServer \o SubSeq(c.out, 1, n) /\ UNCHANGED <<server, toClient, got>>
    BY <1>1, <2>1, OwnRows, Zenon DEF Send
  <2>3. Going' \subseteq Going
    BY <2>2, SentWritten
  <2>4. c'.state = c.state
    BY <2>2 DEF Alike, Fields
  <2>5. Arrives' /\ Awake' /\ Parsing' /\ c'.isnegotiationdone = c.isnegotiationdone
    BY <2>2, OwnOrders
  <2>6. Stepped'
    BY <1>2, <2>2, <2>3, <2>4, <2>5 DEF Stepped
  <2> QED
    BY <2>5, <2>6 DEF Ordered
<1>4. CASE \E n \in 1..Len(toClient) : Receive(n)
  BY <1>4, ReceiveOrders
<1>5. CASE Handshake \/ GoOn \/ Exit
  <2>1. UNCHANGED <<c, server, toServer, toClient, got>> /\ ret' \in {"OK", "EXIT"}
    BY <1>5 DEF Handshake, GoOn, Exit, net
  <2>2. ret # "RECV" /\ (ret' \in {"EXML", "EXIT"} \/ ret \notin {"EXML", "EXIT"})
    BY <1>5 DEF Handshake, GoOn, Exit, Errors
  <2>3. Alike(c, c', {})
    BY <1>1, <2>1 DEF Alike
  <2>4. Arrives' /\ Awake' /\ Parsing'
    BY <2>1, <2>2, <2>3, OwnOrders
  <2>5. Going' = Going
    BY <2>1, SentSame
  <2>6. Stepped'
    BY <1>2, <2>1, <2>5 DEF Stepped
  <2> QED
    BY <2>4, <2>6 DEF Ordered
<1>6. CASE \E right \in BOOLEAN : xmppSupplyPassword(right)
  <2>1. PICK right \in BOOLEAN : xmppSupplyPassword(right)
    BY <1>6
  <2>2. /\ UNCHANGED <<server, toServer, toClient, got>> /\ ret = "GIVEPWD" /\ ret' = "OK"
        /\ c.state \in {"SASLPWD", "SASLPLAIN"}
    BY <1>2, <2>1 DEF xmppSupplyPassword, net, Stepped
  <2>3. ~ server.bound /\ \A e \in Going : e.name # "bind"
    BY <1>2, <2>2 DEF Stepped, Done
  <2>4. /\ Alike(c, c', {"solved", "out", "state"})
        /\ c'.state \in {c.state, "SASLCHECKRESULT", "SASLRESULT"}
        /\ \/ c'.out = c.out
           \/ \E ok \in BOOLEAN :
                c'.out = Appended(c.out, [E(IF c.state = "SASLPWD" THEN "response"
                                            ELSE "authplain") EXCEPT !.ok = ok])
    BY <1>1, <2>1, PasswordRows DEF Alike, Fields
  <2>5. \A e \in Going' : e.name # "bind"
    <3>1. CASE c'.out = c.out
      BY <2>2, <2>3, <3>1, SentSame
    <3>2. CASE \E ok \in BOOLEAN :
                 c'.out = Appended(c.out, [E(IF c.state = "SASLPWD" THEN "response"
                                             ELSE "authplain") EXCEPT !.ok = ok])
      <4>1. PICK name \in {"response", "authplain"}, ok \in BOOLEAN :
              c'.out = Appended(c.out, [E(name) EXCEPT !.ok = ok])
        BY <3>2
      <4> DEFINE e == [E(name) EXCEPT !.ok = ok]
      <4>2. e \in Element /\ e.name = name
        <5>1. E(name) \in Element
          BY ElementIs DEF Names
        <5> QED
          BY <5>1, ElementWith, Zenon DEF E
      <4> HIDE DEF e
      <4>3. Behind(e)
        BY <2>2, <4>1, <4>2, SentBehind DEF e
      <4> QED
        BY <2>3, <4>2, <4>3 DEF Behind
    <3> QED
      BY <2>4, <3>1, <3>2
  <2>6. Arrives' /\ Awake' /\ Parsing' /\ c'.isnegotiationdone = c.isnegotiationdone
    BY <2>2, <2>4, OwnOrders
  <2>7. Stepped'
    BY <2>2, <2>3, <2>4, <2>5 DEF Stepped
  <2> QED
    BY <2>6, <2>7 DEF Ordered
<1>7. CASE \E name \in {"presence", "iq"} : Format(name)
  <2>1. PICK name \in {"presence", "iq"} : Format(name)
    BY <1>7
  <2>2. UNCHANGED <<server, toServer, toClient, got>> /\ ret \in {"READY", "STANZA"} /\ ret' = "OK"
    BY <2>1 DEF Format
  <2>3. /\ Alike(c, c', {"out", "actualsent"})
        /\ c'.out \in {c.out, Appended(c.out, E(name)), Appended(Appended(c.out, E(name)), E("r"))}
    BY <1>1, <2>1, FormatRows DEF Alike, Fields
  <2>4. c'.state = c.state
    BY <2>3 DEF Alike, Fields
  <2>5. \A e \in Going' : e \in Going \/ e.name # "bind"
    <3>1. /\ c.out \in Seq(Part) /\ E(name) \in Element /\ E("r") \in Element
      BY ElementIs DEF Typed, ClientOK, Names
    <3>2. Appended(c.out, E(name)) \in Seq(Part)
      BY <3>1, AppendedIs
    <3>3. Elements(c'.out) \subseteq Elements(c.out) \cup {E(name), E("r")}
      BY <2>3, <3>1, <3>2, ElementsAre
    <3>4. E(name).name # "bind" /\ E("r").name # "bind"
      BY DEF E
    <3> QED
      BY <2>2, <3>3, <3>4 DEF Going
  <2>6. Arrives' /\ Awake' /\ Parsing' /\ c'.isnegotiationdone = c.isnegotiationdone
    BY <2>2, <2>3, OwnOrders
  <2>7. Stepped'
    BY <1>2, <2>2, <2>4, <2>5, <2>6 DEF Stepped
  <2> QED
    BY <2>6, <2>7 DEF Ordered
<1>8. CASE xmppEndStream
  <2>1. /\ Alike(c, c', {"state"}) /\ UNCHANGED <<server, toClient, got>>
        /\ ret = "READY" /\ ret' = "OK" /\ c'.state = "ENDSTREAM"
    BY <1>1, <1>8, OwnRows DEF xmppEndStream, net
  <2>2. Arrives' /\ Awake' /\ Parsing'
    BY <2>1, OwnOrders
  <2>3. Stepped'
    BY <2>1 DEF Stepped, Done
  <2> QED
    BY <2>2, <2>3 DEF Ordered
<1>9. CASE xmppResume
  BY <1>9, ResumeOrders
<1> QED
  BY <1>3, <1>4, <1>5, <1>6, <1>7, <1>8, <1>9 DEF Application

-----------------------------------------------------------------------------
(* The delivery follows.                                                   *)

LEMMA OrderedInitially == Init => Ordered
<1> SUFFICES ASSUME Init PROVE Ordered
  OBVIOUS
<1>1. PICK opts \in OptSets : c = xmppInitClient(opts)
  BY DEF Init
<1>2. /\ c.in = <<>> /\ c.out = <<>> /\ c.i = 0 /\ c.skippingdepth = 0 /\ c.state = "INIT"
      /\ ~ c.isnegotiationdone
  BY <1>1 DEF xmppInitClient
<1>3. ret = "OK" /\ got = <<>> /\ toServer = <<>> /\ toClient = <<>>
  BY DEF Init
<1>4. ~ server.bound /\ server.n = 0 /\ server.large = {} /\ server.lost = {}
  BY DEF Init, NewServer
<1>5. Typed
  BY TypesInitially
<1>6. Elements(<<>>) = {}
  BY DEF Elements
<1>7. Going = {} /\ Coming = {}
  BY <1>2, <1>3, <1>6 DEF Going, Coming
<1>8. Whole = <<>> /\ Left = <<>>
  <2>1. Whole = <<>>
    BY <1>2, <1>3 DEF Whole
  <2>2. Rest = <<>>
    BY <1>2 DEF Rest, Drop
  <2> QED
    BY <1>3, <2>1, <2>2 DEF Left
<1>9. Under(<<>>) = {}
  BY DEF Under
<1>10. Stepped
  BY <1>2, <1>3, <1>4, <1>7 DEF Stepped
<1>11. Arrives
  BY <1>4, <1>7 DEF Arrives
<1>12. Awake /\ Expects /\ Skipping
  BY <1>2, <1>4 DEF Awake, Expects, Skipping
<1>13. Framed
  <2>1. DOMAIN Whole = {}
    BY <1>8
  <2>2. Finishes(Whole) /\ Begins(Whole)
    BY <2>1 DEF Finishes, Begins
  <2>3. Fitting(Whole, server.large)
    BY <1>8, <1>9 DEF Fitting
  <2> QED
    BY <1>2, <2>2, <2>3 DEF Framed
<1>14. Delivered
  <2>1. DOMAIN got = {} /\ 1..server.n = {}
    BY <1>3, <1>4
  <2>2. Delivery(Left, got, server)
    BY <1>8, <1>9, <2>1 DEF Delivery
  <2> QED
    BY <2>2 DEF Delivered
<1> QED
  BY <1>10, <1>11, <1>12, <1>13, <1>14 DEF Ordered, Parsing

LEMMA OrderedStays ==
  ASSUME Ordered, UNCHANGED vars
  PROVE  Ordered'
<1>1. UNCHANGED <<c, ret, got, server, toServer, toClient>>
  BY DEF vars
<1>2. Whole' = Whole /\ Left' = Left /\ Going' = Going /\ Coming' = Coming
  BY <1>1 DEF Whole, Left, Rest, Going, Coming
<1>3. Stepped' /\ Awake'
  BY <1>1, <1>2 DEF Ordered, Stepped, Awake
<1>4. Arrives'
  BY <1>1, <1>2 DEF Ordered, Arrives, MayArrive
<1>5. Framed' /\ Expects'
  BY <1>1, <1>2 DEF Ordered, Parsing, Framed, Expects
<1>6. Skipping' /\ Delivered'
  BY <1>1, <1>2 DEF Ordered, Parsing, Skipping, Delivered
<1> QED
  BY <1>3, <1>4, <1>5, <1>6 DEF Ordered, Parsing

LEMMA OrderedStep ==
  ASSUME Typed, Ordered, "EXML" \notin Survives, [Next]_vars
  PROVE  Ordered'
<1>1. Typed'
  BY TypesStep
<1>2. CASE UNCHANGED vars
  BY <1>2, OrderedStays
<1>3. CASE xmppIterate
  BY <1>1, <1>3, IterateOrders
<1>4. CASE Application
  BY <1>1, <1>4, ApplicationOrders
<1>5. CASE Answers \/ PushesMessage \/ AsksAck \/ ClosesStream
  BY <1>1, <1>5, ServerOrders
<1> QED
  BY <1>2, <1>3, <1>4, <1>5 DEF Next

LEMMA OrderedDelivers == Typed /\ Ordered => DeliveredInOrder
<1> SUFFICES ASSUME Typed, Ordered PROVE DeliveredInOrder
  OBVIOUS
<1>1. Framed /\ Delivered
  BY DEF Ordered, Parsing
<1>2. Unskipped = Rest
  BY DEF Unskipped, Rest
<1>3. ASSUME c.skippingdepth = 0, Rest # <<>>
      PROVE  Rest[1].first
  <2>1. /\ Whole \in Seq(Part) /\ c.i \in 0..Len(Whole) /\ Left = Drop(Whole, c.i)
        /\ Left \in Seq(Part)
    BY WholeIs
  <2>2. /\ Rest \in Seq(Part) /\ Len(Rest) <= Len(Left)
        /\ \A j \in 1..Len(Rest) : Left[j] = Rest[j]
    BY RestFirst
  <2>3. Begins(Whole) /\ Fitting(Whole, server.large) /\ (c.i = 0 \/ Whole[c.i].last)
    BY <1>1, <1>3 DEF Framed
  <2>4. Begins(Left)
    BY <2>1, <2>3, BeginsDropped
  <2>5. 1 \in 1..Len(Rest)
    BY <1>3, <2>2
  <2>6. Left[1] = Rest[1] /\ 1 \in DOMAIN Left
    BY <2>1, <2>2, <2>5
  <2> QED
    BY <2>4, <2>6 DEF Begins
<1>4. ASSUME ret \notin {"EXML", "EXIT"}
      PROVE  /\ \A j, h \in DOMAIN got : j < h => got[j] < got[h]
             /\ \A j, h \in Under(Left) : j < h => Left[j].el.k < Left[h].el.k
             /\ \A j \in DOMAIN got : \A h \in Under(Left) : got[j] < Left[h].el.k
             /\ ({got[j] : j \in DOMAIN got} \cup {Left[j].el.k : j \in Under(Left)})
                  \ server.large = (1..server.n) \ (server.large \cup server.lost)
  BY <1>1, <1>4, Zenon DEF Delivered, Delivery
<1>5. ASSUME ret \notin {"EXML", "EXIT"}
      PROVE  \A k \in {got[j] : j \in DOMAIN got} : \A h \in Under(Left) : k < Left[h].el.k
  <2> SUFFICES ASSUME NEW j \in DOMAIN got, NEW h \in Under(Left)
               PROVE  got[j] < Left[h].el.k
    OBVIOUS
  <2>1. \A i \in DOMAIN got : \A m \in Under(Left) : got[i] < Left[m].el.k
    BY <1>4, <1>5
  <2> QED
    BY <2>1
<1>6. Unskipped \o toClient = Left
  BY <1>2 DEF Left
<1> QED
  BY <1>2, <1>3, <1>4, <1>5, <1>6, Zenon DEF DeliveredInOrder, Under

(* The stanzas of the server reach the application in order and once,      *)
(* however they are cut into reads, handed over, skipped or lost with a    *)
(* connection (ReturnStanza, MoveStanza and the skipping of                *)
(* xmppIterate).  The application leaves the client once its XML is        *)
(* malformed, as example/im.c does.                                        *)
THEOREM DeliveredInOrderHolds ==
  ASSUME "EXML" \notin Survives
  PROVE  Spec => []DeliveredInOrder
<1>1. Init => Typed /\ Ordered
  BY TypesInitially, OrderedInitially
<1>2. Typed /\ Ordered /\ [Next]_vars => (Typed /\ Ordered)'
  BY TypesStep, OrderedStep
<1>3. Typed /\ Ordered => DeliveredInOrder
  BY OrderedDelivers
<1> QED BY <1>1, <1>2, <1>3, PTL DEF Spec
=============================================================================
