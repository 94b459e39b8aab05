---------------------------- MODULE Messages_proofs ----------------------------
(***************************************************************************)
(* Messages.tla for every number of messages that come in and are written,  *)
(* in whatever order their classes: the two readers of a MessageSocket get  *)
(* each its messages, once and in order.                                    *)
(***************************************************************************)
EXTENDS Messages, SequenceTheorems, TLAPS

\* set_read_parallel is called between two reads: RtpTcpSocket does when the
\* answer to its last request has come.
InUse == SwitchAnyTime = FALSE

-----------------------------------------------------------------------------
(* The inductive invariant of a MessageSocket, in named parts.              *)

Msgs == [id : Nat, class : Classes]
Readers == {"none"} \cup Styles
Sockets ==
    [flow : Seq(Classes), come : Nat, taken : Nat, parallel : BOOLEAN,
     size : Nat, pos : Nat, ok : BOOLEAN, rcv : Seq(Msgs), pend : Nat,
     saved : Seq(Msgs), resp : BOOLEAN, control : Readers, raw : Readers,
     due : Nat, given : Seq(Msgs),
     out : Nat, snd : Nat, wsize : Nat, wpos : Nat, write : Readers,
     broken : BOOLEAN, failed : BOOLEAN]

\* the messages that were read to their end
Done == socket.taken \div Parts
GivenIds(class) == GivenBefore(Len(socket.given), class)
IdsOf(queue) == IdsBefore(queue, Len(queue))

\* Where in a message the parser is; between two calls of a reader, too.
InPlace ==
    /\ socket.taken <= socket.come /\ socket.come <= Room
    /\ socket.size \in {0, 1, Parts}
    /\ socket.size = 0 => socket.taken % Parts = 0
    /\ socket.size = 1 => socket.taken % Parts = 0 /\ socket.pos = 0 /\ ~socket.ok
    /\ socket.size = Parts => socket.taken % Parts = 1 /\ socket.pos = 1 /\ socket.ok

\* The readers are not in each other's way: before set_read_parallel there is
\* nothing to be handed over, and behind it the data messages are read when
\* neither queue has a message.
Turns ==
    /\ ~socket.parallel => /\ socket.rcv = << >> /\ socket.pend = 0 /\ ~socket.resp
                           /\ socket.raw = "none" /\ socket.due = 0
    /\ ~socket.parallel /\ socket.control # "none" => socket.size # 0
    /\ socket.raw # "none" => socket.rcv = << >> /\ socket.saved = << >> /\ socket.size # 0
    /\ Len(socket.rcv) <= socket.pend

\* What was read was given to its reader or is queued for it.
Kept ==
    /\ GivenIds("control") \cup IdsOf(socket.rcv) = Earlier(Done + 1, "control")
    /\ GivenIds("data") \cup IdsOf(socket.saved) = Earlier(Done + 1, "data")

Content ==
    Kept /\ GivenInTurn /\ QueuedInTurn(socket.rcv, "control") /\ QueuedInTurn(socket.saved, "data")

Writes ==
    /\ socket.wsize \in {0, Parts}
    /\ socket.wsize = 0 => socket.write = "none" /\ socket.snd = 0 /\ socket.out % Parts = 0
    /\ socket.wsize = Parts => /\ socket.snd \in 1 .. Parts /\ socket.wpos = Parts - socket.snd
                               /\ socket.out % Parts = socket.wpos

SInv == socket \in Sockets /\ InPlace /\ Turns /\ Content /\ Writes /\ ~socket.failed

-----------------------------------------------------------------------------
(* What was given and what is queued.                                       *)

LEMMA QueueFacts ==
  ASSUME NEW q \in Seq(Msgs)
  PROVE  /\ Len(q) \in Nat /\ \A i \in 1 .. Len(q) : q[i] \in Msgs
         /\ q # << >> => /\ Head(q) = q[1] /\ Head(q) \in Msgs /\ Tail(q) \in Seq(Msgs)
                         /\ Len(q) >= 1 /\ Len(Tail(q)) = Len(q) - 1
                         /\ \A i \in 1 .. Len(q) - 1 : Tail(q)[i] = q[i + 1]
         /\ q = << >> <=> Len(q) = 0
  OBVIOUS

LEMMA AppendFacts ==
  ASSUME NEW q \in Seq(Msgs), NEW m \in Msgs
  PROVE  /\ Append(q, m) \in Seq(Msgs) /\ Len(Append(q, m)) = Len(q) + 1
         /\ \A i \in 1 .. Len(q) : Append(q, m)[i] = q[i]
         /\ Append(q, m)[Len(q) + 1] = m
  OBVIOUS

LEMMA IdsAppend ==
  ASSUME NEW q \in Seq(Msgs), NEW m \in Msgs
  PROVE  /\ \A n \in 0 .. Len(q) : IdsBefore(Append(q, m), n) = IdsBefore(q, n)
         /\ IdsOf(Append(q, m)) = IdsOf(q) \cup {m.id}
  <1> DEFINE r == Append(q, m)
  <1>1. /\ Len(q) \in Nat /\ Len(r) = Len(q) + 1
        /\ \A i \in 1 .. Len(q) : r[i] = q[i]
        /\ r[Len(q) + 1] = m
    BY QueueFacts, AppendFacts
  <1> HIDE DEF r
  <1>2. \A n \in 0 .. Len(q) : IdsBefore(r, n) = IdsBefore(q, n)
    <2> SUFFICES ASSUME NEW n \in 0 .. Len(q) PROVE IdsBefore(r, n) = IdsBefore(q, n)
      OBVIOUS
    <2>1. \A i \in 1 .. n : r[i] = q[i]
      BY <1>1
    <2> QED BY <2>1 DEF IdsBefore
  <1>3. IdsOf(r) = IdsOf(q) \cup {m.id}
    <2>1. 1 .. Len(r) = (1 .. Len(q)) \cup {Len(q) + 1}
      BY <1>1
    <2>2. IdsOf(r) = {r[h].id : h \in 1 .. Len(q)} \cup {r[Len(q) + 1].id}
      BY <2>1 DEF IdsOf, IdsBefore
    <2>3. {r[h].id : h \in 1 .. Len(q)} = IdsOf(q)
      BY <1>1 DEF IdsOf, IdsBefore
    <2> QED BY <1>1, <2>2, <2>3
  <1> QED BY <1>2, <1>3 DEF r

LEMMA IdsTail ==
  ASSUME NEW q \in Seq(Msgs), q # << >>
  PROVE  /\ \A n \in 0 .. Len(q) - 1 : IdsBefore(q, n + 1) = IdsBefore(Tail(q), n) \cup {Head(q).id}
         /\ IdsOf(q) = IdsOf(Tail(q)) \cup {Head(q).id}
  <1> DEFINE r == Tail(q)
  <1>1. /\ Len(q) \in Nat /\ Len(q) >= 1 /\ Len(r) = Len(q) - 1 /\ Head(q) = q[1]
        /\ \A i \in 1 .. Len(q) - 1 : r[i] = q[i + 1]
    BY QueueFacts
  <1> HIDE DEF r
  <1>2. ASSUME NEW n \in 0 .. Len(q) - 1 PROVE IdsBefore(q, n + 1) = IdsBefore(r, n) \cup {q[1].id}
    <2>1. ASSUME NEW x \in IdsBefore(q, n + 1) PROVE x \in IdsBefore(r, n) \cup {q[1].id}
      <3>1. PICK i \in 1 .. n + 1 : x = q[i].id
        BY DEF IdsBefore
      <3>2. i = 1 \/ (i - 1 \in 1 .. n /\ r[i - 1] = q[i])
        BY <1>1
      <3> QED BY <3>1, <3>2 DEF IdsBefore
    <2>2. ASSUME NEW x \in IdsBefore(r, n) PROVE x \in IdsBefore(q, n + 1)
      <3>1. PICK i \in 1 .. n : x = r[i].id
        BY DEF IdsBefore
      <3>2. i + 1 \in 1 .. n + 1 /\ r[i] = q[i + 1]
        BY <1>1
      <3> QED BY <3>1, <3>2 DEF IdsBefore
    <2>3. q[1].id \in IdsBefore(q, n + 1)
      <3>1. 1 \in 1 .. n + 1
        BY <1>1
      <3> QED BY <3>1 DEF IdsBefore
    <2> QED BY <2>1, <2>2, <2>3
  <1>3. IdsOf(q) = IdsOf(r) \cup {q[1].id}
    <2>1. Len(r) \in 0 .. Len(q) - 1 /\ Len(r) + 1 = Len(q)
      BY <1>1
    <2> QED BY <1>2, <2>1 DEF IdsOf
  <1> QED BY <1>1, <1>2, <1>3 DEF r

LEMMA GivenAppend ==
  ASSUME socket.given \in Seq(Msgs), NEW m \in Msgs, socket'.given = Append(socket.given, m),
         NEW class
  PROVE  /\ \A n \in 0 .. Len(socket.given) : GivenBefore(n, class)' = GivenBefore(n, class)
         /\ GivenIds(class)' = GivenIds(class) \cup (IF m.class = class THEN {m.id} ELSE {})
  <1> DEFINE g == socket.given
             r == socket'.given
  <1>1. PICK l \in Nat : l = Len(g)
    BY QueueFacts
  <1>2. /\ Len(r) = l + 1
        /\ \A i \in 1 .. l : r[i] = g[i]
        /\ r[l + 1] = m
    BY <1>1, AppendFacts
  <1>3. \A n, x : /\ x \in GivenBefore(n, class) <=> \E h \in 1 .. n : g[h].class = class /\ g[h].id = x
                  /\ x \in GivenBefore(n, class)' <=> \E h \in 1 .. n : r[h].class = class /\ r[h].id = x
    BY DEF GivenBefore
  <1>4. /\ \A x : x \in GivenIds(class) <=> x \in GivenBefore(l, class)
        /\ \A x : x \in GivenIds(class)' <=> \E h \in 1 .. l + 1 : r[h].class = class /\ r[h].id = x
    <2>1. \A x : x \in GivenIds(class)' <=> \E h \in 1 .. Len(r) : r[h].class = class /\ r[h].id = x
      BY DEF GivenIds, GivenBefore
    <2>2. \A x : x \in GivenIds(class) <=> x \in GivenBefore(l, class)
      BY <1>1 DEF GivenIds
    <2> QED BY <1>2, <2>1, <2>2
  <1> HIDE DEF g, r
  <1>5. ASSUME NEW n \in 0 .. l PROVE GivenBefore(n, class)' = GivenBefore(n, class)
    <2>1. \A i \in 1 .. n : r[i] = g[i]
      BY <1>2
    <2>2. \A x : x \in GivenBefore(n, class)' <=> x \in GivenBefore(n, class)
      BY <1>3, <2>1
    <2> QED BY <2>2
  <1>6. GivenIds(class)' = GivenIds(class) \cup (IF m.class = class THEN {m.id} ELSE {})
    <2>1. ASSUME NEW x \in GivenIds(class)'
          PROVE  x \in GivenIds(class) \/ (m.class = class /\ x = m.id)
      <3>1. PICK h \in 1 .. l + 1 : r[h].class = class /\ r[h].id = x
        BY <1>4
      <3>2. h = l + 1 \/ (h \in 1 .. l /\ r[h] = g[h])
        BY <1>2
      <3> QED BY <1>2, <1>3, <1>4, <3>1, <3>2
    <2>2. ASSUME NEW x \in GivenIds(class) PROVE x \in GivenIds(class)'
      <3>1. PICK h \in 1 .. l : g[h].class = class /\ g[h].id = x
        BY <1>3, <1>4
      <3>2. h \in 1 .. l + 1 /\ r[h] = g[h]
        BY <1>2
      <3> QED BY <1>4, <3>1, <3>2
    <2>3. m.class = class => m.id \in GivenIds(class)'
      <3>1. l + 1 \in 1 .. l + 1
        OBVIOUS
      <3> QED BY <1>2, <1>4, <3>1
    <2> QED BY <2>1, <2>2, <2>3
  <1> QED BY <1>1, <1>5, <1>6 DEF g

-----------------------------------------------------------------------------
(* What is read, queued and given keeps its turn.                           *)

\* q are the next messages of their class, behind ids.
Follow(q, class, ids) ==
    \A j \in 1 .. Len(q) : q[j].class = class /\ IsNext(q[j], ids \cup IdsBefore(q, j - 1))

LEMMA FollowAppend ==
  ASSUME NEW q \in Seq(Msgs), NEW class, NEW ids, Follow(q, class, ids),
         NEW m \in Msgs, m.class = class, IsNext(m, ids \cup IdsOf(q))
  PROVE  Follow(Append(q, m), class, ids)
  <1> DEFINE r == Append(q, m)
  <1>1. /\ Len(q) \in Nat /\ Len(r) = Len(q) + 1
        /\ \A i \in 1 .. Len(q) : r[i] = q[i]
        /\ r[Len(q) + 1] = m
    BY QueueFacts, AppendFacts
  <1>2. \A n \in 0 .. Len(q) : IdsBefore(r, n) = IdsBefore(q, n)
    BY IdsAppend
  <1> HIDE DEF r
  <1> SUFFICES ASSUME NEW j \in 1 .. Len(r)
               PROVE  r[j].class = class /\ IsNext(r[j], ids \cup IdsBefore(r, j - 1))
    BY DEF Follow, r
  <1>3. IdsBefore(r, j - 1) = IdsBefore(q, j - 1)
    BY <1>1, <1>2
  <1>4. CASE j \in 1 .. Len(q)
    BY <1>1, <1>3, <1>4 DEF Follow
  <1>5. CASE j = Len(q) + 1
    <2>1. j - 1 = Len(q)
      BY <1>1, <1>5
    <2> QED BY <1>1, <1>3, <1>5, <2>1 DEF IdsOf
  <1> QED BY <1>1, <1>4, <1>5

LEMMA FollowTail ==
  ASSUME NEW q \in Seq(Msgs), q # << >>, NEW class, NEW ids, Follow(q, class, ids)
  PROVE  /\ Head(q).class = class /\ IsNext(Head(q), ids)
         /\ Follow(Tail(q), class, ids \cup {Head(q).id})
  <1> DEFINE r == Tail(q)
  <1>1. /\ Len(q) \in Nat /\ Len(q) >= 1 /\ Len(r) = Len(q) - 1 /\ Head(q) = q[1]
        /\ \A i \in 1 .. Len(q) - 1 : r[i] = q[i + 1]
    BY QueueFacts
  <1>2. \A n \in 0 .. Len(q) - 1 : IdsBefore(q, n + 1) = IdsBefore(r, n) \cup {q[1].id}
    BY <1>1, IdsTail
  <1> HIDE DEF r
  <1>3. q[1].class = class /\ IsNext(q[1], ids)
    <2>1. 1 \in 1 .. Len(q) /\ 1 - 1 = 0
      BY <1>1
    <2>2. IdsBefore(q, 0) = {}
      BY DEF IdsBefore
    <2>3. ids \cup IdsBefore(q, 0) = ids
      BY <2>2
    <2> QED BY <2>1, <2>3 DEF Follow
  <1>4. ASSUME NEW j \in 1 .. Len(r)
        PROVE  r[j].class = class /\ IsNext(r[j], (ids \cup {q[1].id}) \cup IdsBefore(r, j - 1))
    <2>1. j + 1 \in 1 .. Len(q) /\ r[j] = q[j + 1] /\ j - 1 \in 0 .. Len(q) - 1 /\ (j - 1) + 1 = (j + 1) - 1
      BY <1>1
    <2>2. IdsBefore(q, (j + 1) - 1) = IdsBefore(r, j - 1) \cup {q[1].id}
      BY <1>2, <2>1
    <2>3. ids \cup IdsBefore(q, (j + 1) - 1) = (ids \cup {q[1].id}) \cup IdsBefore(r, j - 1)
      BY <2>2
    <2>4. q[j + 1].class = class /\ IsNext(q[j + 1], ids \cup IdsBefore(q, (j + 1) - 1))
      BY <2>1 DEF Follow
    <2> QED BY <2>1, <2>3, <2>4
  <1> QED BY <1>1, <1>3, <1>4 DEF Follow, r

\* The parts of Content, before a step and behind one that leaves the flow.
LEMMA ContentParts ==
  /\ QueuedInTurn(socket.rcv, "control") <=> Follow(socket.rcv, "control", GivenIds("control"))
  /\ QueuedInTurn(socket.saved, "data") <=> Follow(socket.saved, "data", GivenIds("data"))
  /\ socket'.flow = socket.flow =>
       /\ QueuedInTurn(socket.rcv, "control")' <=> Follow(socket'.rcv, "control", GivenIds("control")')
       /\ QueuedInTurn(socket.saved, "data")' <=> Follow(socket'.saved, "data", GivenIds("data")')
  BY DEF QueuedInTurn, Follow, GivenIds, IsNext, Msg, Earlier

LEMMA FlowStays ==
  ASSUME socket'.flow = socket.flow
  PROVE  /\ \A i, class : Earlier(i, class)' = Earlier(i, class)
         /\ \A m, ids : IsNext(m, ids)' <=> IsNext(m, ids)
         /\ \A i : Msg(i)' = Msg(i)
  BY DEF Earlier, IsNext, Msg

LEMMA GivenStays ==
  ASSUME socket'.flow = socket.flow, socket'.given = socket.given
  PROVE  /\ \A n, class : GivenBefore(n, class)' = GivenBefore(n, class)
         /\ \A class : GivenIds(class)' = GivenIds(class)
         /\ GivenInTurn' <=> GivenInTurn
  BY DEF GivenBefore, GivenIds, GivenInTurn, IsNext, Msg, Earlier

\* A step that leaves what was read whole.
LEMMA ContentStays ==
  ASSUME Content, socket'.flow = socket.flow, socket'.given = socket.given,
         socket'.rcv = socket.rcv, socket'.saved = socket.saved,
         Done' = Done
  PROVE  Content'
  <1>1. Kept'
    BY FlowStays, GivenStays DEF Content, Kept, IdsOf, IdsBefore
  <1>2. GivenInTurn' /\ QueuedInTurn(socket.rcv, "control")' /\ QueuedInTurn(socket.saved, "data")'
    BY GivenStays, ContentParts DEF Content
  <1> QED BY <1>1, <1>2 DEF Content

\* The message that was read to its end is the next of its class.
LEMMA CurrentIsNext ==
  ASSUME Content, socket \in Sockets, Done \in Nat, Done < Len(socket.flow)
  PROVE  /\ Current \in Msgs /\ Current.id = Done + 1 /\ Current.id \in 1 .. Len(socket.flow)
         /\ Current.class = "control" => IsNext(Current, GivenIds("control") \cup IdsOf(socket.rcv))
         /\ Current.class = "data" => IsNext(Current, GivenIds("data") \cup IdsOf(socket.saved))
         /\ \A class : Earlier(Done + 2, class) =
                         Earlier(Done + 1, class) \cup (IF Current.class = class THEN {Current.id} ELSE {})
  <1>1. Current = [id |-> Done + 1, class |-> socket.flow[Done + 1]] /\ Done + 1 \in 1 .. Len(socket.flow)
    BY DEF Current, Msg, Done
  <1>2. socket.flow[Done + 1] \in Classes
    BY <1>1 DEF Sockets
  <1>3. Current \in Msgs /\ Current.id = Done + 1 /\ Current.class = socket.flow[Done + 1]
    BY <1>1, <1>2 DEF Msgs
  <1>4. Current = Msg(Done + 1)
    BY DEF Current, Done
  <1>5. \A class : Earlier(Done + 2, class) =
                     Earlier(Done + 1, class) \cup (IF Current.class = class THEN {Current.id} ELSE {})
    <2>1. 1 .. Done + 2 - 1 = (1 .. Done + 1 - 1) \cup {Done + 1}
      OBVIOUS
    <2> QED BY <1>3, <2>1 DEF Earlier
  <1> HIDE DEF Done
  <1>6. Current.class = "control" => IsNext(Current, GivenIds("control") \cup IdsOf(socket.rcv))
    BY <1>1, <1>3, <1>4 DEF Content, Kept, IsNext
  <1>7. Current.class = "data" => IsNext(Current, GivenIds("data") \cup IdsOf(socket.saved))
    BY <1>1, <1>3, <1>4 DEF Content, Kept, IsNext
  <1> QED BY <1>1, <1>3, <1>5, <1>6, <1>7

LEMMA GivenNext ==
  ASSUME socket \in Sockets, GivenInTurn, socket'.flow = socket.flow,
         NEW m \in Msgs, socket'.given = Append(socket.given, m), IsNext(m, GivenIds(m.class)),
         m.class = "data" => Earlier(m.id, "control") \subseteq GivenIds("control")
  PROVE  GivenInTurn'
  <1> DEFINE g == socket.given
             r == socket'.given
  <1>1. socket.given \in Seq(Msgs)
    BY DEF Sockets
  <1>2. PICK l \in Nat : l = Len(g)
    BY <1>1, QueueFacts
  <1>3. /\ Len(r) = l + 1
        /\ \A i \in 1 .. l : r[i] = g[i]
        /\ r[l + 1] = m
    BY <1>1, <1>2, AppendFacts
  <1>4. \A class : \A n \in 0 .. l : GivenBefore(n, class)' = GivenBefore(n, class)
    BY <1>1, <1>2, GivenAppend
  <1>5. \A class : GivenIds(class) = GivenBefore(l, class)
    BY <1>2 DEF GivenIds
  <1>6. ASSUME NEW j \in 1 .. l + 1
        PROVE  /\ IsNext(r[j], GivenBefore(j - 1, r[j].class))
               /\ r[j].class = "data" => Earlier(r[j].id, "control") \subseteq GivenBefore(j - 1, "control")
    <2>1. CASE j \in 1 .. l
      BY <1>2, <1>3, <2>1 DEF GivenInTurn
    <2>2. CASE j = l + 1
      <3>1. j - 1 = l
        BY <2>2
      <3> QED BY <1>3, <1>5, <2>2, <3>1
    <2>3. j \in 1 .. l \/ j = l + 1
      OBVIOUS
    <2> QED BY <2>1, <2>2, <2>3
  <1>7. \A j \in 1 .. l + 1 : \A class : GivenBefore(j - 1, class)' = GivenBefore(j - 1, class)
    <2>1. \A j \in 1 .. l + 1 : j - 1 \in 0 .. l
      OBVIOUS
    <2> QED BY <1>4, <2>1
  <1>8. ASSUME NEW j \in 1 .. Len(r), NEW x, x = r[j]
        PROVE  /\ IsNext(x, GivenBefore(j - 1, x.class))'
               /\ x.class = "data" => (Earlier(x.id, "control") \subseteq GivenBefore(j - 1, "control"))'
    <2>1. j \in 1 .. l + 1
      BY <1>3
    <2>2. \A class : GivenBefore(j - 1, class)' = GivenBefore(j - 1, class)
      BY <1>7, <2>1
    <2>3. IsNext(x, GivenBefore(j - 1, x.class))' <=> IsNext(x, GivenBefore(j - 1, x.class)')
      BY DEF IsNext, Msg, Earlier
    <2> QED BY <1>6, <1>8, <2>1, <2>2, <2>3, FlowStays
  <1>9. \A j \in 1 .. Len(r) :
          /\ IsNext(socket.given[j], GivenBefore(j - 1, socket.given[j].class))'
          /\ r[j].class = "data" => (Earlier(socket.given[j].id, "control") \subseteq GivenBefore(j - 1, "control"))'
    BY <1>8 DEF IsNext, Msg, Earlier, GivenBefore
  <1> QED BY <1>9 DEF GivenInTurn

LEMMA ContentQueued ==
  ASSUME Content, socket \in Sockets, Done \in Nat, Done < Len(socket.flow), Done' = Done + 1,
         socket'.flow = socket.flow, socket'.given = socket.given,
         \/ /\ Current.class = "control" /\ socket'.rcv = Append(socket.rcv, Current)
            /\ socket'.saved = socket.saved
         \/ /\ Current.class = "data" /\ socket'.saved = Append(socket.saved, Current)
            /\ socket'.rcv = socket.rcv
  PROVE  Content'
  <1> DEFINE m == Current
  <1>1. /\ m \in Msgs /\ m.id = Done + 1
        /\ m.class = "control" => IsNext(m, GivenIds("control") \cup IdsOf(socket.rcv))
        /\ m.class = "data" => IsNext(m, GivenIds("data") \cup IdsOf(socket.saved))
        /\ \A class : Earlier(Done + 2, class) =
                        Earlier(Done + 1, class) \cup (IF m.class = class THEN {m.id} ELSE {})
    BY CurrentIsNext
  <1>2. socket.rcv \in Seq(Msgs) /\ socket.saved \in Seq(Msgs)
    BY DEF Sockets
  <1> HIDE DEF m
  <1>3. /\ \A class : GivenIds(class)' = GivenIds(class)
        /\ GivenInTurn'
    BY GivenStays DEF Content
  <1>4. /\ Follow(socket.rcv, "control", GivenIds("control"))
        /\ Follow(socket.saved, "data", GivenIds("data"))
    BY ContentParts DEF Content
  <1>5. /\ GivenIds("control") \cup IdsOf(socket.rcv) = Earlier(Done + 1, "control")
        /\ GivenIds("data") \cup IdsOf(socket.saved) = Earlier(Done + 1, "data")
    BY DEF Content, Kept
  <1>6. Kept' <=> /\ GivenIds("control")' \cup IdsOf(socket'.rcv) = Earlier(Done + 2, "control")
                  /\ GivenIds("data")' \cup IdsOf(socket'.saved) = Earlier(Done + 2, "data")
    <2>1. Done' + 1 = Done + 2
      OBVIOUS
    <2>2. Kept' <=> /\ GivenIds("control")' \cup IdsOf(socket'.rcv) = Earlier(Done' + 1, "control")
                    /\ GivenIds("data")' \cup IdsOf(socket'.saved) = Earlier(Done' + 1, "data")
      BY FlowStays DEF Kept, IdsOf, IdsBefore
    <2> QED BY <2>1, <2>2
  <1>7. CASE /\ m.class = "control" /\ socket'.rcv = Append(socket.rcv, m)
             /\ socket'.saved = socket.saved
    <2>1. Follow(socket'.rcv, "control", GivenIds("control"))
      BY <1>1, <1>2, <1>4, <1>7, FollowAppend
    <2>2. IdsOf(socket'.rcv) = IdsOf(socket.rcv) \cup {m.id}
      BY <1>1, <1>2, <1>7, IdsAppend
    <2>3. Earlier(Done + 2, "control") = Earlier(Done + 1, "control") \cup {m.id}
          /\ Earlier(Done + 2, "data") = Earlier(Done + 1, "data")
      BY <1>1, <1>7
    <2>4. Kept'
      BY <1>3, <1>5, <1>6, <1>7, <2>2, <2>3
    <2> QED BY <1>3, <1>4, <1>7, <2>1, <2>4, ContentParts DEF Content
  <1>8. CASE /\ m.class = "data" /\ socket'.saved = Append(socket.saved, m)
             /\ socket'.rcv = socket.rcv
    <2>1. Follow(socket'.saved, "data", GivenIds("data"))
      BY <1>1, <1>2, <1>4, <1>8, FollowAppend
    <2>2. IdsOf(socket'.saved) = IdsOf(socket.saved) \cup {m.id}
      BY <1>1, <1>2, <1>8, IdsAppend
    <2>3. Earlier(Done + 2, "data") = Earlier(Done + 1, "data") \cup {m.id}
          /\ Earlier(Done + 2, "control") = Earlier(Done + 1, "control")
      BY <1>1, <1>8
    <2>4. Kept'
      BY <1>3, <1>5, <1>6, <1>8, <2>2, <2>3
    <2> QED BY <1>3, <1>4, <1>8, <2>1, <2>4, ContentParts DEF Content
  <1> QED BY <1>7, <1>8 DEF m

LEMMA EmptyFacts ==
  /\ IdsOf(<< >>) = {} /\ \A class, ids : Follow(<< >>, class, ids)
  BY DEF IdsOf, IdsBefore, Follow

LEMMA ContentRead ==
  ASSUME Content, socket \in Sockets, Done \in Nat, Done < Len(socket.flow), Done' = Done + 1,
         socket'.flow = socket.flow, socket'.given = Append(socket.given, Current),
         socket'.rcv = socket.rcv, socket'.saved = socket.saved,
         socket.rcv = << >>, Current.class = "data" => socket.saved = << >>
  PROVE  Content'
  <1> DEFINE m == Current
  <1>1. /\ m \in Msgs /\ m.id = Done + 1
        /\ m.class = "control" => IsNext(m, GivenIds("control") \cup IdsOf(socket.rcv))
        /\ m.class = "data" => IsNext(m, GivenIds("data") \cup IdsOf(socket.saved))
        /\ \A class : Earlier(Done + 2, class) =
                        Earlier(Done + 1, class) \cup (IF m.class = class THEN {m.id} ELSE {})
    BY CurrentIsNext
  <1>2. socket.given \in Seq(Msgs) /\ m.class \in Classes
    BY <1>1 DEF Sockets, Msgs
  <1>3. \A class : GivenIds(class)' = GivenIds(class) \cup (IF m.class = class THEN {m.id} ELSE {})
    BY <1>1, <1>2, GivenAppend
  <1>4. Follow(socket.saved, "data", GivenIds("data"))
    BY ContentParts DEF Content
  <1>5. /\ GivenIds("control") \cup IdsOf(socket.rcv) = Earlier(Done + 1, "control")
        /\ GivenIds("data") \cup IdsOf(socket.saved) = Earlier(Done + 1, "data")
    BY DEF Content, Kept
  <1>6. IdsOf(socket.rcv) = {}
    BY EmptyFacts
  <1>7. m.class = "data" => IdsOf(socket.saved) = {}
    BY EmptyFacts DEF m
  <1>8. IsNext(m, GivenIds(m.class))
    <2>1. CASE m.class = "control"
      <3>1. GivenIds("control") \cup IdsOf(socket.rcv) = GivenIds("control")
        BY <1>6
      <3> QED BY <1>1, <2>1, <3>1
    <2>2. CASE m.class = "data"
      <3>1. GivenIds("data") \cup IdsOf(socket.saved) = GivenIds("data")
        BY <1>7, <2>2
      <3> QED BY <1>1, <2>2, <3>1
    <2> QED BY <1>2, <2>1, <2>2 DEF Classes
  <1>9. GivenInTurn'
    <2>1. Earlier(m.id, "control") \subseteq GivenIds("control")
      BY <1>1, <1>5, <1>6
    <2>2. GivenInTurn
      BY DEF Content
    <2> QED BY <1>1, <1>8, <2>1, <2>2, GivenNext DEF m
  <1>10. Kept' <=> /\ GivenIds("control")' \cup IdsOf(socket'.rcv) = Earlier(Done + 2, "control")
                   /\ GivenIds("data")' \cup IdsOf(socket'.saved) = Earlier(Done + 2, "data")
    <2>1. Done' + 1 = Done + 2
      OBVIOUS
    <2>2. Kept' <=> /\ GivenIds("control")' \cup IdsOf(socket'.rcv) = Earlier(Done' + 1, "control")
                    /\ GivenIds("data")' \cup IdsOf(socket'.saved) = Earlier(Done' + 1, "data")
      BY FlowStays DEF Kept, IdsOf, IdsBefore
    <2> QED BY <2>1, <2>2
  <1>11. m.class = "data" => Follow(socket.saved, "data", GivenIds("data")')
    BY EmptyFacts DEF m
  <1> HIDE DEF m
  <1>12. Kept'
    BY <1>1, <1>3, <1>5, <1>10
  <1>13. Follow(socket'.rcv, "control", GivenIds("control")')
    BY EmptyFacts
  <1>14. Follow(socket'.saved, "data", GivenIds("data")')
    <2>1. CASE m.class = "data"
      BY <1>11, <2>1
    <2>2. CASE m.class = "control"
      <3>1. GivenIds("data")' = GivenIds("data")
        BY <1>3, <2>2
      <3> QED BY <1>4, <3>1
    <2> QED BY <1>2, <2>1, <2>2 DEF Classes
  <1> QED BY <1>9, <1>12, <1>13, <1>14, ContentParts DEF Content

LEMMA EarlierStill ==
  ASSUME NEW d \in Nat, NEW class, NEW i \in Earlier(d + 1, class)
  PROVE  \A other : Earlier(i, other) \subseteq Earlier(d + 1, other)
  <1>1. i \in 1 .. d + 1 - 1
    BY DEF Earlier
  <1>2. \A h \in 1 .. i - 1 : h \in 1 .. d + 1 - 1
    BY <1>1
  <1> QED BY <1>2 DEF Earlier

LEMMA ContentHanded ==
  ASSUME Content, socket \in Sockets, Done' = Done,
         NEW m, socket'.flow = socket.flow, socket'.given = Append(socket.given, m),
         \/ /\ socket.rcv # << >> /\ m = Head(socket.rcv) /\ socket'.rcv = Tail(socket.rcv)
            /\ socket'.saved = socket.saved
         \/ /\ socket.saved # << >> /\ m = Head(socket.saved) /\ socket'.saved = Tail(socket.saved)
            /\ socket'.rcv = socket.rcv /\ socket.rcv = << >>
  PROVE  Content'
  <1>1. socket.rcv \in Seq(Msgs) /\ socket.saved \in Seq(Msgs) /\ socket.given \in Seq(Msgs)
    BY DEF Sockets
  <1>2. /\ Follow(socket.rcv, "control", GivenIds("control"))
        /\ Follow(socket.saved, "data", GivenIds("data"))
        /\ GivenInTurn
    BY ContentParts DEF Content
  <1>3. /\ GivenIds("control") \cup IdsOf(socket.rcv) = Earlier(Done + 1, "control")
        /\ GivenIds("data") \cup IdsOf(socket.saved) = Earlier(Done + 1, "data")
    BY DEF Content, Kept
  <1>4. Kept' <=> /\ GivenIds("control")' \cup IdsOf(socket'.rcv) = Earlier(Done + 1, "control")
                  /\ GivenIds("data")' \cup IdsOf(socket'.saved) = Earlier(Done + 1, "data")
    BY FlowStays DEF Kept, IdsOf, IdsBefore
  <1>5. m \in Msgs
    BY <1>1, QueueFacts
  <1>6. \A class : GivenIds(class)' = GivenIds(class) \cup (IF m.class = class THEN {m.id} ELSE {})
    BY <1>1, <1>5, GivenAppend
  <1>7. CASE /\ socket.rcv # << >> /\ m = Head(socket.rcv) /\ socket'.rcv = Tail(socket.rcv)
             /\ socket'.saved = socket.saved
    <2>1. /\ m.class = "control" /\ IsNext(m, GivenIds("control"))
          /\ Follow(socket'.rcv, "control", GivenIds("control") \cup {m.id})
      <3>1. /\ Head(socket.rcv).class = "control" /\ IsNext(Head(socket.rcv), GivenIds("control"))
            /\ Follow(Tail(socket.rcv), "control", GivenIds("control") \cup {Head(socket.rcv).id})
        BY <1>1, <1>2, <1>7, FollowTail
      <3> QED BY <1>7, <3>1
    <2>2. IdsOf(socket.rcv) = IdsOf(socket'.rcv) \cup {m.id}
      BY <1>1, <1>7, IdsTail
    <2>3. GivenIds("control")' = GivenIds("control") \cup {m.id} /\ GivenIds("data")' = GivenIds("data")
      BY <1>6, <2>1
    <2>4. GivenInTurn'
      BY <1>2, <1>5, <2>1, GivenNext
    <2>5. Kept'
      BY <1>3, <1>4, <1>7, <2>2, <2>3
    <2> QED BY <1>2, <1>7, <2>1, <2>3, <2>4, <2>5, ContentParts DEF Content
  <1>8. CASE /\ socket.saved # << >> /\ m = Head(socket.saved) /\ socket'.saved = Tail(socket.saved)
             /\ socket'.rcv = socket.rcv /\ socket.rcv = << >>
    <2>1. /\ m.class = "data" /\ IsNext(m, GivenIds("data"))
          /\ Follow(socket'.saved, "data", GivenIds("data") \cup {m.id})
      <3>1. /\ Head(socket.saved).class = "data" /\ IsNext(Head(socket.saved), GivenIds("data"))
            /\ Follow(Tail(socket.saved), "data", GivenIds("data") \cup {Head(socket.saved).id})
        BY <1>1, <1>2, <1>8, FollowTail
      <3> QED BY <1>8, <3>1
    <2>2. IdsOf(socket.saved) = IdsOf(socket'.saved) \cup {m.id}
      BY <1>1, <1>8, IdsTail
    <2>3. GivenIds("data")' = GivenIds("data") \cup {m.id} /\ GivenIds("control")' = GivenIds("control")
      BY <1>6, <2>1
    <2>4. Earlier(m.id, "control") \subseteq GivenIds("control")
      <3>1. IdsOf(socket.rcv) = {}
        BY <1>8, EmptyFacts
      <3>2. m.id \in Earlier(Done + 1, "data")
        BY <1>3, <2>2
      <3>3. Earlier(m.id, "control") \subseteq Earlier(Done + 1, "control")
        <4>1. Done \in Nat
          <5>1. socket.taken \in Nat
            BY DEF Sockets
          <5> QED BY <5>1 DEF Done, Parts
        <4> QED BY <3>2, <4>1, EarlierStill
      <3> QED BY <1>3, <3>1, <3>3
    <2>5. GivenInTurn'
      BY <1>2, <1>5, <2>1, <2>4, GivenNext
    <2>6. Kept'
      BY <1>3, <1>4, <1>8, <2>2, <2>3
    <2> QED BY <1>2, <1>8, <2>1, <2>3, <2>5, <2>6, ContentParts DEF Content
  <1> QED BY <1>7, <1>8

-----------------------------------------------------------------------------
(* The steps of a MessageSocket.                                            *)

\* The fields of a socket, and what was read of it.
LEMMA SocketFacts ==
  ASSUME socket \in Sockets
  PROVE  /\ socket.taken \in Nat /\ socket.come \in Nat /\ socket.pos \in Nat /\ socket.size \in Nat
         /\ Len(socket.flow) \in Nat /\ Room = 2 * Len(socket.flow) /\ Done \in Nat
         /\ socket.taken % Parts \in {0, 1}
         /\ socket.taken % Parts = 0 => socket.taken = 2 * Done
         /\ socket.taken % Parts = 1 => socket.taken = 2 * Done + 1
  <1>1. /\ socket.taken \in Nat /\ socket.come \in Nat /\ socket.pos \in Nat /\ socket.size \in Nat
        /\ socket.flow \in Seq(Classes)
    BY DEF Sockets
  <1>2. Len(socket.flow) \in Nat /\ Room = 2 * Len(socket.flow)
    BY <1>1 DEF Room, Parts
  <1>3. ASSUME NEW n \in Nat
        PROVE  /\ n \div 2 \in Nat /\ n % 2 \in {0, 1}
               /\ n % 2 = 0 => n = 2 * (n \div 2)
               /\ n % 2 = 1 => n = 2 * (n \div 2) + 1
    OBVIOUS
  <1> QED BY <1>1, <1>2, <1>3 DEF Done, Parts

\* A step that only takes a part of what has come, and perhaps its end.
LEMMA Halves ==
  ASSUME NEW n \in Nat
  PROVE  /\ n % 2 = 0 => (n + 1) \div 2 = n \div 2 /\ (n + 1) % 2 = 1
         /\ n % 2 = 1 => (n + 1) \div 2 = (n \div 2) + 1 /\ (n + 1) % 2 = 0
  OBVIOUS

\* The parts that only some of the fields are in.
LEMMA WritesStay ==
  ASSUME Writes, socket'.wsize = socket.wsize, socket'.write = socket.write, socket'.snd = socket.snd,
         socket'.out = socket.out, socket'.wpos = socket.wpos
  PROVE  Writes'
  BY DEF Writes

LEMMA InitSocket ==
  ASSUME MessageInit
  PROVE  SInv
  <1>0. PICK n \in 1 .. MaxMessages : \E flow \in [1 .. n -> Classes] :
         socket = [flow |-> flow, come |-> 0, taken |-> 0, parallel |-> FALSE,
                  size |-> 0, pos |-> 0, ok |-> FALSE, rcv |-> << >>, pend |-> 0,
                  saved |-> << >>, resp |-> FALSE, control |-> "none", raw |-> "none",
                  due |-> 0, given |-> << >>,
                  out |-> 0, snd |-> 0, wsize |-> 0, wpos |-> 0, write |-> "none",
                  broken |-> FALSE, failed |-> FALSE]
    BY DEF MessageInit
  <1>1. PICK flow \in [1 .. n -> Classes] :
         socket = [flow |-> flow, come |-> 0, taken |-> 0, parallel |-> FALSE,
                  size |-> 0, pos |-> 0, ok |-> FALSE, rcv |-> << >>, pend |-> 0,
                  saved |-> << >>, resp |-> FALSE, control |-> "none", raw |-> "none",
                  due |-> 0, given |-> << >>,
                  out |-> 0, snd |-> 0, wsize |-> 0, wpos |-> 0, write |-> "none",
                  broken |-> FALSE, failed |-> FALSE]
    BY <1>0
  <1>2. n \in Nat /\ flow \in Seq(Classes)
    OBVIOUS
  <1>3. socket \in Sockets
    BY <1>1, <1>2 DEF Sockets, Readers
  <1>4. Done = 0
    BY <1>1 DEF Done, Parts
  <1>5. Content
    <2>1. \A class : Earlier(Done + 1, class) = {}
      BY <1>4 DEF Earlier
    <2>2. \A class : GivenIds(class) = {}
      BY <1>1 DEF GivenIds, GivenBefore
    <2>3. socket.rcv = << >> /\ socket.saved = << >> /\ GivenInTurn
      BY <1>1 DEF GivenInTurn
    <2> QED BY <2>1, <2>2, <2>3, EmptyFacts, ContentParts DEF Content, Kept
  <1>6. InPlace /\ Turns /\ Writes /\ ~socket.failed
    <2>1. Room \in Nat
      BY <1>3, SocketFacts
    <2> QED BY <1>1, <2>1 DEF InPlace, Turns, Writes, Parts
  <1> QED BY <1>3, <1>5, <1>6 DEF SInv

-----------------------------------------------------------------------------
(* Before set_read_parallel.                                                *)

\* A step that leaves what was taken, queued and given, and the writes.
LEMMA FrameStays ==
  ASSUME SInv, socket'.flow = socket.flow, socket'.taken = socket.taken,
         socket'.given = socket.given, socket'.rcv = socket.rcv, socket'.saved = socket.saved,
         socket'.wsize = socket.wsize, socket'.write = socket.write, socket'.snd = socket.snd,
         socket'.out = socket.out, socket'.wpos = socket.wpos, socket'.failed = socket.failed
  PROVE  Room' = Room /\ Content' /\ Writes' /\ ~socket'.failed
  <1>1. Room' = Room /\ Done' = Done
    BY DEF Room, Done
  <1> QED BY <1>1, ContentStays, WritesStay DEF SInv

LEMMA StartControlStep ==
  ASSUME SInv, NEW style \in Styles, StartControl(style)
  PROVE  SInv'
  <1>0. socket \in Sockets
    BY DEF SInv
  <1>1. /\ socket' \in Sockets
        /\ socket'.flow = socket.flow /\ socket'.taken = socket.taken /\ socket'.come = socket.come
        /\ socket'.given = socket.given /\ socket'.rcv = socket.rcv /\ socket'.saved = socket.saved
        /\ socket'.wsize = socket.wsize /\ socket'.write = socket.write /\ socket'.snd = socket.snd
        /\ socket'.out = socket.out /\ socket'.wpos = socket.wpos /\ socket'.failed = socket.failed
        /\ socket'.parallel = socket.parallel /\ socket'.pend = socket.pend /\ socket'.resp = socket.resp
        /\ socket'.raw = socket.raw /\ socket'.due = socket.due /\ socket'.control = style
        /\ \/ socket.size = 0 /\ socket'.size = 1 /\ socket'.pos = 0 /\ socket'.ok = FALSE
           \/ /\ socket.size # 0
              /\ socket'.size = socket.size /\ socket'.pos = socket.pos /\ socket'.ok = socket.ok
    BY <1>0, ZenonT(30) DEF StartControl, Fresh, Sockets, Readers
  <1>2. Room' = Room /\ Content' /\ Writes' /\ ~socket'.failed
    BY <1>1, FrameStays
  <1>3. InPlace'
    BY <1>1, <1>2 DEF SInv, InPlace, Parts
  <1>4. Turns'
    BY <1>1 DEF SInv, Turns, StartControl
  <1> QED BY <1>1, <1>2, <1>3, <1>4 DEF SInv

LEMMA SetReadParallelStep ==
  ASSUME InUse, SInv, SetReadParallel
  PROVE  SInv'
  <1>0. socket \in Sockets
    BY DEF SInv
  <1>1. /\ socket' \in Sockets
        /\ socket'.flow = socket.flow /\ socket'.taken = socket.taken /\ socket'.come = socket.come
        /\ socket'.given = socket.given /\ socket'.rcv = socket.rcv /\ socket'.saved = socket.saved
        /\ socket'.wsize = socket.wsize /\ socket'.write = socket.write /\ socket'.snd = socket.snd
        /\ socket'.out = socket.out /\ socket'.wpos = socket.wpos /\ socket'.failed = socket.failed
        /\ socket'.parallel = TRUE /\ socket'.pend = socket.pend /\ socket'.resp = socket.resp
        /\ socket'.raw = socket.raw /\ socket'.due = socket.due /\ socket'.control = socket.control
        /\ socket'.size = socket.size /\ socket'.pos = socket.pos /\ socket'.ok = socket.ok
    BY <1>0 DEF SetReadParallel, Sockets
  <1>2. Room' = Room /\ Content' /\ Writes' /\ ~socket'.failed
    BY <1>1, FrameStays
  <1>3. InPlace'
    BY <1>1, <1>2 DEF SInv, InPlace
  <1>4. Turns'
    <2>1. ~socket.parallel /\ socket.size = 0
      BY DEF SetReadParallel, InUse
    <2> QED BY <1>1, <2>1 DEF SInv, Turns
  <1> QED BY <1>1, <1>2, <1>3, <1>4 DEF SInv

LEMMA RespondedStep ==
  ASSUME SInv, Responded
  PROVE  SInv'
  <1>0. socket \in Sockets
    BY DEF SInv
  <1>1. /\ socket' \in Sockets
        /\ socket'.flow = socket.flow /\ socket'.taken = socket.taken /\ socket'.come = socket.come
        /\ socket'.given = socket.given /\ socket'.rcv = socket.rcv /\ socket'.saved = socket.saved
        /\ socket'.wsize = socket.wsize /\ socket'.write = socket.write /\ socket'.snd = socket.snd
        /\ socket'.out = socket.out /\ socket'.wpos = socket.wpos /\ socket'.failed = socket.failed
        /\ socket'.parallel = socket.parallel /\ socket'.pend = socket.pend /\ socket'.resp = socket.resp
        /\ socket'.raw = socket.raw /\ socket'.control = "none"
        /\ socket'.size = socket.size /\ socket'.pos = socket.pos /\ socket'.ok = socket.ok
    <2>1. socket.due \in Nat
      BY <1>0 DEF Sockets
    <2>2. PICK d \in Nat : d = socket.due - 1
      BY <2>1 DEF Responded
    <2>3. socket' = [socket EXCEPT !.due = d, !.control = "none"]
      BY <2>2 DEF Responded
    <2> QED BY <1>0, <2>3 DEF Sockets, Readers
  <1>2. Room' = Room /\ Content' /\ Writes' /\ ~socket'.failed
    BY <1>1, FrameStays
  <1>3. InPlace'
    BY <1>1, <1>2 DEF SInv, InPlace
  <1>4. Turns'
    <2>1. socket.parallel
      BY <1>0 DEF SInv, Turns, Responded, Sockets
    <2> QED BY <1>1, <2>1 DEF SInv, Turns
  <1> QED BY <1>1, <1>2, <1>3, <1>4 DEF SInv

LEMMA ArriveStep ==
  ASSUME SInv, Arrive
  PROVE  SInv'
  <1>0. socket \in Sockets
    BY DEF SInv
  <1>1. /\ socket' \in Sockets
        /\ socket'.flow = socket.flow /\ socket'.taken = socket.taken /\ socket'.come = socket.come + 1
        /\ socket'.given = socket.given /\ socket'.rcv = socket.rcv /\ socket'.saved = socket.saved
        /\ socket'.wsize = socket.wsize /\ socket'.write = socket.write /\ socket'.snd = socket.snd
        /\ socket'.out = socket.out /\ socket'.wpos = socket.wpos /\ socket'.failed = socket.failed
        /\ socket'.parallel = socket.parallel /\ socket'.pend = socket.pend /\ socket'.resp = socket.resp
        /\ socket'.raw = socket.raw /\ socket'.due = socket.due /\ socket'.control = socket.control
        /\ socket'.size = socket.size /\ socket'.pos = socket.pos /\ socket'.ok = socket.ok
    <2>1. PICK c \in Nat : c = socket.come + 1
      BY <1>0, SocketFacts
    <2>2. socket' = [socket EXCEPT !.come = c]
      BY <2>1 DEF Arrive
    <2> QED BY <1>0, <2>1, <2>2 DEF Sockets
  <1>2. Room' = Room /\ Content' /\ Writes' /\ ~socket'.failed
    BY <1>1, FrameStays
  <1>3. InPlace'
    <2>1. socket.come \in Nat /\ socket.taken \in Nat /\ Room \in Nat /\ socket.come < Room
      BY <1>0, SocketFacts DEF Arrive
    <2> QED BY <1>1, <1>2, <2>1 DEF SInv, InPlace
  <1>4. Turns'
    BY <1>1 DEF SInv, Turns
  <1> QED BY <1>1, <1>2, <1>3, <1>4 DEF SInv

LEMMA BreakStep ==
  ASSUME SInv, Break
  PROVE  SInv'
  <1>0. socket \in Sockets
    BY DEF SInv
  <1>1. /\ socket' \in Sockets
        /\ socket'.flow = socket.flow /\ socket'.taken = socket.taken /\ socket'.come = socket.come
        /\ socket'.given = socket.given /\ socket'.rcv = socket.rcv /\ socket'.saved = socket.saved
        /\ socket'.wsize = socket.wsize /\ socket'.write = socket.write /\ socket'.snd = socket.snd
        /\ socket'.out = socket.out /\ socket'.wpos = socket.wpos /\ socket'.failed = socket.failed
        /\ socket'.parallel = socket.parallel /\ socket'.pend = socket.pend /\ socket'.resp = socket.resp
        /\ socket'.raw = socket.raw /\ socket'.due = socket.due /\ socket'.control = socket.control
        /\ socket'.size = socket.size /\ socket'.pos = socket.pos /\ socket'.ok = socket.ok
    BY <1>0 DEF Break, Sockets
  <1>2. Room' = Room /\ Content' /\ Writes' /\ ~socket'.failed
    BY <1>1, FrameStays
  <1>3. InPlace'
    BY <1>1, <1>2 DEF SInv, InPlace
  <1>4. Turns'
    BY <1>1 DEF SInv, Turns
  <1> QED BY <1>1, <1>2, <1>3, <1>4 DEF SInv

\* The parts a reader takes: one, and none only when nothing is there.
LEMMA OnePart ==
  ASSUME SInv, NEW k \in 0 .. Parts, k # 0, k <= Available(socket), k <= socket.size - socket.pos
  PROVE  /\ k = 1 /\ socket.taken + 1 <= socket.come /\ socket.size # 0
         /\ socket.size - socket.pos = 1
         /\ socket.size = 1 => socket.taken % Parts = 0 /\ ~socket.ok /\ socket.pos = 0
         /\ socket.size = Parts => socket.taken % Parts = 1 /\ socket.ok /\ socket.pos = 1
         /\ socket.size \in {1, Parts}
  <1>1. /\ socket.taken \in Nat /\ socket.come \in Nat /\ socket.pos \in Nat /\ socket.size \in Nat
    BY SocketFacts DEF SInv
  <1>2. socket.size # 0
    BY <1>1 DEF SInv, InPlace
  <1>3. /\ socket.size \in {1, Parts}
        /\ socket.size = 1 => socket.taken % Parts = 0 /\ ~socket.ok /\ socket.pos = 0
        /\ socket.size = Parts => socket.taken % Parts = 1 /\ socket.ok /\ socket.pos = 1
    BY <1>2 DEF SInv, InPlace
  <1>4. socket.size - socket.pos = 1
    BY <1>3 DEF Parts
  <1> QED BY <1>1, <1>2, <1>3, <1>4 DEF Parts, Available

\* What a part that is read leaves.
Around(s) ==
    /\ s.flow = socket.flow /\ s.come = socket.come /\ s.parallel = socket.parallel
    /\ s.wsize = socket.wsize /\ s.write = socket.write /\ s.snd = socket.snd
    /\ s.out = socket.out /\ s.wpos = socket.wpos

\* What becomes of the counts when a part is taken.
LEMMA PartTaken ==
  ASSUME SInv, socket'.flow = socket.flow, socket'.come = socket.come,
         socket'.taken = socket.taken + 1, socket.taken + 1 <= socket.come
  PROVE  /\ Room' = Room /\ socket'.taken <= socket'.come /\ socket'.come <= Room'
         /\ socket.taken % Parts = 0 => socket'.taken % Parts = 1 /\ Done' = Done
         /\ socket.taken % Parts = 1 => /\ socket'.taken % Parts = 0 /\ Done' = Done + 1
                                        /\ Done < Len(socket.flow) /\ Done \in Nat
  <1>0. socket \in Sockets
    BY DEF SInv
  <1>1. Room' = Room /\ Done' = (socket.taken + 1) \div 2 /\ socket'.taken % 2 = (socket.taken + 1) % 2
    BY DEF Room, Done, Parts
  <1>2. socket.come <= Room /\ Done = socket.taken \div 2 /\ Parts = 2
    BY DEF SInv, InPlace, Done, Parts
  <1>3. socket.taken \in Nat
    BY <1>0, SocketFacts
  <1>4. /\ socket.taken % 2 = 0 => (socket.taken + 1) \div 2 = socket.taken \div 2 /\ (socket.taken + 1) % 2 = 1
        /\ socket.taken % 2 = 1 => (socket.taken + 1) \div 2 = (socket.taken \div 2) + 1
                                   /\ (socket.taken + 1) % 2 = 0
    BY <1>3, Halves
  <1>5. ASSUME socket.taken % Parts = 1 PROVE Done < Len(socket.flow) /\ Done \in Nat
    <2>1. /\ Done \in Nat /\ Len(socket.flow) \in Nat /\ Room = 2 * Len(socket.flow)
          /\ socket.taken = 2 * Done + 1 /\ socket.come \in Nat
      BY <1>0, <1>5, SocketFacts
    <2>2. socket.come <= Room
      BY DEF SInv, InPlace
    <2>3. (2 * Done + 1) + 1 <= 2 * Len(socket.flow)
      BY <1>3, <2>1, <2>2
    <2> QED BY <2>1, <2>3
  <1> QED BY <1>1, <1>2, <1>4, <1>5

LEMMA ControlPartStep ==
  ASSUME SInv, NEW k \in 0 .. Parts, ControlPart(k)
  PROVE  SInv'
  <1>0. socket \in Sockets /\ socket.taken \in Nat /\ socket.pos \in Nat
    BY SocketFacts DEF SInv
  <1>1. CASE k = 0
    <2>1. socket' = [socket EXCEPT !.control = "none"]
      BY <1>1 DEF ControlPart
    <2>2. /\ socket' \in Sockets
          /\ socket'.flow = socket.flow /\ socket'.taken = socket.taken /\ socket'.come = socket.come
          /\ socket'.given = socket.given /\ socket'.rcv = socket.rcv /\ socket'.saved = socket.saved
          /\ socket'.wsize = socket.wsize /\ socket'.write = socket.write /\ socket'.snd = socket.snd
          /\ socket'.out = socket.out /\ socket'.wpos = socket.wpos /\ socket'.failed = socket.failed
          /\ socket'.parallel = socket.parallel /\ socket'.pend = socket.pend
          /\ socket'.resp = socket.resp
          /\ socket'.raw = socket.raw /\ socket'.due = socket.due /\ socket'.control = "none"
          /\ socket'.size = socket.size /\ socket'.pos = socket.pos /\ socket'.ok = socket.ok
      BY <1>0, <2>1 DEF Sockets, Readers
    <2>3. Room' = Room /\ Content' /\ Writes' /\ ~socket'.failed
      BY <2>2, FrameStays
    <2>4. InPlace' /\ Turns'
      BY <2>2, <2>3 DEF SInv, InPlace, Turns
    <2> QED BY <2>2, <2>3, <2>4 DEF SInv
  <1>2. CASE k # 0
    <2>1. /\ k = 1 /\ socket.taken + 1 <= socket.come /\ socket.size # 0
          /\ socket.size - socket.pos = 1
          /\ socket.size = 1 => socket.taken % Parts = 0 /\ ~socket.ok /\ socket.pos = 0
          /\ socket.size = Parts => socket.taken % Parts = 1 /\ socket.ok /\ socket.pos = 1
          /\ socket.size \in {1, Parts}
      BY <1>2, OnePart DEF ControlPart
    <2>2. PICK t \in Nat, p \in Nat : t = socket.taken + 1 /\ p = socket.pos + 1
      BY <1>0
    <2> DEFINE s == [socket EXCEPT !.taken = t, !.pos = p]
    <2>3. Moved(socket, k) = s
      BY <2>1, <2>2 DEF Moved
    <2>4. /\ s \in Sockets /\ Around(s) /\ s.failed = socket.failed
          /\ s.taken = t /\ s.pos = p /\ s.size = socket.size /\ s.ok = socket.ok
          /\ s.given = socket.given /\ s.rcv = socket.rcv /\ s.saved = socket.saved
          /\ s.pend = socket.pend /\ s.resp = socket.resp
          /\ s.raw = socket.raw /\ s.due = socket.due /\ s.control = socket.control
      BY <1>0, <2>2 DEF Sockets, Around
    <2>5. Whole(s)
      BY <1>0, <2>1, <2>2, <2>4 DEF Whole, Parts
    <2>6. /\ ~socket.parallel
          /\ socket' = IF ~socket.ok THEN Parsed(s)
                       ELSE IF Current.class = "data" THEN Saved(s, Current)
                       ELSE Idle(Give([s EXCEPT !.control = "none"], Current))
      BY <1>2, <2>3, <2>4, <2>5 DEF ControlPart
    <2> HIDE DEF s
    <2>7. ~socket.parallel /\ socket.rcv = << >> /\ socket.pend = 0 /\ ~socket.resp /\ socket.raw = "none" /\ socket.due = 0
      BY <2>6 DEF SInv, Turns, Around
    <2>8. CASE ~socket.ok
      <3>1. socket.size = 1 /\ socket.taken % Parts = 0
        BY <2>1, <2>8
      <3>2. socket' = [s EXCEPT !.size = 2, !.ok = TRUE] /\ p = 1
        BY <2>1, <2>2, <2>6, <2>8, <3>1 DEF Parsed, Parts
      <3>3. /\ socket' \in Sockets
            /\ Around(socket') /\ socket'.failed = socket.failed
            /\ socket'.taken = t
            /\ socket'.given = socket.given /\ socket'.rcv = socket.rcv /\ socket'.saved = socket.saved
            /\ socket'.pend = socket.pend /\ socket'.resp = socket.resp
            /\ socket'.raw = socket.raw /\ socket'.due = socket.due /\ socket'.control = socket.control
            /\ socket'.size = 2 /\ socket'.pos = 1 /\ socket'.ok = TRUE
        BY <2>4, <3>2 DEF Sockets, Around
      <3>4. /\ Room' = Room /\ socket'.taken <= socket'.come /\ socket'.come <= Room'
            /\ socket'.taken % Parts = 1 /\ Done' = Done
        BY <2>1, <3>1, <3>3, <2>2, PartTaken DEF Around
      <3>5. Content'
        BY <3>3, <3>4, ContentStays DEF SInv, Around
      <3>6. Writes'
        BY <3>3, WritesStay DEF SInv, Around
      <3>7. InPlace'
        BY <3>3, <3>4 DEF InPlace, Parts, Around
      <3>8. Turns'
        BY <2>7, <3>3 DEF SInv, Turns, Around
      <3> QED BY <3>3, <3>5, <3>6, <3>7, <3>8 DEF SInv
    <2>9. ASSUME socket.ok
          PROVE  /\ socket.size = Parts /\ socket.taken % Parts = 1
                 /\ Done \in Nat /\ Done < Len(socket.flow) /\ Current \in Msgs
      <3>1. socket.size = Parts /\ socket.taken % Parts = 1
        BY <2>1, <2>9
      <3>2. socket.taken = 2 * Done + 1 /\ Done \in Nat /\ Len(socket.flow) \in Nat /\ Room = 2 * Len(socket.flow)
        BY <1>0, <3>1, SocketFacts
      <3>3. socket.taken + 1 <= Room
        <4>1. socket.come <= Room /\ socket.come \in Nat /\ Room \in Nat
          BY <1>0, <3>2, SocketFacts DEF SInv, InPlace
        <4> QED BY <1>0, <2>1, <4>1
      <3>4. Done < Len(socket.flow)
        BY <3>2, <3>3
      <3>5. Current \in Msgs
        BY <1>0, <3>2, <3>4, CurrentIsNext DEF SInv
      <3> QED BY <3>1, <3>2, <3>4, <3>5
    <2>10. CASE socket.ok /\ Current.class = "data"
      <3>1. socket' = [s EXCEPT !.saved = Append(socket.saved, Current), !.size = 1, !.pos = 0, !.ok = FALSE]
        <4>1. s.saved = socket.saved
          BY <1>0 DEF s, Sockets
        <4>2. socket' = Saved(s, Current)
          BY <2>6, <2>10
        <4> QED BY <4>1, <4>2 DEF Saved, Fresh
      <3>2. Append(socket.saved, Current) \in Seq(Msgs)
        <4>1. socket.saved \in Seq(Msgs)
          BY <1>0 DEF Sockets
        <4> QED BY <2>9, <2>10, <4>1, AppendFacts
      <3>3. /\ socket' \in Sockets
            /\ Around(socket') /\ socket'.failed = socket.failed
            /\ socket'.taken = t
            /\ socket'.given = socket.given /\ socket'.rcv = socket.rcv
            /\ socket'.saved = Append(socket.saved, Current)
            /\ socket'.pend = socket.pend /\ socket'.resp = socket.resp
            /\ socket'.raw = socket.raw /\ socket'.due = socket.due /\ socket'.control = socket.control
            /\ socket'.size = 1 /\ socket'.pos = 0 /\ socket'.ok = FALSE
        BY <2>4, <3>1, <3>2 DEF Sockets, Around
      <3>4. /\ Room' = Room /\ socket'.taken <= socket'.come /\ socket'.come <= Room'
            /\ socket'.taken % Parts = 0 /\ Done' = Done + 1
        BY <2>1, <2>9, <2>10, <3>3, <2>2, PartTaken DEF Around
      <3>5. Content'
        BY <1>0, <2>9, <2>10, <3>3, <3>4, ContentQueued DEF SInv, Around
      <3>6. Writes'
        BY <3>3, WritesStay DEF SInv, Around
      <3>7. InPlace'
        BY <3>3, <3>4 DEF InPlace, Parts, Around
      <3>8. Turns'
        BY <2>7, <3>3 DEF SInv, Turns, Around
      <3> QED BY <3>3, <3>5, <3>6, <3>7, <3>8 DEF SInv
    <2>11. CASE socket.ok /\ Current.class # "data"
      <3>1. socket' = [s EXCEPT !.control = "none", !.given = Append(socket.given, Current), !.size = 0]
        <4>1. s.given = socket.given
          BY <1>0 DEF s, Sockets
        <4>2. socket' = Idle(Give([s EXCEPT !.control = "none"], Current))
          BY <2>6, <2>11
        <4>3. [s EXCEPT !.control = "none"].given = socket.given
          BY <2>4, <4>1 DEF Sockets
        <4> QED BY <4>2, <4>3 DEF Idle, Give
      <3>2. Append(socket.given, Current) \in Seq(Msgs)
        <4>1. socket.given \in Seq(Msgs)
          BY <1>0 DEF Sockets
        <4> QED BY <2>9, <2>11, <4>1, AppendFacts
      <3>3. /\ socket' \in Sockets
            /\ Around(socket') /\ socket'.failed = socket.failed
            /\ socket'.taken = t
            /\ socket'.given = Append(socket.given, Current) /\ socket'.rcv = socket.rcv
            /\ socket'.saved = socket.saved
            /\ socket'.pend = socket.pend /\ socket'.resp = socket.resp
            /\ socket'.raw = socket.raw /\ socket'.due = socket.due /\ socket'.control = "none"
            /\ socket'.size = 0
        BY <2>4, <3>1, <3>2 DEF Sockets, Readers, Around
      <3>4. /\ Room' = Room /\ socket'.taken <= socket'.come /\ socket'.come <= Room'
            /\ socket'.taken % Parts = 0 /\ Done' = Done + 1
        BY <2>1, <2>9, <2>11, <3>3, <2>2, PartTaken DEF Around
      <3>5. Content'
        BY <1>0, <2>7, <2>9, <2>11, <3>3, <3>4, ContentRead DEF SInv, Around
      <3>6. Writes'
        BY <3>3, WritesStay DEF SInv, Around
      <3>7. InPlace'
        BY <3>3, <3>4 DEF InPlace, Parts, Around
      <3>8. Turns'
        BY <2>7, <3>3 DEF SInv, Turns, Around
      <3> QED BY <3>3, <3>5, <3>6, <3>7, <3>8 DEF SInv
    <2> QED BY <2>8, <2>10, <2>11
  <1> QED BY <1>1, <1>2

-----------------------------------------------------------------------------
(* Behind set_read_parallel.                                                *)

\* No control message is queued when the data reader may go on.
LEMMA NoneFirst ==
  ASSUME SInv, ~ControlFirst
  PROVE  socket.rcv = << >>
  <1>1. socket.rcv \in Seq(Msgs) /\ socket.pend \in Nat
    BY DEF SInv, Sockets
  <1>2. Len(socket.rcv) \in Nat /\ Len(socket.rcv) <= socket.pend /\ socket.pend <= 0
    BY <1>1, QueueFacts DEF SInv, Turns, ControlFirst
  <1>3. Len(socket.rcv) = 0
    BY <1>1, <1>2
  <1> QED BY <1>1, <1>3, QueueFacts

LEMMA TakeSavedStep ==
  ASSUME SInv, TakeSaved
  PROVE  SInv'
  <1>0. socket \in Sockets /\ socket.saved \in Seq(Msgs) /\ socket.given \in Seq(Msgs)
    BY DEF SInv, Sockets
  <1>1. /\ socket.parallel /\ socket.raw = "none" /\ socket.saved # << >> /\ socket.rcv = << >>
        /\ socket' = [Give(socket, Head(socket.saved)) EXCEPT !.saved = Tail(@)]
    BY NoneFirst DEF TakeSaved
  <1>2. PICK m \in Msgs : m = Head(socket.saved)
    BY <1>0, <1>1, QueueFacts
  <1>3. Tail(socket.saved) \in Seq(Msgs) /\ Append(socket.given, m) \in Seq(Msgs)
    BY <1>0, <1>1, QueueFacts, AppendFacts
  <1>4. socket' = [socket EXCEPT !.given = Append(socket.given, m), !.saved = Tail(socket.saved)]
    BY <1>0, <1>1, <1>2 DEF Give, Sockets
  <1>5. /\ socket' \in Sockets /\ Around(socket') /\ socket'.failed = socket.failed
        /\ socket'.given = Append(socket.given, m) /\ socket'.saved = Tail(socket.saved)
        /\ socket'.taken = socket.taken /\ socket'.rcv = socket.rcv
        /\ socket'.pend = socket.pend /\ socket'.resp = socket.resp
        /\ socket'.raw = socket.raw /\ socket'.due = socket.due /\ socket'.control = socket.control
        /\ socket'.size = socket.size /\ socket'.pos = socket.pos /\ socket'.ok = socket.ok
    BY <1>0, <1>3, <1>4 DEF Sockets, Around
  <1>6. Done' = Done /\ Room' = Room
    BY <1>5 DEF Done, Room, Around
  <1>7. Content'
    BY <1>0, <1>1, <1>2, <1>5, <1>6, ContentHanded DEF SInv, Around
  <1>8. Writes'
    BY <1>5, WritesStay DEF SInv, Around
  <1>9. InPlace' /\ Turns'
    BY <1>1, <1>5, <1>6 DEF SInv, InPlace, Turns, Around
  <1> QED BY <1>5, <1>7, <1>8, <1>9 DEF SInv

LEMMA StartRawStep ==
  ASSUME SInv, NEW style \in Styles, StartRaw(style)
  PROVE  SInv'
  <1>0. socket \in Sockets
    BY DEF SInv
  <1>1. /\ socket' \in Sockets
        /\ socket'.flow = socket.flow /\ socket'.taken = socket.taken /\ socket'.come = socket.come
        /\ socket'.given = socket.given /\ socket'.rcv = socket.rcv /\ socket'.saved = socket.saved
        /\ socket'.wsize = socket.wsize /\ socket'.write = socket.write /\ socket'.snd = socket.snd
        /\ socket'.out = socket.out /\ socket'.wpos = socket.wpos /\ socket'.failed = socket.failed
        /\ socket'.parallel = socket.parallel /\ socket'.pend = socket.pend /\ socket'.resp = socket.resp
        /\ socket'.raw = style /\ socket'.due = socket.due /\ socket'.control = socket.control
        /\ \/ socket.size = 0 /\ socket'.size = 1 /\ socket'.pos = 0 /\ socket'.ok = FALSE
           \/ /\ socket.size # 0
              /\ socket'.size = socket.size /\ socket'.pos = socket.pos /\ socket'.ok = socket.ok
    BY <1>0 DEF StartRaw, Fresh, Sockets, Readers
  <1>2. Room' = Room /\ Content' /\ Writes' /\ ~socket'.failed
    BY <1>1, FrameStays
  <1>3. InPlace'
    BY <1>1, <1>2 DEF SInv, InPlace, Parts
  <1>4. Turns'
    <2>1. socket.parallel /\ socket.saved = << >> /\ socket.rcv = << >>
      BY NoneFirst DEF StartRaw
    <2> QED BY <1>1, <2>1 DEF SInv, Turns
  <1> QED BY <1>1, <1>2, <1>3, <1>4 DEF SInv

LEMMA ReadParallelStep ==
  ASSUME SInv, NEW style, ReadParallel(style)
  PROVE  SInv'
  <1>0. /\ socket \in Sockets /\ socket.rcv \in Seq(Msgs) /\ socket.given \in Seq(Msgs)
        /\ socket.pend \in Nat /\ socket.due \in Nat
    BY DEF SInv, Sockets
  <1>1. CASE socket.rcv # << >>
    <2>1. PICK m \in Msgs : m = Head(socket.rcv)
      BY <1>0, <1>1, QueueFacts
    <2>2. /\ Tail(socket.rcv) \in Seq(Msgs) /\ Append(socket.given, m) \in Seq(Msgs)
          /\ Len(socket.rcv) \in Nat /\ Len(socket.rcv) >= 1 /\ Len(Tail(socket.rcv)) = Len(socket.rcv) - 1
      BY <1>0, <1>1, QueueFacts, AppendFacts
    <2>3. Len(socket.rcv) <= socket.pend /\ socket.parallel
      BY DEF SInv, Turns, ReadParallel
    <2>4. PICK n \in Nat : n = socket.pend - 1 /\ Len(Tail(socket.rcv)) <= n /\ socket.pend > 0
      BY <1>0, <2>2, <2>3
    <2>5. PICK d \in Nat : d = socket.due + 1
      BY <1>0
    <2> DEFINE t == [socket EXCEPT !.rcv = Tail(socket.rcv), !.pend = n,
                                   !.failed = socket.failed, !.given = Append(socket.given, m)]
    <2>6. Give(Asserted(Popped(socket), socket.pend > 0), m) = t
      BY <1>0, <2>4 DEF Give, Asserted, Popped, Sockets
    <2>7. t \in Sockets /\ t.due = socket.due
      BY <1>0, <2>2 DEF Sockets
    <2>8. socket' = t \/ socket' = [t EXCEPT !.control = "async", !.due = d]
      BY <1>1, <2>1, <2>5, <2>6, <2>7 DEF ReadParallel
    <2>9. /\ Around(t) /\ t.failed = socket.failed /\ t.given = Append(socket.given, m)
          /\ t.saved = socket.saved /\ t.taken = socket.taken /\ t.rcv = Tail(socket.rcv)
          /\ t.pend = n /\ t.resp = socket.resp /\ t.raw = socket.raw
          /\ t.size = socket.size /\ t.pos = socket.pos /\ t.ok = socket.ok
      BY <1>0, <2>2 DEF Sockets, Around
    <2> HIDE DEF t
    <2>10. /\ socket' \in Sockets /\ Around(socket') /\ socket'.failed = socket.failed
           /\ socket'.given = Append(socket.given, m) /\ socket'.rcv = Tail(socket.rcv)
           /\ socket'.saved = socket.saved /\ socket'.taken = socket.taken /\ socket'.pend = n
           /\ socket'.resp = socket.resp /\ socket'.raw = socket.raw
           /\ socket'.size = socket.size /\ socket'.pos = socket.pos /\ socket'.ok = socket.ok
      <3>1. CASE socket' = t
        BY <2>7, <2>9, <3>1 DEF Around
      <3>2. CASE socket' = [t EXCEPT !.control = "async", !.due = d]
        BY <2>7, <2>9, <3>2 DEF Sockets, Around, Readers, Styles
      <3> QED BY <2>8, <3>1, <3>2
    <2>11. Done' = Done /\ Room' = Room
      BY <2>10 DEF Done, Room, Around
    <2>12. Content'
      BY <1>0, <1>1, <2>1, <2>10, <2>11, ContentHanded DEF SInv, Around
    <2>13. Writes'
      BY <2>10, WritesStay DEF SInv, Around
    <2>14. InPlace'
      BY <2>10, <2>11 DEF SInv, InPlace, Around
    <2>15. Turns'
      <3>1. socket.raw = "none"
        BY <1>1 DEF SInv, Turns
      <3>2. Len(socket'.rcv) <= socket'.pend
        BY <2>4, <2>10
      <3> QED BY <2>3, <2>10, <3>1, <3>2 DEF Turns, Around
    <2> QED BY <2>10, <2>12, <2>13, <2>14, <2>15 DEF SInv
  <1>2. CASE socket.rcv = << >>
    <2>1. /\ socket.parallel
          /\ socket' = [socket EXCEPT !.resp = TRUE, !.control = "async"]
      BY <1>2 DEF ReadParallel
    <2>2. /\ socket' \in Sockets
          /\ socket'.flow = socket.flow /\ socket'.taken = socket.taken /\ socket'.come = socket.come
          /\ socket'.given = socket.given /\ socket'.rcv = socket.rcv /\ socket'.saved = socket.saved
          /\ socket'.wsize = socket.wsize /\ socket'.write = socket.write /\ socket'.snd = socket.snd
          /\ socket'.out = socket.out /\ socket'.wpos = socket.wpos /\ socket'.failed = socket.failed
          /\ socket'.parallel = socket.parallel /\ socket'.pend = socket.pend
          /\ socket'.raw = socket.raw /\ socket'.due = socket.due
          /\ socket'.size = socket.size /\ socket'.pos = socket.pos /\ socket'.ok = socket.ok
      BY <1>0, <2>1 DEF Sockets, Readers, Styles
    <2>3. Room' = Room /\ Content' /\ Writes' /\ ~socket'.failed
      BY <2>2, FrameStays
    <2>4. InPlace' /\ Turns'
      BY <2>1, <2>2, <2>3 DEF SInv, InPlace, Turns
    <2> QED BY <2>2, <2>3, <2>4 DEF SInv
  <1> QED BY <1>1, <1>2

LEMMA RawPartStep ==
  ASSUME SInv, NEW k \in 0 .. Parts, RawPart(k)
  PROVE  SInv'
  <1>0. /\ socket \in Sockets /\ socket.taken \in Nat /\ socket.pos \in Nat
        /\ socket.given \in Seq(Msgs) /\ socket.pend \in Nat /\ socket.due \in Nat
    BY SocketFacts DEF SInv, Sockets
  <1>1. /\ socket.raw # "none" /\ socket.parallel = TRUE
        /\ socket.rcv = << >> /\ socket.saved = << >>
    BY <1>0 DEF SInv, Turns, RawPart, Sockets
  <1>2. CASE k = 0
    <2>1. socket' = [socket EXCEPT !.raw = "none"]
      BY <1>2 DEF RawPart
    <2>2. /\ socket' \in Sockets
          /\ socket'.flow = socket.flow /\ socket'.taken = socket.taken /\ socket'.come = socket.come
          /\ socket'.given = socket.given /\ socket'.rcv = socket.rcv /\ socket'.saved = socket.saved
          /\ socket'.wsize = socket.wsize /\ socket'.write = socket.write /\ socket'.snd = socket.snd
          /\ socket'.out = socket.out /\ socket'.wpos = socket.wpos /\ socket'.failed = socket.failed
          /\ socket'.parallel = socket.parallel /\ socket'.pend = socket.pend
          /\ socket'.resp = socket.resp
          /\ socket'.raw = "none" /\ socket'.due = socket.due /\ socket'.control = socket.control
          /\ socket'.size = socket.size /\ socket'.pos = socket.pos /\ socket'.ok = socket.ok
      BY <1>0, <2>1 DEF Sockets, Readers
    <2>3. Room' = Room /\ Content' /\ Writes' /\ ~socket'.failed
      BY <2>2, FrameStays
    <2>4. InPlace' /\ Turns'
      BY <1>1, <2>2, <2>3 DEF SInv, InPlace, Turns
    <2> QED BY <2>2, <2>3, <2>4 DEF SInv
  <1>3. CASE k # 0
    <2>1. /\ k = 1 /\ socket.taken + 1 <= socket.come /\ socket.size # 0
          /\ socket.size - socket.pos = 1
          /\ socket.size = 1 => socket.taken % Parts = 0 /\ ~socket.ok /\ socket.pos = 0
          /\ socket.size = Parts => socket.taken % Parts = 1 /\ socket.ok /\ socket.pos = 1
          /\ socket.size \in {1, Parts}
      BY <1>3, OnePart DEF RawPart
    <2>2. PICK t \in Nat, p \in Nat : t = socket.taken + 1 /\ p = socket.pos + 1
      BY <1>0
    <2> DEFINE s == [socket EXCEPT !.taken = t, !.pos = p]
               e == Idle([s EXCEPT !.raw = "none"])
    <2>3. Moved(socket, k) = s
      BY <2>1, <2>2 DEF Moved
    <2>4. /\ s \in Sockets /\ Around(s) /\ s.failed = socket.failed
          /\ s.taken = t /\ s.pos = p /\ s.size = socket.size /\ s.ok = socket.ok
          /\ s.given = socket.given /\ s.rcv = socket.rcv /\ s.saved = socket.saved
          /\ s.pend = socket.pend /\ s.resp = socket.resp
          /\ s.raw = socket.raw /\ s.due = socket.due /\ s.control = socket.control
      BY <1>0, <2>2 DEF Sockets, Around
    <2>5. Whole(s)
      BY <1>0, <2>1, <2>2, <2>4 DEF Whole, Parts
    <2>6. socket' = IF ~socket.ok THEN Parsed(s)
                    ELSE IF Current.class = "control" THEN ControlCame(e, Current)
                    ELSE Give(e, Current)
      BY <1>3, <2>3, <2>4, <2>5 DEF RawPart
    <2> HIDE DEF s
    <2>7. /\ e \in Sockets /\ Around(e) /\ e.failed = socket.failed
          /\ e.taken = t /\ e.size = 0
          /\ e.given = socket.given /\ e.rcv = << >> /\ e.saved = socket.saved
          /\ e.pend = socket.pend /\ e.resp = socket.resp /\ e.raw = "none"
          /\ e.due = socket.due /\ e.control = socket.control
      BY <1>1, <2>4 DEF Idle, Sockets, Readers, Around
    <2> HIDE DEF e
    <2>8. CASE ~socket.ok
      <3>1. socket.size = 1 /\ socket.taken % Parts = 0
        BY <2>1, <2>8
      <3>2. socket' = [s EXCEPT !.size = 2, !.ok = TRUE] /\ p = 1
        BY <2>1, <2>2, <2>6, <2>8, <3>1 DEF Parsed, Parts
      <3>3. /\ socket' \in Sockets
            /\ Around(socket') /\ socket'.failed = socket.failed
            /\ socket'.taken = t
            /\ socket'.given = socket.given /\ socket'.rcv = socket.rcv /\ socket'.saved = socket.saved
            /\ socket'.pend = socket.pend /\ socket'.resp = socket.resp
            /\ socket'.raw = socket.raw /\ socket'.due = socket.due /\ socket'.control = socket.control
            /\ socket'.size = 2 /\ socket'.pos = 1 /\ socket'.ok = TRUE
        BY <2>4, <3>2 DEF Sockets, Around
      <3>4. /\ Room' = Room /\ socket'.taken <= socket'.come /\ socket'.come <= Room'
            /\ socket'.taken % Parts = 1 /\ Done' = Done
        BY <2>1, <2>2, <3>1, <3>3, PartTaken DEF Around
      <3>5. Content'
        BY <3>3, <3>4, ContentStays DEF SInv, Around
      <3>6. Writes'
        BY <3>3, WritesStay DEF SInv, Around
      <3>7. InPlace'
        BY <3>3, <3>4 DEF InPlace, Parts, Around
      <3>8. Turns'
        BY <1>1, <3>3 DEF SInv, Turns, Around
      <3> QED BY <3>3, <3>5, <3>6, <3>7, <3>8 DEF SInv
    <2>9. ASSUME socket.ok
          PROVE  /\ socket.size = Parts /\ socket.taken % Parts = 1
                 /\ Done \in Nat /\ Done < Len(socket.flow) /\ Current \in Msgs
                 /\ Current.class \in Classes
      <3>1. socket.size = Parts /\ socket.taken % Parts = 1
        BY <2>1, <2>9
      <3>2. socket.taken = 2 * Done + 1 /\ Done \in Nat /\ Len(socket.flow) \in Nat /\ Room = 2 * Len(socket.flow)
        BY <1>0, <3>1, SocketFacts
      <3>3. socket.taken + 1 <= Room
        <4>1. socket.come <= Room /\ socket.come \in Nat /\ Room \in Nat
          BY <1>0, <3>2, SocketFacts DEF SInv, InPlace
        <4> QED BY <1>0, <2>1, <4>1
      <3>4. Done < Len(socket.flow)
        BY <3>2, <3>3
      <3>5. Current \in Msgs
        BY <1>0, <3>2, <3>4, CurrentIsNext DEF SInv
      <3> QED BY <3>1, <3>2, <3>4, <3>5 DEF Msgs
    \* the message is the caller's: the data reader's own, or the one a handler waits for
    <2>10. ASSUME NEW f \in Sockets, socket' = f,
                  socket.ok, Around(f), f.failed = socket.failed, f.taken = t, f.size = 0,
                  f.given = Append(socket.given, Current), f.rcv = << >>, f.saved = socket.saved,
                  f.raw = "none", f.pend \in Nat
           PROVE  SInv'
      <3>1. /\ Room' = Room /\ socket'.taken <= socket'.come /\ socket'.come <= Room'
            /\ socket'.taken % Parts = 0 /\ Done' = Done + 1
        BY <2>1, <2>2, <2>9, <2>10, PartTaken DEF Around
      <3>2. Content'
        BY <1>0, <1>1, <2>9, <2>10, <3>1, ContentRead DEF SInv, Around
      <3>3. Writes'
        BY <2>10, WritesStay DEF SInv, Around
      <3>4. InPlace'
        BY <2>10, <3>1 DEF InPlace, Parts, Around
      <3>5. Turns'
        <4>1. Len(socket'.rcv) = 0
          BY <2>10
        <4> QED BY <1>1, <2>10, <4>1 DEF Turns, Around
      <3> QED BY <2>10, <3>2, <3>3, <3>4, <3>5 DEF SInv
    <2>11. CASE socket.ok /\ Current.class = "control"
      <3>1. PICK n \in Nat : n = socket.pend + 1
        BY <1>0
      <3> DEFINE c == [e EXCEPT !.rcv = Append(socket.rcv, Current), !.pend = n]
                 q == Append(socket.rcv, Current)
      <3>2. q \in Seq(Msgs) /\ Len(q) = 1 /\ q[1] = Current
        BY <1>1, <2>9, <2>11
      <3>3. socket' = HandleReadMsg(c)
        BY <1>1, <2>6, <2>7, <2>11, <3>1 DEF ControlCame
      <3>4. /\ c \in Sockets /\ Around(c) /\ c.failed = socket.failed
            /\ c.taken = t /\ c.size = 0
            /\ c.given = socket.given /\ c.rcv = q /\ c.saved = socket.saved
            /\ c.pend = n /\ c.resp = socket.resp /\ c.raw = "none"
            /\ c.due = socket.due /\ c.control = socket.control
        <4> HIDE DEF q
        <4>1. c = [e EXCEPT !.rcv = q, !.pend = n]
          BY DEF q
        <4> HIDE DEF c
        <4> QED BY <2>7, <3>2, <4>1 DEF Sockets, Around
      <3> HIDE DEF c, q
      <3>5. CASE socket.resp
        <4>1. PICK d \in Nat : d = socket.due + 1
          BY <1>0
        <4>2. Append(socket.given, Current) \in Seq(Msgs)
          BY <1>0, <2>9, <2>11, AppendFacts
        <4> DEFINE f == [c EXCEPT !.failed = socket.failed, !.given = Append(socket.given, Current),
                                  !.rcv = << >>, !.due = d]
        <4>3. socket' = [Give(Asserted(c, Len(c.rcv) = 1), c.rcv[1]) EXCEPT !.rcv = << >>, !.due = @ + 1]
          BY <3>3, <3>4, <3>5 DEF HandleReadMsg
        <4>4. Len(c.rcv) = 1 /\ c.rcv[1] = Current
          BY <3>2, <3>4
        <4>5. Asserted(c, Len(c.rcv) = 1) = [c EXCEPT !.failed = socket.failed]
          BY <3>4, <4>4 DEF Asserted, Sockets
        <4>6. socket' = f
          BY <3>4, <4>1, <4>3, <4>4, <4>5 DEF Give, Sockets
        <4>7. /\ f \in Sockets /\ Around(f) /\ f.failed = socket.failed /\ f.taken = t /\ f.size = 0
              /\ f.given = Append(socket.given, Current) /\ f.rcv = << >> /\ f.saved = socket.saved
              /\ f.raw = "none" /\ f.pend \in Nat
          <5>0. PICK g \in Seq(Msgs) : g = Append(socket.given, Current)
            BY <4>2
          <5>1. PICK empty \in Seq(Msgs) : empty = << >>
            <6>1. << >> \in Seq(Msgs)
              OBVIOUS
            <6> QED BY <6>1
          <5>2. f = [c EXCEPT !.failed = socket.failed, !.given = g, !.rcv = empty, !.due = d]
            BY <5>0, <5>1
          <5> HIDE DEF f
          <5>3. /\ f \in Sockets /\ Around(f) /\ f.failed = socket.failed /\ f.taken = t /\ f.size = 0
                /\ f.given = g /\ f.rcv = empty /\ f.saved = socket.saved
                /\ f.raw = "none" /\ f.pend = n
            BY <3>4, <5>2 DEF Sockets, Around
          <5> QED BY <5>0, <5>1, <5>3
        <4> HIDE DEF f
        <4> QED BY <2>10, <2>11, <4>6, <4>7
      <3>6. CASE ~socket.resp
        <4>1. socket' = c
          BY <3>3, <3>4, <3>6 DEF HandleReadMsg
        <4>2. /\ Room' = Room /\ socket'.taken <= socket'.come /\ socket'.come <= Room'
              /\ socket'.taken % Parts = 0 /\ Done' = Done + 1
          BY <2>1, <2>2, <2>9, <2>11, <3>4, <4>1, PartTaken DEF Around
        <4>3. Content'
          BY <1>0, <2>9, <2>11, <3>4, <4>1, <4>2, ContentQueued DEF SInv, Around, q
        <4>4. Writes'
          BY <3>4, <4>1, WritesStay DEF SInv, Around
        <4>5. InPlace'
          BY <3>4, <4>1, <4>2 DEF InPlace, Parts, Around
        <4>6. Turns'
          <5>1. Len(socket'.rcv) <= socket'.pend
            <6>1. Len(socket'.rcv) = 1 /\ socket'.pend = n /\ n = socket.pend + 1
              BY <3>1, <3>2, <3>4, <4>1
            <6> QED BY <1>0, <6>1
          <5> QED BY <1>1, <3>4, <4>1, <5>1 DEF Turns, Around
        <4> QED BY <3>4, <4>1, <4>3, <4>4, <4>5, <4>6 DEF SInv
      <3> QED BY <3>5, <3>6
    <2>12. CASE socket.ok /\ Current.class # "control"
      <3>1. Append(socket.given, Current) \in Seq(Msgs)
        BY <1>0, <2>9, <2>12, AppendFacts
      <3> DEFINE f == [e EXCEPT !.given = Append(socket.given, Current)]
      <3>2. socket' = f
        BY <2>6, <2>7, <2>12 DEF Give
      <3>3. /\ f \in Sockets /\ Around(f) /\ f.failed = socket.failed /\ f.taken = t /\ f.size = 0
            /\ f.given = Append(socket.given, Current) /\ f.rcv = << >> /\ f.saved = socket.saved
            /\ f.raw = "none" /\ f.pend \in Nat
        BY <2>7, <3>1 DEF Sockets, Around
      <3> HIDE DEF f
      <3> QED BY <2>10, <2>12, <3>2, <3>3
    <2> QED BY <2>8, <2>11, <2>12
  <1> QED BY <1>2, <1>3

-----------------------------------------------------------------------------
(* The writer, and all the steps.                                           *)

\* A step of the writer leaves the readers.
LEMMA ReadersStay ==
  ASSUME SInv, socket' \in Sockets,
         socket'.flow = socket.flow, socket'.taken = socket.taken, socket'.come = socket.come,
         socket'.parallel = socket.parallel, socket'.size = socket.size, socket'.pos = socket.pos,
         socket'.ok = socket.ok, socket'.rcv = socket.rcv, socket'.pend = socket.pend,
         socket'.saved = socket.saved, socket'.resp = socket.resp, socket'.control = socket.control,
         socket'.raw = socket.raw, socket'.due = socket.due, socket'.given = socket.given,
         Writes', ~socket'.failed
  PROVE  SInv'
  <1>1. Done' = Done /\ Room' = Room
    BY DEF Done, Room
  <1>2. Content'
    BY <1>1, ContentStays DEF SInv
  <1>3. InPlace' /\ Turns'
    BY <1>1 DEF SInv, InPlace, Turns
  <1> QED BY <1>2, <1>3 DEF SInv

LEMMA StartWriteStep ==
  ASSUME SInv, NEW style \in Styles, StartWrite(style)
  PROVE  SInv'
  <1>0. socket \in Sockets
    BY DEF SInv
  <1>1. \/ /\ socket.wsize = 0 /\ socket.snd = 0 /\ socket.out % Parts = 0
           /\ socket' = [[socket EXCEPT !.failed = FALSE]
                           EXCEPT !.write = style, !.snd = 2, !.wsize = 2, !.wpos = 0]
        \/ socket.wsize # 0 /\ socket' = [socket EXCEPT !.write = style]
    BY <1>0 DEF StartWrite, Asserted, SInv, Writes, Parts, Sockets
  <1>2. /\ socket' \in Sockets
        /\ socket'.flow = socket.flow /\ socket'.taken = socket.taken /\ socket'.come = socket.come
        /\ socket'.parallel = socket.parallel /\ socket'.size = socket.size /\ socket'.pos = socket.pos
        /\ socket'.ok = socket.ok /\ socket'.rcv = socket.rcv /\ socket'.pend = socket.pend
        /\ socket'.saved = socket.saved /\ socket'.resp = socket.resp
        /\ socket'.control = socket.control
        /\ socket'.raw = socket.raw /\ socket'.due = socket.due /\ socket'.given = socket.given
        /\ socket'.out = socket.out /\ ~socket'.failed
        /\ \/ /\ socket.wsize = 0 /\ socket.snd = 0 /\ socket.out % Parts = 0
              /\ socket'.snd = 2 /\ socket'.wsize = 2 /\ socket'.wpos = 0
           \/ /\ socket.wsize # 0 /\ socket'.snd = socket.snd /\ socket'.wsize = socket.wsize
              /\ socket'.wpos = socket.wpos
    <2>1. ~socket.failed
      BY DEF SInv
    <2>2. CASE socket.wsize # 0 /\ socket' = [socket EXCEPT !.write = style]
      BY <1>0, <2>1, <2>2 DEF Sockets, Readers
    <2>3. CASE /\ socket.wsize = 0 /\ socket.snd = 0 /\ socket.out % Parts = 0
               /\ socket' = [[socket EXCEPT !.failed = FALSE]
                               EXCEPT !.write = style, !.snd = 2, !.wsize = 2, !.wpos = 0]
      <3> DEFINE u == [socket EXCEPT !.failed = FALSE]
      <3>1. /\ u \in Sockets /\ u.flow = socket.flow /\ u.taken = socket.taken /\ u.come = socket.come
            /\ u.parallel = socket.parallel /\ u.size = socket.size /\ u.pos = socket.pos
            /\ u.ok = socket.ok /\ u.rcv = socket.rcv /\ u.pend = socket.pend
            /\ u.saved = socket.saved /\ u.resp = socket.resp /\ u.control = socket.control
            /\ u.raw = socket.raw /\ u.due = socket.due /\ u.given = socket.given
            /\ u.out = socket.out /\ u.failed = FALSE
        BY <1>0 DEF Sockets
      <3>2. socket' = [u EXCEPT !.write = style, !.snd = 2, !.wsize = 2, !.wpos = 0]
        BY <2>3
      <3> HIDE DEF u
      <3>3. /\ socket' \in Sockets /\ socket'.flow = u.flow /\ socket'.taken = u.taken
            /\ socket'.come = u.come
            /\ socket'.parallel = u.parallel /\ socket'.size = u.size /\ socket'.pos = u.pos
            /\ socket'.ok = u.ok /\ socket'.rcv = u.rcv /\ socket'.pend = u.pend
            /\ socket'.saved = u.saved /\ socket'.resp = u.resp /\ socket'.control = u.control
            /\ socket'.raw = u.raw /\ socket'.due = u.due /\ socket'.given = u.given
            /\ socket'.out = u.out /\ socket'.failed = u.failed
            /\ socket'.snd = 2 /\ socket'.wsize = 2 /\ socket'.wpos = 0
        BY <3>1, <3>2 DEF Sockets, Readers
      <3> QED BY <2>3, <3>1, <3>3
    <2> QED BY <1>1, <2>2, <2>3
  <1>3. Writes'
    <2>1. /\ socket.wsize \in {0, Parts}
          /\ socket.wsize = Parts => /\ socket.snd \in 1 .. Parts /\ socket.wpos = Parts - socket.snd
                                     /\ socket.out % Parts = socket.wpos
      BY DEF SInv, Writes
    <2>2. CASE socket.wsize = 0
      <3>1. socket'.snd = 2 /\ socket'.wsize = 2 /\ socket'.wpos = 0 /\ socket'.out % Parts = 0
        BY <1>2, <2>2
      <3> QED BY <3>1 DEF Writes, Parts
    <2>3. CASE socket.wsize # 0
      BY <1>2, <2>1, <2>3 DEF Writes, Parts
    <2> QED BY <2>2, <2>3
  <1> QED BY <1>2, <1>3, ReadersStay

LEMMA WritePartStep ==
  ASSUME SInv, NEW k \in 0 .. Parts, WritePart(k)
  PROVE  SInv'
  <1>0. /\ socket \in Sockets /\ socket.out \in Nat /\ socket.wpos \in Nat /\ socket.snd \in Nat
        /\ ~socket.failed /\ k \in Nat
    BY DEF SInv, Sockets, Parts
  <1>1. /\ socket.wsize = 2 /\ socket.snd \in 1 .. 2 /\ socket.wpos = 2 - socket.snd
        /\ socket.out % 2 = socket.wpos
        /\ k \in 0 .. socket.snd
    BY DEF WritePart, SInv, Writes, Parts
  <1>2. PICK o \in Nat, n \in Nat, w \in Nat :
          o = socket.out + k /\ n = socket.snd - k /\ w = socket.wpos + k
    <2>1. socket.out + k \in Nat /\ socket.snd - k \in Nat /\ socket.wpos + k \in Nat
      BY <1>0, <1>1
    <2> QED BY <2>1
  <1> DEFINE s == [socket EXCEPT !.out = o, !.snd = n, !.wpos = w]
  <1>3. /\ s \in Sockets /\ s.out = o /\ s.snd = n /\ s.wpos = w /\ s.wsize = 2
        /\ s.flow = socket.flow /\ s.taken = socket.taken /\ s.come = socket.come
        /\ s.parallel = socket.parallel /\ s.size = socket.size /\ s.pos = socket.pos
        /\ s.ok = socket.ok /\ s.rcv = socket.rcv /\ s.pend = socket.pend
        /\ s.saved = socket.saved /\ s.resp = socket.resp /\ s.control = socket.control
        /\ s.raw = socket.raw /\ s.due = socket.due /\ s.given = socket.given
        /\ s.write = socket.write /\ s.failed = socket.failed
    BY <1>0, <1>1 DEF Sockets
  <1>4. socket' = IF s.wpos = s.wsize THEN WriteDone(s)
                  ELSE IF k = 0 THEN [socket EXCEPT !.write = "none"] ELSE s
    BY <1>2 DEF WritePart
  <1> HIDE DEF s
  <1>5. CASE w = 2
    <2>1. socket' = [s EXCEPT !.write = "none", !.wsize = 0]
      BY <1>3, <1>4, <1>5 DEF WriteDone
    <2>2. /\ socket' \in Sockets
          /\ socket'.flow = socket.flow /\ socket'.taken = socket.taken /\ socket'.come = socket.come
          /\ socket'.parallel = socket.parallel /\ socket'.size = socket.size
          /\ socket'.pos = socket.pos
          /\ socket'.ok = socket.ok /\ socket'.rcv = socket.rcv /\ socket'.pend = socket.pend
          /\ socket'.saved = socket.saved /\ socket'.resp = socket.resp
          /\ socket'.control = socket.control
          /\ socket'.raw = socket.raw /\ socket'.due = socket.due /\ socket'.given = socket.given
          /\ socket'.failed = socket.failed
          /\ socket'.out = o /\ socket'.snd = n /\ socket'.wsize = 0 /\ socket'.write = "none"
      BY <1>3, <2>1 DEF Sockets, Readers
    <2>3. n = 0 /\ o % 2 = 0
      <3>1. k = socket.snd
        BY <1>0, <1>1, <1>2, <1>5
      <3>2. n = 0
        BY <1>0, <1>2, <3>1
      <3>3. CASE socket.snd = 1
        <4>1. o = socket.out + 1 /\ socket.out % 2 = 1
          BY <1>0, <1>1, <1>2, <3>1, <3>3
        <4> QED BY <1>0, <3>2, <4>1
      <3>4. CASE socket.snd = 2
        <4>1. o = socket.out + 2 /\ socket.out % 2 = 0
          BY <1>0, <1>1, <1>2, <3>1, <3>4
        <4> QED BY <1>0, <3>2, <4>1
      <3> QED BY <1>0, <1>1, <3>3, <3>4
    <2>4. Writes'
      BY <2>2, <2>3 DEF Writes, Parts
    <2> QED BY <1>0, <2>2, <2>4, ReadersStay
  <1>6. CASE w # 2 /\ k = 0
    <2>1. socket' = [socket EXCEPT !.write = "none"]
      BY <1>3, <1>4, <1>6
    <2>2. /\ socket' \in Sockets
          /\ socket'.flow = socket.flow /\ socket'.taken = socket.taken /\ socket'.come = socket.come
          /\ socket'.parallel = socket.parallel /\ socket'.size = socket.size
          /\ socket'.pos = socket.pos
          /\ socket'.ok = socket.ok /\ socket'.rcv = socket.rcv /\ socket'.pend = socket.pend
          /\ socket'.saved = socket.saved /\ socket'.resp = socket.resp
          /\ socket'.control = socket.control
          /\ socket'.raw = socket.raw /\ socket'.due = socket.due /\ socket'.given = socket.given
          /\ socket'.failed = socket.failed
          /\ socket'.out = socket.out /\ socket'.snd = socket.snd /\ socket'.wsize = socket.wsize
          /\ socket'.wpos = socket.wpos
      BY <1>0, <2>1 DEF Sockets, Readers
    <2>3. Writes'
      BY <1>1, <2>2 DEF Writes, Parts
    <2> QED BY <1>0, <2>2, <2>3, ReadersStay
  <1>7. CASE w # 2 /\ k # 0
    <2>1. socket' = s
      BY <1>3, <1>4, <1>7
    <2>2. k = 1 /\ socket.snd = 2 /\ socket.wpos = 0 /\ n = 1 /\ w = 1
      BY <1>0, <1>1, <1>2, <1>7
    <2>3. o % 2 = 1
      <3>1. o = socket.out + 1 /\ socket.out % 2 = 0
        BY <1>1, <1>2, <2>2
      <3> QED BY <1>0, <3>1
    <2>4. Writes'
      BY <1>3, <2>1, <2>2, <2>3 DEF Writes, Parts
    <2> QED BY <1>0, <1>3, <2>1, <2>4, ReadersStay
  <1> QED BY <1>5, <1>6, <1>7

LEMMA MessageStep ==
  ASSUME InUse, SInv, MessageNext
  PROVE  SInv'
  <1>1. CASE Arrive
    BY <1>1, ArriveStep
  <1>2. CASE Reading
    <2>1. ASSUME NEW style \in Styles, StartControl(style) PROVE SInv'
      BY <2>1, StartControlStep
    <2>2. ASSUME NEW k \in 0 .. Parts, ControlPart(k) PROVE SInv'
      BY <2>2, ControlPartStep
    <2>3. CASE TakeSaved
      BY <2>3, TakeSavedStep
    <2>4. ASSUME NEW style \in Styles, StartRaw(style) PROVE SInv'
      BY <2>4, StartRawStep
    <2>5. ASSUME NEW k \in 0 .. Parts, RawPart(k) PROVE SInv'
      BY <2>5, RawPartStep
    <2>6. ASSUME NEW style \in Parallel, ReadParallel(style) PROVE SInv'
      BY <2>6, ReadParallelStep
    <2>7. CASE Responded
      BY <2>7, RespondedStep
    <2> QED BY <1>2, <2>1, <2>2, <2>3, <2>4, <2>5, <2>6, <2>7 DEF Reading
  <1>3. CASE SetReadParallel
    BY <1>3, SetReadParallelStep
  <1>4. ASSUME NEW style \in Styles, StartWrite(style) PROVE SInv'
    BY <1>4, StartWriteStep
  <1>5. ASSUME NEW k \in 0 .. Parts, WritePart(k) PROVE SInv'
    BY <1>5, WritePartStep
  <1>6. CASE Break
    BY <1>6, BreakStep
  <1> QED BY <1>1, <1>2, <1>3, <1>4, <1>5, <1>6 DEF MessageNext

-----------------------------------------------------------------------------
\* A behaviour of the composition is one of a MessageSocket or of a layer of rtmp.
MInv == socket # Absent => SInv

(* Each reader of a MessageSocket gets its messages once and in their order, a   *)
(* data message only behind the control messages before it, what is written is   *)
(* whole messages, and no assert fails, whatever the messages and the calls       *)
(* (MessageSocket.hpp:97, 98, 129).                                             *)
THEOREM ReadersInOrder == InUse => (Spec => []ReadersKeepOrder)
  <1> SUFFICES ASSUME InUse PROVE Spec => []ReadersKeepOrder
    OBVIOUS
  <1>1. Init => MInv
    BY InitSocket DEF Init, MInv
  <1>2. MInv /\ [Next]_<<socket, rtmp, shake>> => MInv'
    <2> SUFFICES ASSUME MInv, [Next]_<<socket, rtmp, shake>> PROVE MInv'
      OBVIOUS
    <2>1. CASE socket # Absent /\ MessageNext
      BY <2>1, MessageStep DEF MInv
    <2>2. CASE UNCHANGED socket
      <3>1. ASSUME SInv PROVE SInv'
        <4>1. Room' = Room /\ Content' /\ Writes' /\ ~socket'.failed
          BY <2>2, <3>1, FrameStays
        <4>2. socket' \in Sockets
          BY <2>2, <3>1 DEF SInv
        <4>3. InPlace' /\ Turns'
          BY <2>2, <3>1, <4>1 DEF SInv, InPlace, Turns
        <4> QED BY <4>1, <4>2, <4>3 DEF SInv
      <3> QED BY <2>2, <3>1 DEF MInv
    <2> QED BY <2>1, <2>2 DEF Next
  <1>3. MInv => ReadersKeepOrder
    BY DEF MInv, SInv, Content, Writes, ReadersKeepOrder, EachReaderItsOwn
  <1> QED BY <1>1, <1>2, <1>3, PTL DEF Spec
=============================================================================
