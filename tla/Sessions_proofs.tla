--------------------------- MODULE Sessions_proofs ---------------------------
(***************************************************************************)
(* Proofs about the two kinds of session the program keeps: the one with a *)
(* venue (VenueSession), for every set of callers, every number of         *)
(* requests, every limit of the outbound queue and any number of faults;   *)
(* and the one with a browser (LiveStream), for every ring, every backlog  *)
(* limit, any number of changes, connections and broadcasts.               *)
(***************************************************************************)
EXTENDS VenueSession, LiveStream, TLAPS

\* Messages and answers: a request carries the id of its caller, a ping is always the same.
VenueMessages == {m \in [kind : Kinds, id : Requests \cup {NoId}, live : BOOLEAN] :
                /\ m.kind = "request" => m.id \in Requests
                /\ m.kind = "ping" => m = Message("ping", NoId)}
Answers == {a \in [kind : Kinds, id : Requests \cup {NoId}, live : BOOLEAN, ok : BOOLEAN] :
                a.kind = "request" => a.id \in Requests}

\* The message at position i of a queue is of that kind; no message of it is.
Is(queue, i, kind) == queue[i].kind = kind
None(queue, kind) == \A i \in 1 .. Len(queue) : ~Is(queue, i, kind)
AtMostOne(queue, kind) ==
    \A i, j \in 1 .. Len(queue) : Is(queue, i, kind) /\ Is(queue, j, kind) => i = j

\* The types of the state.
TypeInv ==
    /\ ws \in [stage : {"connecting", "open", "waiting", "stopped"}, writing : BOOLEAN,
               timer : {"off", "idle", "timeout"}, awaiting : BOOLEAN]
    /\ posted \in Seq(VenueMessages) /\ outbound \in Seq(VenueMessages) /\ wire \in Seq(VenueMessages)
    /\ inbox \in Seq(Answers)
    /\ count \in Nat
    /\ peer \in [alive : BOOLEAN, loggedIn : BOOLEAN, accepted : BOOLEAN, refused : BOOLEAN]
    /\ adapter \in [subscribed : BOOLEAN, requested : BOOLEAN, error : BOOLEAN, clock : BOOLEAN]
    /\ told \in BOOLEAN
    /\ pending \subseteq Callers
    /\ caller \in [Callers -> [pc : {"idle", "sign", "again", "enlist", "send", "wait", "erase"}, n : Nat,
                               promise : {"none", "failed", "value"},
                               outcome : {"none", "unknown", "answered", "lost"}]]
    /\ clock \in {"idle", "name", "send", "joined"}
    /\ stopping \in {"no", "posted", "io", "done"}
    /\ written \in [Requests -> {0, 1}]

\* A write is in progress exactly while an open socket has something to write; stop() ends at a
\* closed socket.
WriteInv ==
    /\ ws.writing => ws.stage = "open"
    /\ ws.stage = "open" => (ws.writing <=> outbound # <<>>)
    /\ ws.stage = "stopped" <=> stopping \in {"io", "done"}

\* The counter is exact; only a ping may exceed the limit, and there is one at most.
CountInv ==
    /\ count = Len(posted) + Len(outbound)
    /\ None(posted, "ping") /\ AtMostOne(outbound, "ping")
    /\ count <= MaxOutbound \/ (count = MaxOutbound + 1 /\ ~None(outbound, "ping"))

\* The request was given to send(): its number is that of an earlier call of its caller, or of the
\* present one when this has come so far.
Issued(r) ==
    \/ r[2] < caller[r[1]].n
    \/ r[2] = caller[r[1]].n /\ caller[r[1]].pc \notin {"sign", "again", "enlist", "send"}

\* A queue holds no request twice, and only issued ones.
RequestsOnce(queue) ==
    /\ \A i, j \in 1 .. Len(queue) :
          Is(queue, i, "request") /\ Is(queue, j, "request") /\ queue[i].id = queue[j].id => i = j
    /\ \A i \in 1 .. Len(queue) : Is(queue, i, "request") => Issued(queue[i].id)

\* Only the message in the hands of the socket has been written.
WrittenInv ==
    /\ RequestsOnce(posted) /\ RequestsOnce(outbound)
    /\ \A i \in 1 .. Len(posted), j \in 1 .. Len(outbound) :
          Is(posted, i, "request") /\ Is(outbound, j, "request") => posted[i].id # outbound[j].id
    /\ \A r \in Requests : written[r] = 1 => Issued(r)
    /\ \A i \in 1 .. Len(posted) : Is(posted, i, "request") => written[posted[i].id] = 0
    /\ ws.stage # "stopped" =>
          \A i \in 1 .. Len(outbound) : Is(outbound, i, "request") =>
             written[outbound[i].id] = IF i = 1 /\ ws.writing THEN 1 ELSE 0

\* A caller is in the table from the moment before it sends until its request has ended.
TableInv ==
    /\ \A c \in pending : caller[c].pc \in {"send", "wait", "erase"} /\ caller[c].promise = "none"
    /\ \A c \in Callers : caller[c].pc \in {"sign", "again", "enlist"} => caller[c].promise = "none"
    /\ \A c \in Callers : caller[c].pc # "idle" => caller[c].n \in 1 .. MaxRequests

\* A connection that is not open has nothing under way, and a venue that knows nothing of it.
FreshInv ==
    ws.stage \in {"waiting", "connecting"} =>
        /\ wire = <<>> /\ inbox = <<>> /\ peer = NewPeer
        /\ None(posted, "login") /\ None(outbound, "login")

\* There is one login on a connection, and none once it has succeeded.
LoginInv ==
    /\ AtMostOne(posted, "login") /\ AtMostOne(outbound, "login") /\ AtMostOne(wire, "login")
    /\ None(posted, "login") \/ None(outbound, "login")
    /\ None(posted, "login") \/ None(wire, "login")
    /\ None(outbound, "login") \/ None(wire, "login")
    /\ peer.loggedIn => None(posted, "login") /\ None(outbound, "login") /\ None(wire, "login")

\* An accepted subscription stands behind every good answer and behind what the gateway was told;
\* no answer to a login comes after it.
ReadyInv ==
    /\ venue = "OKX" /\ peer.accepted => peer.loggedIn
    /\ \A i \in 1 .. Len(inbox) : Is(inbox, i, "subscribe") /\ inbox[i].ok =>
          /\ peer.accepted
          /\ venue = "OKX" => \A j \in i .. Len(inbox) : ~Is(inbox, j, "login")
    /\ told => /\ ws.stage = "open" /\ peer.accepted /\ adapter.subscribed
               /\ venue = "OKX" => None(inbox, "login")

\* The inductive invariant.
VInv == TypeInv /\ WriteInv /\ CountInv /\ WrittenInv /\ TableInv /\ FreshInv /\ LoginInv /\ ReadyInv
-----------------------------------------------------------------------------
(* Queues *)

\* What is left when the head of a queue is taken.
LEMMA TailFacts ==
    ASSUME NEW S, NEW q \in Seq(S), q # <<>>
    PROVE  /\ Tail(q) \in Seq(S) /\ Len(q) \in Nat \ {0} /\ Len(Tail(q)) = Len(q) - 1
           /\ Head(q) = q[1] /\ Head(q) \in S
           /\ \A i \in 1 .. Len(Tail(q)) : i + 1 \in 1 .. Len(q) /\ Tail(q)[i] = q[i + 1]
  OBVIOUS

\* What a queue is with one more message.
LEMMA AppendFacts ==
    ASSUME NEW S, NEW q \in Seq(S), NEW m \in S
    PROVE  /\ Append(q, m) \in Seq(S) /\ Append(q, m) # <<>>
           /\ Len(q) \in Nat /\ Len(Append(q, m)) = Len(q) + 1
           /\ \A i \in 1 .. Len(q) : Append(q, m)[i] = q[i]
           /\ Append(q, m)[Len(q) + 1] = m
           /\ Head(Append(q, m)) = IF q = <<>> THEN m ELSE Head(q)
  <1>1. CASE q = <<>>
    BY <1>1
  <1>2. CASE q # <<>>
    <2>1. Len(q) \in Nat \ {0}
      BY <1>2
    <2> QED BY <1>2, <2>1
  <1> QED BY <1>1, <1>2

\* A new id leaves the messages of a queue where they are, with their kinds and ids.
LEMMA OutdatedFacts ==
    ASSUME NEW q \in Seq(VenueMessages), NEW kind \in Kinds, kind # "ping"
    PROVE  /\ Outdated(q, kind) \in Seq(VenueMessages) /\ Len(Outdated(q, kind)) = Len(q)
           /\ \A i \in 1 .. Len(q) : /\ Outdated(q, kind)[i].kind = q[i].kind
                                     /\ Outdated(q, kind)[i].id = q[i].id
  <1> DEFINE o == Outdated(q, kind)
  <1>1. Len(q) \in Nat /\ \A i \in 1 .. Len(q) : q[i] \in VenueMessages
    OBVIOUS
  <1>2. \A i \in 1 .. Len(q) :
           o[i] = IF q[i].kind = kind THEN [q[i] EXCEPT !.live = FALSE] ELSE q[i]
    BY <1>1 DEF Outdated
  <1>3. ASSUME NEW m \in VenueMessages, m.kind = kind
        PROVE  /\ [m EXCEPT !.live = FALSE] \in VenueMessages
               /\ [m EXCEPT !.live = FALSE].kind = m.kind /\ [m EXCEPT !.live = FALSE].id = m.id
    BY <1>3 DEF VenueMessages
  <1>4. \A i \in 1 .. Len(q) : o[i] \in VenueMessages /\ o[i].kind = q[i].kind /\ o[i].id = q[i].id
    BY <1>1, <1>2, <1>3
  <1>5. o \in Seq(VenueMessages) /\ Len(o) = Len(q)
    BY <1>1, <1>4 DEF Outdated
  <1> QED BY <1>4, <1>5

\* The same of an answer.
LEMMA OutdatedAnswers ==
    ASSUME NEW q \in Seq(Answers), NEW kind \in Kinds
    PROVE  /\ Outdated(q, kind) \in Seq(Answers) /\ Len(Outdated(q, kind)) = Len(q)
           /\ \A i \in 1 .. Len(q) : /\ Outdated(q, kind)[i].kind = q[i].kind
                                     /\ Outdated(q, kind)[i].id = q[i].id
                                     /\ Outdated(q, kind)[i].ok = q[i].ok
  <1> DEFINE o == Outdated(q, kind)
  <1>1. Len(q) \in Nat /\ \A i \in 1 .. Len(q) : q[i] \in Answers
    OBVIOUS
  <1>2. \A i \in 1 .. Len(q) :
           o[i] = IF q[i].kind = kind THEN [q[i] EXCEPT !.live = FALSE] ELSE q[i]
    BY <1>1 DEF Outdated
  <1>3. ASSUME NEW m \in Answers
        PROVE  /\ [m EXCEPT !.live = FALSE] \in Answers
               /\ [m EXCEPT !.live = FALSE].kind = m.kind /\ [m EXCEPT !.live = FALSE].id = m.id
               /\ [m EXCEPT !.live = FALSE].ok = m.ok
    BY DEF Answers
  <1>4. \A i \in 1 .. Len(q) : /\ o[i] \in Answers /\ o[i].kind = q[i].kind /\ o[i].id = q[i].id
                               /\ o[i].ok = q[i].ok
    BY <1>1, <1>2, <1>3
  <1>5. o \in Seq(Answers) /\ Len(o) = Len(q)
    BY <1>1, <1>4 DEF Outdated
  <1> QED BY <1>4, <1>5

\* Superseded is Outdated twice.
LEMMA SupersededFacts ==
    ASSUME NEW q \in Seq(VenueMessages)
    PROVE  /\ Superseded(q) \in Seq(VenueMessages) /\ Len(Superseded(q)) = Len(q)
           /\ \A i \in 1 .. Len(q) : /\ Superseded(q)[i].kind = q[i].kind
                                     /\ Superseded(q)[i].id = q[i].id
  <1> DEFINE o == Outdated(q, "time")
  <1>1. o \in Seq(VenueMessages) /\ Len(o) = Len(q)
        /\ \A i \in 1 .. Len(q) : o[i].kind = q[i].kind /\ o[i].id = q[i].id
    BY OutdatedFacts DEF Kinds
  <1> HIDE DEF o
  <1>2. /\ Outdated(o, "subscribe") \in Seq(VenueMessages) /\ Len(Outdated(o, "subscribe")) = Len(o)
        /\ \A i \in 1 .. Len(o) : /\ Outdated(o, "subscribe")[i].kind = o[i].kind
                                  /\ Outdated(o, "subscribe")[i].id = o[i].id
    BY <1>1, OutdatedFacts DEF Kinds
  <1> QED BY <1>1, <1>2 DEF Superseded, o

\* Which kinds are in a queue whose head is taken.
LEMMA TailKinds ==
    ASSUME NEW S, NEW q \in Seq(S), q # <<>>, NEW kind
    PROVE  /\ None(q, kind) => None(Tail(q), kind) /\ Head(q).kind # kind
           /\ AtMostOne(q, kind) => AtMostOne(Tail(q), kind)
           /\ AtMostOne(q, kind) /\ Head(q).kind = kind => None(Tail(q), kind)
           /\ ~None(q, kind) /\ Head(q).kind # kind => ~None(Tail(q), kind)
  <1>1. /\ Len(q) \in Nat \ {0} /\ Len(Tail(q)) = Len(q) - 1 /\ Head(q) = q[1]
        /\ \A i \in 1 .. Len(Tail(q)) : i + 1 \in 1 .. Len(q) /\ Tail(q)[i] = q[i + 1]
    BY TailFacts
  <1>2. None(q, kind) => None(Tail(q), kind) /\ Head(q).kind # kind
    BY <1>1 DEF None, Is
  <1>3. AtMostOne(q, kind) => AtMostOne(Tail(q), kind)
    BY <1>1 DEF AtMostOne, Is
  <1>4. AtMostOne(q, kind) /\ Head(q).kind = kind => None(Tail(q), kind)
    BY <1>1 DEF AtMostOne, None, Is
  <1>5. ~None(q, kind) /\ Head(q).kind # kind => ~None(Tail(q), kind)
    <2> SUFFICES ASSUME NEW i \in 1 .. Len(q), q[i].kind = kind, q[1].kind # kind
                 PROVE  \E j \in 1 .. Len(Tail(q)) : Tail(q)[j].kind = kind
      BY <1>1 DEF None, Is
    <2>1. i - 1 \in 1 .. Len(Tail(q)) /\ Tail(q)[i - 1] = q[i]
      BY <1>1
    <2> QED BY <2>1
  <1> QED BY <1>2, <1>3, <1>4, <1>5

\* Which kinds are in a queue with one more message.
LEMMA AppendKinds ==
    ASSUME NEW S, NEW q \in Seq(S), NEW m \in S, NEW kind
    PROVE  /\ None(Append(q, m), kind) <=> None(q, kind) /\ m.kind # kind
           /\ AtMostOne(q, kind) /\ (None(q, kind) \/ m.kind # kind) =>
                 AtMostOne(Append(q, m), kind)
  <1>1. /\ Len(q) \in Nat /\ Len(Append(q, m)) = Len(q) + 1
        /\ \A i \in 1 .. Len(q) : Append(q, m)[i] = q[i]
        /\ Append(q, m)[Len(q) + 1] = m
    BY AppendFacts
  <1> DEFINE a == Append(q, m)
  <1>2. \A i \in 1 .. Len(a) : i \in 1 .. Len(q) \/ i = Len(q) + 1
    BY <1>1
  <1>3. \A i \in 1 .. Len(q) : i \in 1 .. Len(a)
    BY <1>1
  <1>4. Len(q) + 1 \in 1 .. Len(a)
    BY <1>1
  <1> HIDE DEF a
  <1>5. None(a, kind) <=> None(q, kind) /\ m.kind # kind
    BY <1>1, <1>2, <1>3, <1>4 DEF None, Is, a
  <1>6. AtMostOne(q, kind) /\ (None(q, kind) \/ m.kind # kind) => AtMostOne(a, kind)
    BY <1>1, <1>2, <1>3, <1>4 DEF None, AtMostOne, Is, a
  <1> QED BY <1>5, <1>6 DEF a

\* Two queues with the same kinds at the same positions.
LEMMA SameKinds ==
    ASSUME NEW q, NEW o, Len(o) = Len(q), \A i \in 1 .. Len(q) : o[i].kind = q[i].kind, NEW kind
    PROVE  /\ None(o, kind) <=> None(q, kind)
           /\ AtMostOne(o, kind) <=> AtMostOne(q, kind)
  BY DEF None, AtMostOne, Is
-----------------------------------------------------------------------------
(* What the operations have in common *)

\* A message that is neither a login nor a ping enters the queue of posted handlers, or is refused.
LEMMA SendParts ==
    ASSUME TypeInv, CountInv, NEW m \in VenueMessages, m.kind \notin {"login", "ping"},
           SendNow(m), UNCHANGED outbound
    PROVE  /\ posted' \in Seq(VenueMessages) /\ count' \in Nat /\ CountInv'
           /\ None(posted, "login") => None(posted', "login")
           /\ AtMostOne(posted, "login") => AtMostOne(posted', "login")
  <1>1. CASE CanSend
    <2>1. posted' = Append(posted, m) /\ count' = count + 1 /\ count < MaxOutbound
      BY <1>1 DEF SendNow, CanSend
    <2>2. posted' \in Seq(VenueMessages) /\ Len(posted') = Len(posted) + 1 /\ Len(posted) \in Nat
      BY <2>1, AppendFacts DEF TypeInv
    <2>3. /\ None(posted, "ping") => None(posted', "ping")
          /\ None(posted, "login") => None(posted', "login")
          /\ AtMostOne(posted, "login") => AtMostOne(posted', "login")
      BY <2>1, AppendKinds DEF TypeInv
    <2>4. count' \in Nat /\ count' <= MaxOutbound
      BY <2>1, BoundsAssumption DEF TypeInv
    <2>5. count' = Len(posted') + Len(outbound')
      BY <2>1, <2>2 DEF CountInv, TypeInv
    <2> QED BY <2>2, <2>3, <2>4, <2>5 DEF CountInv, AtMostOne, Is
  <1>2. CASE ~CanSend
    BY <1>2 DEF SendNow, TypeInv, CountInv, None, AtMostOne, Is
  <1> QED BY <1>1, <1>2

\* Queues that keep their requests, and callers that go on, keep the account of what was written.
LEMMA WrittenStays ==
    ASSUME TypeInv, WrittenInv, TypeInv',
           Len(posted') = Len(posted), Len(outbound') = Len(outbound), UNCHANGED written,
           \A i \in 1 .. Len(posted) : posted'[i].kind = posted[i].kind /\ posted'[i].id = posted[i].id,
           \A i \in 1 .. Len(outbound) :
              outbound'[i].kind = outbound[i].kind /\ outbound'[i].id = outbound[i].id,
           \A r \in Requests : Issued(r) => Issued(r)',
           ws'.stage # "stopped" => ws.stage # "stopped" /\ ws'.writing = ws.writing
    PROVE  WrittenInv'
  <1>1. \A i \in 1 .. Len(posted) : posted[i].kind = "request" => posted[i].id \in Requests
    BY DEF TypeInv, VenueMessages
  <1>2. \A i \in 1 .. Len(outbound) : outbound[i].kind = "request" => outbound[i].id \in Requests
    BY DEF TypeInv, VenueMessages
  <1>3. RequestsOnce(posted)' 
    BY <1>1 DEF WrittenInv, RequestsOnce, Is
  <1>4. RequestsOnce(outbound)'
    BY <1>2, SMTT(30) DEF WrittenInv, RequestsOnce, Is
  <1>5. \A i \in 1 .. Len(posted'), j \in 1 .. Len(outbound') :
          Is(posted', i, "request") /\ Is(outbound', j, "request") => posted'[i].id # outbound'[j].id
    BY SMTT(30) DEF WrittenInv, Is
  <1>6. \A r \in Requests : written'[r] = 1 => Issued(r)'
    BY DEF WrittenInv
  <1>7. \A i \in 1 .. Len(posted') : Is(posted', i, "request") => written'[posted'[i].id] = 0
    BY DEF WrittenInv, Is
  <1>8. ws'.stage # "stopped" =>
          \A i \in 1 .. Len(outbound') : Is(outbound', i, "request") =>
             written'[outbound'[i].id] = IF i = 1 /\ ws'.writing THEN 1 ELSE 0
    BY DEF WrittenInv, Is
  <1> QED BY <1>3, <1>4, <1>5, <1>6, <1>7, <1>8 DEF WrittenInv

\* A message enters the queue of posted handlers: if it is a request, then one that is issued now.
LEMMA WrittenSends ==
    ASSUME TypeInv, WrittenInv, TypeInv', NEW m \in VenueMessages, SendNow(m),
           UNCHANGED <<outbound, written>>,
           \A r \in Requests : Issued(r) => Issued(r)',
           CanSend /\ m.kind = "request" => ~Issued(m.id) /\ Issued(m.id)',
           ws'.stage # "stopped" => ws.stage # "stopped" /\ ws'.writing = ws.writing
    PROVE  WrittenInv'
  <1>1. CASE ~CanSend
    <2>1. UNCHANGED posted
      BY <1>1 DEF SendNow
    <2> QED BY <2>1, WrittenStays
  <1>2. CASE CanSend
    <2>1. posted' = Append(posted, m)
      BY <1>2 DEF SendNow
    <2>2. /\ Len(posted) \in Nat /\ Len(posted') = Len(posted) + 1
          /\ \A i \in 1 .. Len(posted) : posted'[i] = posted[i]
          /\ posted'[Len(posted) + 1] = m
      BY <2>1, AppendFacts DEF TypeInv
    <2>3. \A i \in 1 .. Len(posted') : i \in 1 .. Len(posted) \/ i = Len(posted) + 1
      BY <2>2
    <2>4. \A i \in 1 .. Len(posted) : posted[i].kind = "request" =>
             posted[i].id \in Requests /\ Issued(posted[i].id) /\ written[posted[i].id] = 0
      BY DEF TypeInv, VenueMessages, WrittenInv, RequestsOnce, Is
    <2>5. \A i \in 1 .. Len(outbound) : outbound[i].kind = "request" =>
             outbound[i].id \in Requests /\ Issued(outbound[i].id)
      BY DEF TypeInv, VenueMessages, WrittenInv, RequestsOnce, Is
    <2>6. m.kind = "request" => m.id \in Requests /\ ~Issued(m.id) /\ Issued(m.id)'
      BY <1>2 DEF VenueMessages
    <2>7. m.kind = "request" => written[m.id] = 0
      BY <2>6 DEF WrittenInv, TypeInv
    <2>8. RequestsOnce(posted)'
      <3>1. \A i \in 1 .. Len(posted') : Is(posted', i, "request") => Issued(posted[i].id)'
        BY <2>2, <2>3, <2>4, <2>6 DEF Is
      <3>2. ASSUME NEW i \in 1 .. Len(posted'), NEW j \in 1 .. Len(posted'),
                   Is(posted', i, "request"), Is(posted', j, "request"),
                   posted'[i].id = posted'[j].id
            PROVE  i = j
        <4>1. CASE i \in 1 .. Len(posted) /\ j \in 1 .. Len(posted)
          BY <3>2, <4>1, <2>2 DEF WrittenInv, RequestsOnce, Is
        <4>2. CASE i \in 1 .. Len(posted) /\ j = Len(posted) + 1
          BY <3>2, <4>2, <2>2, <2>4, <2>6 DEF Is
        <4>3. CASE j \in 1 .. Len(posted) /\ i = Len(posted) + 1
          BY <3>2, <4>3, <2>2, <2>4, <2>6 DEF Is
        <4> QED BY <4>1, <4>2, <4>3, <2>3
      <3> QED BY <3>1, <3>2 DEF RequestsOnce
    <2>9. RequestsOnce(outbound)'
      BY <2>5 DEF WrittenInv, RequestsOnce, Is
    <2>10. \A i \in 1 .. Len(posted'), j \in 1 .. Len(outbound') :
              Is(posted', i, "request") /\ Is(outbound', j, "request") =>
                 posted'[i].id # outbound'[j].id
      BY <2>2, <2>3, <2>5, <2>6 DEF WrittenInv, Is
    <2>11. \A r \in Requests : written'[r] = 1 => Issued(r)'
      BY DEF WrittenInv
    <2>12. \A i \in 1 .. Len(posted') : Is(posted', i, "request") => written'[posted'[i].id] = 0
      BY <2>2, <2>3, <2>4, <2>7 DEF Is
    <2>13. ws'.stage # "stopped" =>
              \A i \in 1 .. Len(outbound') : Is(outbound', i, "request") =>
                 written'[outbound'[i].id] = IF i = 1 /\ ws'.writing THEN 1 ELSE 0
      BY DEF WrittenInv, Is
    <2> QED BY <2>8, <2>9, <2>10, <2>11, <2>12, <2>13 DEF WrittenInv
  <1> QED BY <1>1, <1>2

\* The account of what was issued does not depend on the queues.
LEMMA IssuedStays ==
    ASSUME UNCHANGED caller, NEW r, Issued(r)
    PROVE  Issued(r)'
  BY DEF Issued

\* The handing over of a head that is a request counts it, and nothing else does.
LEMMA HandOverFacts ==
    ASSUME TypeInv, NEW w, NEW queue, HandOver(w, queue),
           w.writing => queue \in Seq(VenueMessages) /\ queue # <<>>,
           w.writing /\ Head(queue).kind = "request" => written[Head(queue).id] = 0
    PROVE  /\ written' \in [Requests -> {0, 1}]
           /\ \A r \in Requests : written'[r] =
                 IF w.writing /\ Head(queue).kind = "request" /\ r = Head(queue).id THEN 1
                 ELSE written[r]
  <1>1. CASE w.writing /\ Head(queue).kind = "request"
    <2>1. Head(queue) \in VenueMessages
      BY <1>1, TailFacts
    <2>2. Head(queue).id \in Requests
      BY <1>1, <2>1 DEF VenueMessages
    <2>3. written' = [written EXCEPT ![Head(queue).id] = 1]
      BY <1>1, <2>2 DEF HandOver, TypeInv
    <2> QED BY <1>1, <2>2, <2>3 DEF TypeInv
  <1>2. CASE ~(w.writing /\ Head(queue).kind = "request")
    BY <1>2 DEF HandOver, TypeInv
  <1> QED BY <1>1, <1>2
-----------------------------------------------------------------------------
(* The handlers of the socket *)

\* Readiness is not touched by a step that leaves what is received and what was told alone.
LEMMA ReadyStays ==
    ASSUME ReadyInv, UNCHANGED <<venue, inbox, adapter, told>>, told => ws'.stage = ws.stage,
           peer'.accepted = peer.accepted, peer'.loggedIn = peer.loggedIn
    PROVE  ReadyInv'
  <1>1. None(inbox, "login") => None(inbox', "login")
    BY DEF None, Is
  <1>2. \A i \in 1 .. Len(inbox') : Is(inbox', i, "subscribe") /\ inbox'[i].ok =>
          /\ peer'.accepted
          /\ venue' = "OKX" => \A j \in i .. Len(inbox') : ~Is(inbox', j, "login")
    BY DEF ReadyInv, Is
  <1> QED BY <1>1, <1>2 DEF ReadyInv

\* A posted handler finds stop() under way and drops its message.
LEMMA DropVInv ==
    ASSUME VInv, RunPosted, stopping # "no"
    PROVE  VInv'
  <1>1. /\ posted # <<>> /\ posted' = Tail(posted) /\ count' = count - 1
        /\ UNCHANGED <<venue, ws, outbound, wire, inbox, peer, adapter, told, pending, caller, clock,
                       stopping, written, faults>>
    BY DEF RunPosted, threadVars
  <1>2. /\ posted' \in Seq(VenueMessages) /\ Len(posted) \in Nat \ {0} /\ Len(posted') = Len(posted) - 1
        /\ \A i \in 1 .. Len(posted') : i + 1 \in 1 .. Len(posted) /\ posted'[i] = posted[i + 1]
    BY <1>1, TailFacts DEF VInv, TypeInv
  <1>3. \A kind : /\ None(posted, kind) => None(posted', kind)
                  /\ AtMostOne(posted, kind) => AtMostOne(posted', kind)
    BY <1>1, TailKinds DEF VInv, TypeInv
  <1>4. count' \in Nat /\ count' = Len(posted') + Len(outbound')
    BY <1>1, <1>2 DEF VInv, TypeInv, CountInv
  <1>5. TypeInv'
    BY <1>1, <1>2, <1>4 DEF VInv, TypeInv
  <1>6. WriteInv'
    BY <1>1 DEF VInv, WriteInv
  <1>7. CountInv'
    <2>1. count' <= MaxOutbound
      BY <1>1, BoundsAssumption DEF VInv, TypeInv, CountInv
    <2>2. AtMostOne(outbound', "ping")
      BY <1>1 DEF VInv, CountInv
    <2> QED BY <2>1, <2>2, <1>3, <1>4 DEF VInv, CountInv
  <1>8. WrittenInv'
    <2>1. RequestsOnce(posted)'
      BY <1>1, <1>2 DEF VInv, WrittenInv, RequestsOnce, Is, Issued
    <2>2. RequestsOnce(outbound)'
      BY <1>1 DEF VInv, WrittenInv, RequestsOnce, Is, Issued
    <2>3. \A r \in Requests : written'[r] = 1 => Issued(r)'
      BY <1>1 DEF VInv, WrittenInv, Issued
    <2> QED BY <1>1, <1>2, <2>1, <2>2, <2>3 DEF VInv, WrittenInv, Is
  <1>9. TableInv'
    BY <1>1 DEF VInv, TableInv
  <1>10. FreshInv'
    BY <1>1, <1>3 DEF VInv, FreshInv
  <1>11. LoginInv'
    BY <1>1, <1>3 DEF VInv, LoginInv
  <1>12. ReadyInv'
    BY <1>1, ReadyStays DEF VInv
  <1> QED BY <1>5, <1>6, <1>7, <1>8, <1>9, <1>10, <1>11, <1>12 DEF VInv

\* A posted handler queues its message and, when nothing is being written, writes it.
LEMMA QueueVInv ==
    ASSUME VInv, RunPosted, stopping = "no"
    PROVE  VInv'
  <1> DEFINE m == Head(posted)
  <1>1. /\ posted # <<>> /\ posted' = Tail(posted) /\ outbound' = Append(outbound, m)
        /\ UNCHANGED <<venue, count, wire, inbox, peer, adapter, told, pending, caller, clock,
                       stopping, faults>>
    BY DEF RunPosted, threadVars
  <1>2. /\ posted' \in Seq(VenueMessages) /\ Len(posted) \in Nat \ {0} /\ Len(posted') = Len(posted) - 1
        /\ m \in VenueMessages /\ m = posted[1]
        /\ \A i \in 1 .. Len(posted') : i + 1 \in 1 .. Len(posted) /\ posted'[i] = posted[i + 1]
    BY <1>1, TailFacts DEF VInv, TypeInv
  <1>3. /\ outbound' \in Seq(VenueMessages) /\ outbound' # <<>>
        /\ Len(outbound) \in Nat /\ Len(outbound') = Len(outbound) + 1
        /\ \A i \in 1 .. Len(outbound) : outbound'[i] = outbound[i]
        /\ outbound'[Len(outbound) + 1] = m
        /\ Head(outbound') = IF outbound = <<>> THEN m ELSE Head(outbound)
    <2>1. outbound \in Seq(VenueMessages)
      BY DEF VInv, TypeInv
    <2> QED BY <1>1, <1>2, <2>1, AppendFacts, SMTT(30)
  <1>4. \A kind : /\ None(posted, kind) => None(posted', kind) /\ m.kind # kind
                  /\ AtMostOne(posted, kind) => AtMostOne(posted', kind)
                  /\ AtMostOne(posted, kind) /\ m.kind = kind => None(posted', kind)
    BY <1>1, TailKinds, ZenonT(40) DEF VInv, TypeInv
  <1>5. \A kind : /\ None(outbound', kind) <=> None(outbound, kind) /\ m.kind # kind
                  /\ AtMostOne(outbound, kind) /\ (None(outbound, kind) \/ m.kind # kind) =>
                        AtMostOne(outbound', kind)
    BY <1>1, <1>2, AppendKinds DEF VInv, TypeInv
  <1>6. ws.stage # "stopped"
    BY DEF RunPosted
  <1>7. /\ ws' = [ws EXCEPT !.writing = (ws.stage = "open")]
        /\ written' \in [Requests -> {0, 1}]
        /\ \A r \in Requests : written'[r] =
              IF outbound = <<>> /\ ws.stage = "open" /\ m.kind = "request" /\ r = m.id THEN 1
              ELSE written[r]
    <2>1. CASE ws.writing
      <3>1. UNCHANGED <<ws, written>> /\ ws.stage = "open" /\ outbound # <<>>
        BY <2>1 DEF RunPosted, VInv, WriteInv
      <3> QED BY <2>1, <3>1 DEF VInv, TypeInv
    <2>2. CASE ~ws.writing
      <3>1. ws' = Write(ws, outbound') /\ HandOver(ws', outbound')
        BY <2>2 DEF RunPosted
      <3>2. ws' = [ws EXCEPT !.writing = (ws.stage = "open")]
        BY <3>1, <1>3 DEF Write
      <3>3. ws'.writing <=> ws.stage = "open"
        BY <3>2 DEF VInv, TypeInv
      <3>4. ws.stage = "open" => outbound = <<>>
        BY <2>2 DEF VInv, WriteInv
      <3>5. m.kind = "request" => written[m.id] = 0
        BY <1>2 DEF VInv, WrittenInv, Is
      <3>6. /\ written' \in [Requests -> {0, 1}]
            /\ \A r \in Requests : written'[r] =
                 IF ws'.writing /\ Head(outbound').kind = "request" /\ r = Head(outbound').id THEN 1
                 ELSE written[r]
        BY <1>3, <3>1, <3>3, <3>4, <3>5, HandOverFacts DEF VInv
      <3> QED BY <3>2, <3>3, <3>4, <3>6, <1>3
    <2> QED BY <2>1, <2>2
  <1> HIDE DEF m
  <1>8. TypeInv'
    <2>1. ws' \in [stage : {"connecting", "open", "waiting", "stopped"}, writing : BOOLEAN,
                   timer : {"off", "idle", "timeout"}, awaiting : BOOLEAN]
      BY <1>7 DEF VInv, TypeInv
    <2> QED BY <1>1, <1>2, <1>3, <1>7, <2>1 DEF VInv, TypeInv
  <1>9. WriteInv'
    BY <1>1, <1>3, <1>6, <1>7 DEF VInv, TypeInv, WriteInv
  <1>10. CountInv'
    <2>1. count' = Len(posted') + Len(outbound')
      BY <1>1, <1>2, <1>3 DEF VInv, CountInv
    <2> QED BY <1>1, <1>4, <1>5, <2>1 DEF VInv, CountInv
  <1>11. WrittenInv'
    <2>1. m.kind = "request" => m.id \in Requests /\ Issued(m.id) /\ written[m.id] = 0
      BY <1>2 DEF VInv, VenueMessages, WrittenInv, RequestsOnce, Is
    <2>2. \A i \in 1 .. Len(posted') : posted'[i].kind = "request" =>
             /\ posted'[i].id \in Requests /\ Issued(posted'[i].id) /\ written[posted'[i].id] = 0
             /\ m.kind = "request" => posted'[i].id # m.id
             /\ \A j \in 1 .. Len(outbound) : outbound[j].kind = "request" =>
                   posted'[i].id # outbound[j].id
      <3> SUFFICES ASSUME NEW i \in 1 .. Len(posted'), posted'[i].kind = "request"
                   PROVE  /\ posted'[i].id \in Requests /\ Issued(posted'[i].id)
                          /\ written[posted'[i].id] = 0
                          /\ m.kind = "request" => posted'[i].id # m.id
                          /\ \A j \in 1 .. Len(outbound) : outbound[j].kind = "request" =>
                                posted'[i].id # outbound[j].id
        OBVIOUS
      <3>1. i + 1 \in 1 .. Len(posted) /\ posted'[i] = posted[i + 1] /\ 1 \in 1 .. Len(posted)
            /\ i + 1 # 1
        BY <1>2
      <3>2. posted'[i].id \in Requests
        BY <3>1 DEF VInv, TypeInv, VenueMessages
      <3>3. Issued(posted'[i].id) /\ written[posted'[i].id] = 0
        BY <3>1 DEF VInv, WrittenInv, RequestsOnce, Is
      <3>4. m.kind = "request" => posted'[i].id # m.id
        BY <3>1, <1>2 DEF VInv, WrittenInv, RequestsOnce, Is
      <3>5. \A j \in 1 .. Len(outbound) : outbound[j].kind = "request" =>
                posted'[i].id # outbound[j].id
        BY <3>1 DEF VInv, WrittenInv, Is
      <3> QED BY <3>2, <3>3, <3>4, <3>5
    <2>3. \A i \in 1 .. Len(outbound) : outbound[i].kind = "request" =>
             /\ outbound[i].id \in Requests /\ Issued(outbound[i].id)
             /\ m.kind = "request" => outbound[i].id # m.id
             /\ written[outbound[i].id] = IF i = 1 /\ ws.writing THEN 1 ELSE 0
      BY <1>2, <1>6 DEF VInv, TypeInv, VenueMessages, WrittenInv, RequestsOnce, Is
    <2>4. \A i \in 1 .. Len(outbound') : i \in 1 .. Len(outbound) \/ i = Len(outbound) + 1
      BY <1>3
    <2>5. \A r \in Requests : Issued(r) => Issued(r)'
      BY <1>1 DEF Issued
    <2>6. RequestsOnce(posted)'
      <3>1. \A i \in 1 .. Len(posted') : Is(posted', i, "request") => Issued(posted[i].id)'
        BY <2>2, <2>5 DEF Is
      <3>2. RequestsOnce(posted)
        BY DEF VInv, WrittenInv
      <3> QED BY <1>2, <3>1, <3>2, SMTT(30) DEF RequestsOnce, Is
    <2>7. RequestsOnce(outbound)'
      <3>1. \A i \in 1 .. Len(outbound') : Is(outbound', i, "request") => Issued(outbound[i].id)'
        BY <1>3, <2>1, <2>3, <2>4, <2>5 DEF Is
      <3>2. ASSUME NEW i \in 1 .. Len(outbound'), NEW j \in 1 .. Len(outbound'),
                   Is(outbound', i, "request"), Is(outbound', j, "request"),
                   outbound'[i].id = outbound'[j].id
            PROVE  i = j
        <4>1. CASE i \in 1 .. Len(outbound) /\ j \in 1 .. Len(outbound)
          BY <3>2, <4>1, <1>3 DEF VInv, WrittenInv, RequestsOnce, Is
        <4> QED BY <3>2, <4>1, <1>3, <2>3, <2>4 DEF Is
      <3> QED BY <3>1, <3>2 DEF RequestsOnce
    <2>8. \A i \in 1 .. Len(posted'), j \in 1 .. Len(outbound') :
             Is(posted', i, "request") /\ Is(outbound', j, "request") =>
                posted'[i].id # outbound'[j].id
      BY <1>3, <2>2, <2>4 DEF Is
    <2>9. \A r \in Requests : written'[r] = 1 => Issued(r)'
      BY <1>7, <2>1, <2>5 DEF VInv, WrittenInv
    <2>10. \A i \in 1 .. Len(posted') : Is(posted', i, "request") => written'[posted'[i].id] = 0
      BY <1>7, <2>2 DEF Is
    <2>11. ws'.writing <=> ws.stage = "open"
      BY <1>7 DEF VInv, TypeInv
    <2>12. ws.stage = "open" => (ws.writing <=> outbound # <<>>)
      BY DEF VInv, WriteInv
    <2>13. ws.writing => ws.stage = "open"
      BY DEF VInv, WriteInv
    <2>14. ASSUME NEW i \in 1 .. Len(outbound'), Is(outbound', i, "request")
           PROVE  written'[outbound'[i].id] = IF i = 1 /\ ws'.writing THEN 1 ELSE 0
      <3>1. CASE i \in 1 .. Len(outbound)
        <4>1. outbound # <<>>
          BY <3>1, <1>3
        <4>2. outbound'[i] = outbound[i] /\ written'[outbound[i].id] = written[outbound[i].id]
          BY <3>1, <4>1, <1>3, <1>7, <2>3, <2>14 DEF Is
        <4> QED BY <3>1, <4>1, <4>2, <2>3, <2>11, <2>12, <2>13, <2>14 DEF Is
      <3>2. CASE i = Len(outbound) + 1
        <4>1. outbound'[i] = m /\ m.kind = "request"
          BY <3>2, <1>3, <2>14 DEF Is
        <4>2. i = 1 <=> outbound = <<>>
          BY <3>2, <1>3 DEF VInv, TypeInv
        <4> QED BY <4>1, <4>2, <1>7, <2>1, <2>11
      <3> QED BY <3>1, <3>2, <2>4
    <2> QED BY <2>6, <2>7, <2>8, <2>9, <2>10, <2>14 DEF WrittenInv
  <1>12. TableInv'
    BY <1>1 DEF VInv, TableInv
  <1>13. FreshInv'
    BY <1>1, <1>4, <1>5, <1>7 DEF VInv, TypeInv, FreshInv
  <1>14. LoginInv'
    BY <1>1, <1>4, <1>5 DEF VInv, LoginInv
  <1>15. ReadyInv'
    <2>1. ws'.stage = ws.stage
      BY <1>1, <1>7 DEF VInv, TypeInv
    <2> QED BY <1>1, <2>1, ReadyStays DEF VInv
  <1> QED BY <1>8, <1>9, <1>10, <1>11, <1>12, <1>13, <1>14, <1>15 DEF VInv

\* A write has ended: the next one begins, the ping starts to wait for its pong.
LEMMA WriteDoneVInv ==
    ASSUME VInv, WriteDone
    PROVE  VInv'
  <1> DEFINE m == Head(outbound)
             w == [ws EXCEPT !.awaiting = @ \/ m.kind = "ping",
                             !.timer = IF m.kind = "ping" THEN "timeout" ELSE @]
  <1>0. ws.writing /\ ws.stage = "open" /\ outbound # <<>>
    BY DEF WriteDone, VInv, WriteInv
  <1>1. /\ outbound' = Tail(outbound) /\ count' = count - 1
        /\ wire' = (IF peer.alive THEN Append(wire, m) ELSE wire)
        /\ ws' = Write(w, outbound') /\ HandOver(ws', outbound')
        /\ UNCHANGED <<venue, posted, inbox, peer, adapter, told, pending, caller, clock, stopping,
                       faults>>
    BY DEF WriteDone, threadVars
  <1>2. /\ outbound' \in Seq(VenueMessages) /\ Len(outbound) \in Nat \ {0}
        /\ Len(outbound') = Len(outbound) - 1
        /\ m \in VenueMessages /\ m = outbound[1]
        /\ \A i \in 1 .. Len(outbound') : i + 1 \in 1 .. Len(outbound) /\ outbound'[i] = outbound[i + 1]
    BY <1>0, <1>1, TailFacts DEF VInv, TypeInv
  <1>3. wire' \in Seq(VenueMessages)
    BY <1>1, <1>2, AppendFacts DEF VInv, TypeInv
  <1>4. \A kind : /\ None(outbound, kind) => None(outbound', kind) /\ m.kind # kind
                  /\ AtMostOne(outbound, kind) => AtMostOne(outbound', kind)
                  /\ AtMostOne(outbound, kind) /\ m.kind = kind => None(outbound', kind)
                  /\ ~None(outbound, kind) /\ m.kind # kind => ~None(outbound', kind)
    <2>1. outbound \in Seq(VenueMessages) /\ outbound # <<>>
      BY <1>0 DEF VInv, TypeInv
    <2> TAKE kind
    <2> QED BY <1>1, <2>1, TailKinds
  <1>5. \A kind : /\ None(wire, kind) /\ m.kind # kind => None(wire', kind)
                  /\ AtMostOne(wire, kind) /\ (None(wire, kind) \/ m.kind # kind) =>
                        AtMostOne(wire', kind)
    <2>1. CASE peer.alive
      BY <1>1, <1>2, <2>1, AppendKinds DEF VInv, TypeInv
    <2>2. CASE ~peer.alive
      BY <1>1, <2>2
    <2> QED BY <2>1, <2>2
  <1>6. /\ ws' \in [stage : {"connecting", "open", "waiting", "stopped"}, writing : BOOLEAN,
                    timer : {"off", "idle", "timeout"}, awaiting : BOOLEAN]
        /\ ws'.stage = "open" /\ ws'.writing = (outbound' # <<>>)
    BY <1>0, <1>1, ZenonT(40) DEF Write, VInv, TypeInv
  <1>7. outbound' # <<>> => Head(outbound') = outbound[2] /\ 2 \in 1 .. Len(outbound)
    BY <1>2
  <1>8. outbound' # <<>> /\ Head(outbound').kind = "request" => written[Head(outbound').id] = 0
    BY <1>0, <1>7 DEF VInv, WrittenInv, Is
  <1>9. /\ written' \in [Requests -> {0, 1}]
        /\ \A r \in Requests : written'[r] =
              IF ws'.writing /\ Head(outbound').kind = "request" /\ r = Head(outbound').id THEN 1
              ELSE written[r]
    <2>1. TypeInv /\ HandOver(ws', outbound')
      BY <1>1 DEF VInv
    <2>2. ws'.writing => outbound' \in Seq(VenueMessages) /\ outbound' # <<>>
      BY <1>2, <1>6
    <2>3. ws'.writing /\ Head(outbound').kind = "request" => written[Head(outbound').id] = 0
      BY <1>6, <1>8
    <2> HIDE DEF w, m
    <2> QED BY <2>1, <2>2, <2>3, HandOverFacts
  <1> HIDE DEF m, w
  <1>10. count' \in Nat /\ count' = Len(posted') + Len(outbound')
    BY <1>1, <1>2 DEF VInv, TypeInv, CountInv
  <1>11. TypeInv'
    BY <1>1, <1>2, <1>3, <1>6, <1>9, <1>10 DEF VInv, TypeInv
  <1>12. WriteInv'
    BY <1>0, <1>1, <1>6 DEF VInv, WriteInv
  <1>13. CountInv'
    <2>1. count' <= MaxOutbound \/ (count' = MaxOutbound + 1 /\ ~None(outbound', "ping"))
      BY <1>1, BoundsAssumption DEF VInv, TypeInv, CountInv
    <2> QED BY <1>1, <1>4, <1>10, <2>1 DEF VInv, CountInv
  <1>14. WrittenInv'
    <2>1. \A i \in 1 .. Len(posted) : posted[i].kind = "request" =>
             /\ posted[i].id \in Requests /\ Issued(posted[i].id) /\ written[posted[i].id] = 0
      BY DEF VInv, TypeInv, VenueMessages, WrittenInv, RequestsOnce, Is
    <2>2. \A i \in 1 .. Len(outbound') : outbound'[i].kind = "request" =>
             /\ outbound'[i].id \in Requests /\ Issued(outbound'[i].id)
             /\ written[outbound'[i].id] = 0
      <3> SUFFICES ASSUME NEW i \in 1 .. Len(outbound'), outbound'[i].kind = "request"
                   PROVE  /\ outbound'[i].id \in Requests /\ Issued(outbound'[i].id)
                          /\ written[outbound'[i].id] = 0
        OBVIOUS
      <3>1. i + 1 \in 1 .. Len(outbound) /\ outbound'[i] = outbound[i + 1] /\ i + 1 # 1
        BY <1>2
      <3> QED BY <3>1, <1>0 DEF VInv, TypeInv, VenueMessages, WrittenInv, RequestsOnce, Is
    <2>3. \A r \in Requests : Issued(r) => Issued(r)'
      BY <1>1 DEF Issued
    <2>4. \A i, j \in 1 .. Len(outbound') :
             outbound'[i].kind = "request" /\ outbound'[j].kind = "request"
                /\ outbound'[i].id = outbound'[j].id => i = j
      <3> SUFFICES ASSUME NEW i \in 1 .. Len(outbound'), NEW j \in 1 .. Len(outbound'),
                          outbound'[i].kind = "request", outbound'[j].kind = "request",
                          outbound'[i].id = outbound'[j].id
                   PROVE  i = j
        OBVIOUS
      <3>1. /\ i + 1 \in 1 .. Len(outbound) /\ outbound'[i] = outbound[i + 1]
            /\ j + 1 \in 1 .. Len(outbound) /\ outbound'[j] = outbound[j + 1]
        BY <1>2
      <3>2. i + 1 = j + 1
        BY <3>1 DEF VInv, WrittenInv, RequestsOnce, Is
      <3> QED BY <3>2
    <2>5. \A i \in 1 .. Len(posted), j \in 1 .. Len(outbound') :
             posted[i].kind = "request" /\ outbound'[j].kind = "request" =>
                posted[i].id # outbound'[j].id
      BY <1>2 DEF VInv, WrittenInv, Is
    <2>6. RequestsOnce(posted)'
      <3>1. \A i \in 1 .. Len(posted') : Is(posted', i, "request") => Issued(posted[i].id)'
        BY <1>1, <2>1, <2>3 DEF Is
      <3> QED BY <1>1, <3>1 DEF VInv, WrittenInv, RequestsOnce, Is
    <2>7. RequestsOnce(outbound)'
      <3>1. \A i \in 1 .. Len(outbound') : Is(outbound', i, "request") => Issued(outbound[i].id)'
        BY <2>2, <2>3 DEF Is
      <3> QED BY <3>1, <2>4 DEF RequestsOnce, Is
    <2>8. outbound' # <<>> => 1 \in 1 .. Len(outbound') /\ Head(outbound') = outbound'[1]
      BY <1>2
    <2>9. \A r \in Requests : written'[r] = 1 => Issued(r)'
      BY <1>6, <1>9, <2>2, <2>3, <2>8 DEF VInv, WrittenInv
    <2>10. \A i \in 1 .. Len(posted') : Is(posted', i, "request") => written'[posted'[i].id] = 0
      <3> SUFFICES ASSUME NEW i \in 1 .. Len(posted), posted[i].kind = "request"
                   PROVE  written'[posted[i].id] = 0
        BY <1>1 DEF Is
      <3>1. posted[i].id \in Requests /\ written[posted[i].id] = 0
        BY <2>1
      <3>2. outbound' # <<>> /\ Head(outbound').kind = "request" => posted[i].id # Head(outbound').id
        BY <2>5, <2>8
      <3> QED BY <3>1, <3>2, <1>6, <1>9
    <2>11. ASSUME NEW i \in 1 .. Len(outbound'), Is(outbound', i, "request")
           PROVE  written'[outbound'[i].id] = IF i = 1 /\ ws'.writing THEN 1 ELSE 0
      <3>1. outbound' # <<>>
        BY <1>2
      <3> QED BY <1>6, <1>9, <2>2, <2>4, <2>8, <2>11, <3>1 DEF Is
    <2> QED BY <1>1, <2>5, <2>6, <2>7, <2>9, <2>10, <2>11 DEF WrittenInv, Is
  <1>15. TableInv'
    BY <1>1 DEF VInv, TableInv
  <1>16. FreshInv'
    BY <1>6 DEF FreshInv
  <1>17. LoginInv'
    BY <1>1, <1>4, <1>5 DEF VInv, LoginInv
  <1>18. ReadyInv'
    BY <1>0, <1>1, <1>6, ReadyStays DEF VInv
  <1> QED BY <1>11, <1>12, <1>13, <1>14, <1>15, <1>16, <1>17, <1>18 DEF VInv

\* Failing the table of requests empties it, and leaves every caller where it is.
LEMMA FailPendingFacts ==
    ASSUME TypeInv, TableInv, FailPending
    PROVE  /\ pending' = {}
           /\ caller' \in [Callers -> [pc : {"idle", "sign", "again", "enlist", "send", "wait", "erase"}, n : Nat,
                                       promise : {"none", "failed", "value"},
                                       outcome : {"none", "unknown", "answered", "lost"}]]
           /\ \A c \in Callers : caller'[c].pc = caller[c].pc /\ caller'[c].n = caller[c].n
           /\ TableInv'
           /\ \A r \in Requests : Issued(r) => Issued(r)'
  <1>1. /\ pending' = {}
        /\ caller' = [c \in Callers |-> IF c \in pending /\ caller[c].promise = "none"
                                        THEN [caller[c] EXCEPT !.promise = "failed"] ELSE caller[c]]
    BY DEF FailPending
  <1>2. \A c \in Callers : caller[c] \in [pc : {"idle", "sign", "again", "enlist", "send", "wait", "erase"}, n : Nat,
                                          promise : {"none", "failed", "value"},
                                          outcome : {"none", "unknown", "answered", "lost"}]
    BY DEF TypeInv
  <1>3. \A c \in Callers : /\ caller'[c].pc = caller[c].pc /\ caller'[c].n = caller[c].n
                           /\ c \notin pending => caller'[c] = caller[c]
    BY <1>1, <1>2
  <1>4. caller' \in [Callers -> [pc : {"idle", "sign", "again", "enlist", "send", "wait", "erase"}, n : Nat,
                                 promise : {"none", "failed", "value"},
                                 outcome : {"none", "unknown", "answered", "lost"}]]
    BY <1>1, <1>2
  <1>5. TableInv'
    BY <1>1, <1>3 DEF TableInv
  <1>6. \A r \in Requests : Issued(r) => Issued(r)'
    BY <1>3 DEF Issued, Requests
  <1> QED BY <1>1, <1>3, <1>4, <1>5, <1>6

\* The connection is given up.
LEMMA FailVInv ==
    ASSUME VInv, Fail, stopping = "no", ws.stage \in {"connecting", "open"}, None(posted, "login")
    PROVE  VInv'
  <1>1. /\ ws' = Closed /\ wire' = <<>> /\ inbox' = <<>> /\ peer' = NewPeer
        /\ outbound' = <<>> /\ count' = count - Len(outbound)
        /\ UNCHANGED <<venue, posted, clock, stopping, written>>
    BY DEF Fail
  <1>2. /\ pending' \subseteq Callers
        /\ caller' \in [Callers -> [pc : {"idle", "sign", "again", "enlist", "send", "wait", "erase"}, n : Nat,
                                    promise : {"none", "failed", "value"},
                                    outcome : {"none", "unknown", "answered", "lost"}]]
        /\ TableInv'
        /\ \A r \in Requests : Issued(r) => Issued(r)'
        /\ adapter' \in [subscribed : BOOLEAN, requested : BOOLEAN, error : BOOLEAN, clock : BOOLEAN]
        /\ told' = FALSE
    <2>1. CASE ws.stage = "open"
      <3>1. SessionLost
        BY <2>1 DEF Fail
      <3> QED BY <3>1, FailPendingFacts DEF SessionLost, VInv, TypeInv
    <2>2. CASE ws.stage # "open"
      <3>1. UNCHANGED <<adapter, told, caller, pending>>
        BY <2>2 DEF Fail
      <3>2. told = FALSE
        BY <2>2 DEF VInv, TypeInv, ReadyInv
      <3> QED BY <3>1, <3>2 DEF VInv, TypeInv, TableInv, Issued
    <2> QED BY <2>1, <2>2
  <1>3. Len(posted) \in Nat /\ Len(outbound) \in Nat /\ count' = Len(posted)
    BY <1>1 DEF VInv, TypeInv, CountInv
  <1>4. outbound' \in Seq(VenueMessages) /\ wire' \in Seq(VenueMessages) /\ inbox' \in Seq(Answers)
        /\ Len(outbound') = 0 /\ Len(wire') = 0 /\ Len(inbox') = 0
    BY <1>1
  <1>5. TypeInv'
    BY <1>1, <1>2, <1>3, <1>4 DEF VInv, TypeInv, Closed, NewPeer
  <1>6. WriteInv'
    BY <1>1 DEF VInv, WriteInv, Closed
  <1>7. None(outbound', "ping") /\ AtMostOne(outbound', "ping") /\ None(outbound', "login")
        /\ AtMostOne(outbound', "login") /\ None(wire', "login") /\ AtMostOne(wire', "login")
    BY <1>4 DEF None, AtMostOne
  <1>8. CountInv'
    <2>1. count' <= MaxOutbound
      <3>1. ~None(outbound, "ping") => Len(outbound) >= 1
        BY <1>3 DEF None
      <3> QED BY <3>1, <1>1, <1>3, BoundsAssumption DEF VInv, TypeInv, CountInv
    <2> QED BY <2>1, <1>1, <1>3, <1>4, <1>7 DEF VInv, CountInv
  <1>9. WrittenInv'
    <2>1. RequestsOnce(posted)'
      <3>1. \A i \in 1 .. Len(posted) : Is(posted, i, "request") => posted[i].id \in Requests
        BY DEF VInv, TypeInv, VenueMessages, Is
      <3>2. \A i \in 1 .. Len(posted') : Is(posted', i, "request") => Issued(posted[i].id)'
        BY <1>1, <1>2, <3>1 DEF VInv, WrittenInv, RequestsOnce, Is
      <3> QED BY <1>1, <3>2 DEF VInv, WrittenInv, RequestsOnce, Is
    <2>2. RequestsOnce(outbound)'
      BY <1>4 DEF RequestsOnce
    <2> QED BY <1>1, <1>2, <1>4, <2>1, <2>2 DEF VInv, WrittenInv, Is
  <1>10. FreshInv'
    BY <1>1, <1>7 DEF FreshInv
  <1>11. LoginInv'
    BY <1>1, <1>7 DEF VInv, LoginInv, NewPeer
  <1>12. ReadyInv'
    BY <1>1, <1>2, <1>4 DEF ReadyInv, NewPeer
  <1> QED BY <1>2, <1>5, <1>6, <1>8, <1>9, <1>10, <1>11, <1>12 DEF VInv

\* The handshake is done: the greeting is posted, and what was queued meanwhile is written.
LEMMA OpenedVInv ==
    ASSUME VInv, Opened
    PROVE  VInv'
  <1> DEFINE g == Message(IF venue = "OKX" THEN "login" ELSE "time", NoId)
             p == Superseded(posted)
             w == [ws EXCEPT !.stage = "open", !.timer = IF Heartbeats THEN "idle" ELSE "off"]
  <1>1. /\ ws.stage = "connecting" /\ stopping = "no"
        /\ posted' = p \o (IF CanSend THEN <<g>> ELSE <<>>)
        /\ count' = IF CanSend THEN count + 1 ELSE count
        /\ outbound' = Superseded(outbound)
        /\ ws' = Write(w, outbound') /\ HandOver(ws', outbound')
        /\ adapter' = IF venue = "OKX" THEN adapter ELSE NotReady
        /\ UNCHANGED <<venue, told, wire, inbox, peer, pending, caller, clock, stopping, faults>>
    BY DEF Opened, threadVars
  <1>2. /\ wire = <<>> /\ inbox = <<>> /\ peer = NewPeer
        /\ None(posted, "login") /\ None(outbound, "login")
        /\ ws.writing = FALSE
    BY <1>1 DEF VInv, FreshInv, WriteInv, TypeInv
  <1>3. /\ p \in Seq(VenueMessages) /\ Len(p) = Len(posted) /\ Len(p) \in Nat
        /\ \A i \in 1 .. Len(posted) : p[i].kind = posted[i].kind /\ p[i].id = posted[i].id
    BY SupersededFacts DEF VInv, TypeInv
  <1>4. /\ outbound' \in Seq(VenueMessages) /\ Len(outbound') = Len(outbound) /\ Len(outbound) \in Nat
        /\ \A i \in 1 .. Len(outbound) :
              outbound'[i].kind = outbound[i].kind /\ outbound'[i].id = outbound[i].id
    BY <1>1, SupersededFacts DEF VInv, TypeInv
  <1>5. g \in VenueMessages /\ g.kind \in {"login", "time"}
    BY DEF Message, VenueMessages, Kinds
  <1> HIDE DEF p, g
  <1>6. /\ posted' \in Seq(VenueMessages)
        /\ Len(posted') = Len(posted) + (IF CanSend THEN 1 ELSE 0)
        /\ \A i \in 1 .. Len(posted) : posted'[i] = p[i]
        /\ CanSend => posted'[Len(posted) + 1] = g
        /\ \A kind : /\ None(posted', kind) <=> None(posted, kind) /\ (CanSend => g.kind # kind)
                     /\ AtMostOne(posted, kind) /\ (None(posted, kind) \/ g.kind # kind) =>
                           AtMostOne(posted', kind)
    <2>1. \A kind : /\ None(p, kind) <=> None(posted, kind)
                    /\ AtMostOne(p, kind) <=> AtMostOne(posted, kind)
      BY <1>3, SameKinds
    <2>2. CASE CanSend
      <3>1. posted' = Append(p, g)
        BY <2>2, <1>1, <1>3, <1>5
      <3>2. \A kind : /\ None(posted', kind) <=> None(p, kind) /\ g.kind # kind
                      /\ AtMostOne(p, kind) /\ (None(p, kind) \/ g.kind # kind) =>
                            AtMostOne(posted', kind)
        BY <3>1, <1>3, <1>5, AppendKinds
      <3>3. /\ posted' \in Seq(VenueMessages) /\ Len(posted') = Len(p) + 1
            /\ \A i \in 1 .. Len(p) : posted'[i] = p[i]
            /\ posted'[Len(p) + 1] = g
        BY <3>1, <1>3, <1>5, AppendFacts
      <3> QED BY <2>1, <2>2, <3>2, <3>3, <1>3
    <2>3. CASE ~CanSend
      <3>1. posted' = p
        BY <2>3, <1>1, <1>3
      <3> QED BY <2>1, <2>3, <3>1, <1>3
    <2> QED BY <2>2, <2>3
  <1>7. \A kind : /\ None(outbound', kind) <=> None(outbound, kind)
                  /\ AtMostOne(outbound', kind) <=> AtMostOne(outbound, kind)
    BY <1>4, SameKinds
  <1>8. /\ ws' \in [stage : {"connecting", "open", "waiting", "stopped"}, writing : BOOLEAN,
                    timer : {"off", "idle", "timeout"}, awaiting : BOOLEAN]
        /\ ws'.stage = "open" /\ ws'.writing = (outbound' # <<>>)
    BY <1>1 DEF Write, VInv, TypeInv
  <1>9. outbound' # <<>> => /\ Head(outbound') = outbound'[1]
                            /\ 1 \in 1 .. Len(outbound') /\ 1 \in 1 .. Len(outbound)
    BY <1>4
  <1>10. /\ written' \in [Requests -> {0, 1}]
         /\ \A r \in Requests : written'[r] =
               IF ws'.writing /\ Head(outbound').kind = "request" /\ r = Head(outbound').id THEN 1
               ELSE written[r]
    <2>1. TypeInv /\ HandOver(ws', outbound')
      BY <1>1 DEF VInv
    <2>2. ws'.writing => outbound' \in Seq(VenueMessages) /\ outbound' # <<>>
      BY <1>4, <1>8
    <2>3. ws'.writing /\ Head(outbound').kind = "request" => written[Head(outbound').id] = 0
      <3>1. \A i \in 1 .. Len(outbound) : outbound[i].kind = "request" => written[outbound[i].id] = 0
        BY <1>1, <1>2 DEF VInv, WrittenInv, Is
      <3> HIDE DEF w
      <3> QED BY <3>1, <1>4, <1>8, <1>9
    <2> HIDE DEF w
    <2> QED BY <2>1, <2>2, <2>3, HandOverFacts
  <1>11. count' \in Nat /\ count' = Len(posted') + Len(outbound')
    <2>1. count' = IF CanSend THEN count + 1 ELSE count
      BY <1>1
    <2>2. count \in Nat /\ count = Len(posted) + Len(outbound) /\ Len(posted) \in Nat
      BY DEF VInv, TypeInv, CountInv
    <2>3. Len(posted') = Len(posted) + (IF CanSend THEN 1 ELSE 0) /\ Len(outbound') = Len(outbound)
      BY <1>4, <1>6
    <2> HIDE DEF w
    <2> QED BY <2>1, <2>2, <2>3, <1>4
  <1>12. TypeInv'
    <2>1. adapter' \in [subscribed : BOOLEAN, requested : BOOLEAN, error : BOOLEAN, clock : BOOLEAN]
      BY <1>1 DEF VInv, TypeInv, NotReady
    <2> HIDE DEF w
    <2> QED BY <1>1, <1>4, <1>6, <1>8, <1>10, <1>11, <2>1 DEF VInv, TypeInv
  <1>13. WriteInv'
    BY <1>1, <1>8 DEF WriteInv
  <1>14. CountInv'
    <2>1. CASE CanSend
      <3>1. count' <= MaxOutbound
        BY <2>1, <1>1, BoundsAssumption DEF CanSend, VInv, TypeInv
      <3> QED BY <3>1, <1>5, <1>6, <1>7, <1>11 DEF VInv, CountInv
    <2>2. CASE ~CanSend
      BY <2>2, <1>1, <1>5, <1>6, <1>7, <1>11 DEF VInv, CountInv
    <2> QED BY <2>1, <2>2
  <1>15. WrittenInv'
    <2>1. \A r \in Requests : Issued(r) => Issued(r)'
      BY <1>1 DEF Issued
    <2>2. ASSUME NEW i \in 1 .. Len(posted'), posted'[i].kind = "request"
          PROVE  /\ i \in 1 .. Len(posted) /\ posted[i].kind = "request"
                 /\ posted'[i].id = posted[i].id
      BY <2>2, <1>3, <1>5, <1>6
    <2>3. \A i \in 1 .. Len(posted) : posted[i].kind = "request" =>
             /\ posted[i].id \in Requests /\ Issued(posted[i].id) /\ written[posted[i].id] = 0
      BY DEF VInv, TypeInv, VenueMessages, WrittenInv, RequestsOnce, Is
    <2>4. \A i \in 1 .. Len(outbound') : outbound'[i].kind = "request" =>
             /\ outbound'[i].id \in Requests /\ Issued(outbound'[i].id)
             /\ written[outbound'[i].id] = 0
      BY <1>1, <1>2, <1>4 DEF VInv, TypeInv, VenueMessages, WrittenInv, RequestsOnce, Is
    <2>5. \A i, j \in 1 .. Len(outbound') :
             outbound'[i].kind = "request" /\ outbound'[j].kind = "request"
                /\ outbound'[i].id = outbound'[j].id => i = j
      BY <1>4 DEF VInv, WrittenInv, RequestsOnce, Is
    <2>6. \A i \in 1 .. Len(posted'), j \in 1 .. Len(outbound') :
             posted'[i].kind = "request" /\ outbound'[j].kind = "request" =>
                posted'[i].id # outbound'[j].id
      BY <1>4, <2>2 DEF VInv, WrittenInv, Is
    <2>7. RequestsOnce(posted)'
      <3>1. \A i \in 1 .. Len(posted') : Is(posted', i, "request") => Issued(posted[i].id)'
        BY <2>1, <2>2, <2>3 DEF Is
      <3> QED BY <2>2, <3>1 DEF VInv, WrittenInv, RequestsOnce, Is
    <2>8. RequestsOnce(outbound)'
      <3>1. \A i \in 1 .. Len(outbound') : Is(outbound', i, "request") => Issued(outbound[i].id)'
        BY <2>1, <2>4 DEF Is
      <3> QED BY <3>1, <2>5 DEF RequestsOnce, Is
    <2>9. \A r \in Requests : written'[r] = 1 => Issued(r)'
      BY <1>8, <1>9, <1>10, <2>1, <2>4 DEF VInv, WrittenInv
    <2>10. ASSUME NEW i \in 1 .. Len(posted'), Is(posted', i, "request")
           PROVE  written'[posted'[i].id] = 0
      <3>1. posted'[i].id \in Requests /\ written[posted'[i].id] = 0
        BY <2>2, <2>3, <2>10 DEF Is
      <3>2. outbound' # <<>> /\ Head(outbound').kind = "request" => posted'[i].id # Head(outbound').id
        BY <1>9, <2>6, <2>10 DEF Is
      <3> QED BY <3>1, <3>2, <1>8, <1>10
    <2>11. ASSUME NEW i \in 1 .. Len(outbound'), Is(outbound', i, "request")
           PROVE  written'[outbound'[i].id] = IF i = 1 /\ ws'.writing THEN 1 ELSE 0
      <3>1. outbound' # <<>>
        BY <1>4
      <3> QED BY <1>8, <1>9, <1>10, <2>4, <2>5, <2>11, <3>1 DEF Is
    <2> QED BY <2>6, <2>7, <2>8, <2>9, <2>10, <2>11 DEF WrittenInv, Is
  <1>16. TableInv'
    BY <1>1 DEF VInv, TableInv
  <1>17. FreshInv'
    BY <1>8 DEF FreshInv
  <1>18. LoginInv'
    <2>1. Len(wire') = 0
      BY <1>1, <1>2
    <2>2. AtMostOne(wire', "login") /\ None(wire', "login")
      BY <2>1 DEF AtMostOne, None
    <2> QED BY <1>1, <1>2, <1>6, <1>7, <2>2 DEF VInv, LoginInv, NewPeer
  <1>19. ReadyInv'
    <2>1. Len(inbox') = 0 /\ ~told
      BY <1>1, <1>2 DEF VInv, ReadyInv
    <2> QED BY <1>1, <1>2, <2>1 DEF ReadyInv, NewPeer
  <1> QED BY <1>12, <1>13, <1>14, <1>15, <1>16, <1>17, <1>18, <1>19 DEF VInv

\* The heartbeat queues a ping, past the limit if need be.
LEMMA HeartbeatVInv ==
    ASSUME VInv, HeartbeatSends
    PROVE  VInv'
  <1> DEFINE m == Message("ping", NoId)
  <1>1. /\ ws.stage = "open" /\ stopping = "no"
        /\ posted = <<>> /\ ToSet(outbound) \cap {m} = {}
        /\ outbound' = Append(outbound, m) /\ count' = count + 1
        /\ ws' = Write([ws EXCEPT !.timer = "off"], outbound')
        /\ UNCHANGED <<venue, posted, wire, inbox, peer, adapter, told, pending, caller, clock,
                       stopping, written, faults>>
    BY DEF HeartbeatSends, threadVars
  <1>2. m \in VenueMessages /\ m.kind = "ping"
    BY DEF Message, VenueMessages, Kinds
  <1> HIDE DEF m
  <1>3. /\ outbound' \in Seq(VenueMessages) /\ outbound' # <<>>
        /\ Len(outbound) \in Nat /\ Len(outbound') = Len(outbound) + 1
        /\ \A i \in 1 .. Len(outbound) : outbound'[i] = outbound[i]
        /\ outbound'[Len(outbound) + 1] = m
    BY <1>1, <1>2, AppendFacts DEF VInv, TypeInv
  <1>4. None(outbound, "ping")
    <2> SUFFICES ASSUME NEW i \in 1 .. Len(outbound), outbound[i].kind = "ping" PROVE FALSE
      BY DEF None, Is
    <2>1. outbound[i] = m
      BY DEF VInv, TypeInv, VenueMessages, m
    <2>2. outbound[i] \in ToSet(outbound)
      BY DEF ToSet, VInv, TypeInv
    <2> QED BY <1>1, <2>1, <2>2
  <1>5. \A kind : /\ None(outbound', kind) <=> None(outbound, kind) /\ "ping" # kind
                  /\ AtMostOne(outbound, kind) /\ (None(outbound, kind) \/ "ping" # kind) =>
                        AtMostOne(outbound', kind)
    BY <1>1, <1>2, AppendKinds DEF VInv, TypeInv
  <1>6. /\ ws' \in [stage : {"connecting", "open", "waiting", "stopped"}, writing : BOOLEAN,
                    timer : {"off", "idle", "timeout"}, awaiting : BOOLEAN]
        /\ ws'.stage = "open" /\ ws'.writing = TRUE
    BY <1>1, <1>3 DEF Write, VInv, TypeInv
  <1>7. count' \in Nat /\ count' = Len(posted') + Len(outbound')
    BY <1>1, <1>3 DEF VInv, TypeInv, CountInv
  <1>8. TypeInv'
    BY <1>1, <1>3, <1>6, <1>7 DEF VInv, TypeInv
  <1>9. WriteInv'
    BY <1>1, <1>3, <1>6 DEF WriteInv
  <1>10. CountInv'
    <2>1. count' <= MaxOutbound + 1
      BY <1>1, <1>4, BoundsAssumption DEF VInv, TypeInv, CountInv
    <2>2. count' <= MaxOutbound \/ count' = MaxOutbound + 1
      BY <2>1, <1>7, BoundsAssumption
    <2> QED BY <2>2, <1>1, <1>4, <1>5, <1>7 DEF VInv, CountInv
  <1>11. WrittenInv'
    <2>1. Len(posted') = 0
      BY <1>1
    <2>2. \A i \in 1 .. Len(outbound') : outbound'[i].kind = "request" =>
             /\ i \in 1 .. Len(outbound) /\ outbound'[i] = outbound[i]
      BY <1>2, <1>3
    <2>3. RequestsOnce(posted)'
      BY <2>1 DEF RequestsOnce
    <2>4. RequestsOnce(outbound)'
      <3>1. \A i \in 1 .. Len(outbound') : Is(outbound', i, "request") => Issued(outbound[i].id)'
        BY <2>2, <1>1 DEF VInv, WrittenInv, RequestsOnce, Is, Issued
      <3> QED BY <2>2, <3>1 DEF VInv, WrittenInv, RequestsOnce, Is
    <2>5. \A r \in Requests : written'[r] = 1 => Issued(r)'
      BY <1>1 DEF VInv, WrittenInv, Issued
    <2>6. ASSUME NEW i \in 1 .. Len(outbound'), Is(outbound', i, "request")
          PROVE  written'[outbound'[i].id] = IF i = 1 /\ ws'.writing THEN 1 ELSE 0
      <3>1. i \in 1 .. Len(outbound) /\ outbound'[i] = outbound[i] /\ outbound # <<>>
        BY <2>2, <2>6, <1>3 DEF Is
      <3>2. ws.writing
        BY <1>1, <3>1 DEF VInv, WriteInv
      <3> QED BY <3>1, <3>2, <2>6, <1>1, <1>6 DEF VInv, WrittenInv, Is
    <2> QED BY <2>1, <2>3, <2>4, <2>5, <2>6 DEF WrittenInv
  <1>12. TableInv'
    BY <1>1 DEF VInv, TableInv
  <1>13. FreshInv'
    BY <1>6 DEF FreshInv
  <1>14. LoginInv'
    BY <1>1, <1>5 DEF VInv, LoginInv
  <1>15. ReadyInv'
    BY <1>1, <1>6, ReadyStays DEF VInv
  <1> QED BY <1>8, <1>9, <1>10, <1>11, <1>12, <1>13, <1>14, <1>15 DEF VInv

\* Steps that leave the queues of the socket, the callers and what was told alone: the reconnect
\* timer, and a peer that falls silent.
LEMMA TimerVInv ==
    ASSUME VInv, ReconnectTimer \/ PeerDies
    PROVE  VInv'
  <1>1. /\ UNCHANGED <<venue, posted, outbound, count, inbox, adapter, told, pending, caller,
                       clock, stopping, written>>
        /\ wire' \in {wire, <<>>}
    BY DEF ReconnectTimer, PeerDies, threadVars
  <1>0. \A kind : None(<<>>, kind) /\ AtMostOne(<<>>, kind)
    BY DEF None, AtMostOne, Is
  <1>2. /\ ws' \in [stage : {"connecting", "open", "waiting", "stopped"}, writing : BOOLEAN,
                    timer : {"off", "idle", "timeout"}, awaiting : BOOLEAN]
        /\ ws'.writing = ws.writing
        /\ ws' = ws \/ (ws.stage = "waiting" /\ ws'.stage = "connecting")
    BY DEF ReconnectTimer, PeerDies, VInv, TypeInv
  <1>3. /\ peer' \in [alive : BOOLEAN, loggedIn : BOOLEAN, accepted : BOOLEAN, refused : BOOLEAN]
        /\ peer'.loggedIn = peer.loggedIn /\ peer'.accepted = peer.accepted
        /\ peer' = peer \/ ws'.stage = "open"
    BY DEF ReconnectTimer, PeerDies, VInv, TypeInv
  <1>4. TypeInv'
    <2>1. wire' \in Seq(VenueMessages)
      <3>1. wire \in Seq(VenueMessages)
        BY DEF VInv, TypeInv
      <3>2. <<>> \in Seq(VenueMessages)
        OBVIOUS
      <3> QED BY <1>1, <3>1, <3>2
    <2> QED BY <1>1, <1>2, <1>3, <2>1 DEF VInv, TypeInv
  <1>5. WriteInv'
    BY <1>1, <1>2 DEF VInv, WriteInv
  <1>6. CountInv'
    BY <1>1 DEF VInv, CountInv, None, AtMostOne, Is
  <1>7. WrittenInv'
    <2>1. \A r \in Requests : Issued(r) => Issued(r)'
      BY <1>1 DEF Issued
    <2>2. ws'.stage # "stopped" => ws.stage # "stopped" /\ ws'.writing = ws.writing
      BY <1>2
    <2> QED BY <1>1, <1>4, <2>1, <2>2, WrittenStays DEF VInv
  <1>8. TableInv'
    BY <1>1 DEF VInv, TableInv
  <1>9. FreshInv'
    BY <1>1, <1>2, <1>3 DEF VInv, FreshInv, None, Is
  <1>10. LoginInv'
    BY <1>0, <1>1, <1>3 DEF VInv, LoginInv
  <1>11. ReadyInv'
    <2>1. told => ws' = ws
      BY <1>2 DEF VInv, ReadyInv
    <2> QED BY <1>1, <1>3, <2>1, ReadyStays DEF VInv
  <1> QED BY <1>4, <1>5, <1>6, <1>7, <1>8, <1>9, <1>10, <1>11 DEF VInv

\* The venue answers the message in front.
LEMMA AnswersVInv ==
    ASSUME VInv, NEW ok \in BOOLEAN, VenueAnswers(ok)
    PROVE  VInv'
  <1> DEFINE m == Head(wire)
             early == venue = "OKX" /\ m.kind = "subscribe" /\ ~peer.loggedIn
             a == [kind |-> m.kind, id |-> m.id, live |-> m.live, ok |-> ok]
  <1>1. /\ wire # <<>> /\ ws.stage = "open" /\ wire' = Tail(wire) /\ inbox' = Append(inbox, a)
        /\ ok => ~early
        /\ peer' = [peer EXCEPT !.loggedIn = @ \/ (m.kind = "login" /\ ok),
                                !.refused = @ \/ (venue = "OKX" /\ ~ok /\ ~early),
                                !.accepted = @ \/ (m.kind = "subscribe" /\ ok)]
        /\ UNCHANGED <<venue, ws, posted, outbound, count, adapter, told, pending, caller, clock,
                       stopping, written>>
    BY DEF VenueAnswers, threadVars
  <1>2. m \in VenueMessages /\ wire' \in Seq(VenueMessages)
    BY <1>1, TailFacts DEF VInv, TypeInv
  <1>3. a \in Answers /\ a.kind = m.kind /\ a.ok = ok
    BY <1>2 DEF Answers, VenueMessages
  <1>4. /\ inbox' \in Seq(Answers) /\ Len(inbox) \in Nat /\ Len(inbox') = Len(inbox) + 1
        /\ \A i \in 1 .. Len(inbox) : inbox'[i] = inbox[i]
        /\ inbox'[Len(inbox) + 1] = a
    <2> HIDE DEF a
    <2> QED BY <1>1, <1>3, AppendFacts DEF VInv, TypeInv
  <1>5. \A kind : /\ None(wire, kind) => None(wire', kind) /\ m.kind # kind
                  /\ AtMostOne(wire, kind) => AtMostOne(wire', kind)
                  /\ AtMostOne(wire, kind) /\ m.kind = kind => None(wire', kind)
    <2>1. wire \in Seq(VenueMessages) /\ wire # <<>>
      BY <1>1 DEF VInv, TypeInv
    <2> TAKE kind
    <2> QED BY <1>1, <2>1, TailKinds
  <1>6. /\ peer' \in [alive : BOOLEAN, loggedIn : BOOLEAN, accepted : BOOLEAN, refused : BOOLEAN]
        /\ peer'.loggedIn = (peer.loggedIn \/ (m.kind = "login" /\ ok))
        /\ peer'.accepted = (peer.accepted \/ (m.kind = "subscribe" /\ ok))
    <2>1. peer \in [alive : BOOLEAN, loggedIn : BOOLEAN, accepted : BOOLEAN, refused : BOOLEAN]
      BY DEF VInv, TypeInv
    <2> HIDE DEF a, m, early
    <2> QED BY <1>1, <2>1
  <1>7. ok /\ m.kind = "subscribe" /\ venue = "OKX" => peer.loggedIn
    BY <1>1
  <1>8. told => ws.stage = "open" /\ peer.accepted /\ adapter.subscribed
                /\ (venue = "OKX" => None(inbox, "login"))
    BY DEF VInv, ReadyInv
  <1> HIDE DEF m, early, a
  <1>9. TypeInv'
    BY <1>1, <1>2, <1>4, <1>6 DEF VInv, TypeInv
  <1>10. WriteInv'
    BY <1>1 DEF VInv, WriteInv
  <1>11. CountInv'
    BY <1>1 DEF VInv, CountInv, None, AtMostOne, Is
  <1>12. WrittenInv'
    <2>1. \A r \in Requests : Issued(r) => Issued(r)'
      BY <1>1 DEF Issued
    <2> QED BY <1>1, <1>9, <2>1, WrittenStays DEF VInv
  <1>13. TableInv'
    BY <1>1 DEF VInv, TableInv
  <1>14. FreshInv'
    BY <1>1 DEF FreshInv
  <1>15. LoginInv'
    <2>1. None(wire, "login") => m.kind # "login"
      BY <1>5
    <2> QED BY <1>1, <1>5, <1>6, <2>1, ZenonT(40) DEF VInv, LoginInv, None, AtMostOne, Is
  <1>16. ReadyInv'
    <2>1. peer.loggedIn => m.kind # "login"
      BY <1>5 DEF VInv, LoginInv
    <2>2. venue' = "OKX" /\ peer'.accepted => peer'.loggedIn
      BY <1>1, <1>6, <1>7 DEF VInv, ReadyInv
    <2>3. ASSUME NEW i \in 1 .. Len(inbox'), Is(inbox', i, "subscribe"), inbox'[i].ok
          PROVE  /\ peer'.accepted
                 /\ venue' = "OKX" => \A j \in i .. Len(inbox') : ~Is(inbox', j, "login")
      <3>1. CASE i \in 1 .. Len(inbox)
        <4>1. /\ peer.accepted
              /\ venue = "OKX" => \A j \in i .. Len(inbox) : inbox[j].kind # "login"
          BY <2>3, <3>1, <1>4 DEF VInv, ReadyInv, Is
        <4>2. venue = "OKX" => peer.loggedIn
          BY <4>1 DEF VInv, ReadyInv
        <4>3. venue = "OKX" => m.kind # "login"
          BY <4>2, <2>1
        <4>4. \A j \in i .. Len(inbox') : j \in i .. Len(inbox) \/ j = Len(inbox) + 1
          BY <1>4
        <4>5. \A j \in i .. Len(inbox) : inbox'[j] = inbox[j]
          BY <1>4
        <4>6. peer'.accepted
          BY <4>1, <1>6
        <4>7. venue = "OKX" => \A j \in i .. Len(inbox') : inbox'[j].kind # "login"
          BY <4>1, <4>3, <4>4, <4>5, <1>3, <1>4
        <4> QED BY <4>6, <4>7, <1>1 DEF Is
      <3>2. CASE i = Len(inbox) + 1
        <4>1. m.kind = "subscribe" /\ ok
          BY <2>3, <3>2, <1>3, <1>4 DEF Is
        <4>2. \A j \in i .. Len(inbox') : j = i
          BY <3>2, <1>4
        <4> QED BY <4>1, <4>2, <2>3, <1>6 DEF Is
      <3> QED BY <3>1, <3>2, <1>4
    <2>4. told' => /\ ws'.stage = "open" /\ peer'.accepted /\ adapter'.subscribed
                   /\ venue' = "OKX" => None(inbox', "login")
      <3>1. told /\ venue = "OKX" => peer.loggedIn
        BY <1>8 DEF VInv, ReadyInv
      <3>2. None(inbox, "login") /\ m.kind # "login" => None(inbox', "login")
        BY <1>3, <1>4 DEF None, Is
      <3> QED BY <1>1, <1>6, <1>8, <2>1, <3>1, <3>2
    <2> QED BY <2>2, <2>3, <2>4 DEF ReadyInv
  <1> QED BY <1>9, <1>10, <1>11, <1>12, <1>13, <1>14, <1>15, <1>16 DEF VInv
-----------------------------------------------------------------------------
(* What the adapter makes of an answer *)

\* An answer is read: what remains of the inbox.
LEMMA ReadFacts ==
    ASSUME VInv, NEW kinds, Read(kinds)
    PROVE  /\ Answer \in Answers /\ Answer.kind \in kinds /\ Answer = inbox[1] /\ 1 \in 1 .. Len(inbox)
           /\ inbox' \in Seq(Answers) /\ Len(inbox) \in Nat /\ Len(inbox') = Len(inbox) - 1
           /\ \A i \in 1 .. Len(inbox') : i + 1 \in 1 .. Len(inbox) /\ inbox'[i] = inbox[i + 1]
           /\ ws.stage = "open" /\ stopping = "no"
           /\ ws' \in [stage : {"connecting", "open", "waiting", "stopped"}, writing : BOOLEAN,
                       timer : {"off", "idle", "timeout"}, awaiting : BOOLEAN]
           /\ ws'.stage = "open" /\ ws'.writing = ws.writing
           /\ UNCHANGED <<venue, outbound, wire, peer, clock, stopping, written>>
  <1>1. /\ inbox # <<>> /\ ws.stage = "open" /\ stopping = "no" /\ Head(inbox).kind \in kinds
        /\ inbox' = Tail(inbox) /\ ws' = Heard(Head(inbox).kind)
        /\ UNCHANGED <<venue, outbound, wire, peer, clock, stopping, written>>
    BY DEF Read
  <1>2. /\ inbox' \in Seq(Answers) /\ Len(inbox) \in Nat \ {0} /\ Len(inbox') = Len(inbox) - 1
        /\ Answer = inbox[1] /\ Answer \in Answers
        /\ \A i \in 1 .. Len(inbox') : i + 1 \in 1 .. Len(inbox) /\ inbox'[i] = inbox[i + 1]
    BY <1>1, TailFacts DEF VInv, TypeInv, Answer
  <1>3. /\ ws' \in [stage : {"connecting", "open", "waiting", "stopped"}, writing : BOOLEAN,
                    timer : {"off", "idle", "timeout"}, awaiting : BOOLEAN]
        /\ ws'.stage = "open" /\ ws'.writing = ws.writing
    BY <1>1 DEF Heard, VInv, TypeInv
  <1> QED BY <1>1, <1>2, <1>3 DEF Answer

\* Reading an answer keeps the invariant, if the table of requests and what is told stay right: the
\* adapter may send anything but a login, a ping or a request.
LEMMA ReadVInv ==
    ASSUME VInv, NEW kinds, Read(kinds),
           UNCHANGED <<posted, count>> \/ SendNow(Message("subscribe", NoId)),
           adapter' \in [subscribed : BOOLEAN, requested : BOOLEAN, error : BOOLEAN, clock : BOOLEAN],
           pending' \subseteq Callers,
           caller' \in [Callers -> [pc : {"idle", "sign", "again", "enlist", "send", "wait", "erase"}, n : Nat,
                                    promise : {"none", "failed", "value"},
                                    outcome : {"none", "unknown", "answered", "lost"}]],
           \A c \in Callers : caller'[c].pc = caller[c].pc /\ caller'[c].n = caller[c].n,
           TableInv', told' \in BOOLEAN,
           told' => /\ peer.accepted /\ adapter'.subscribed
                    /\ venue = "OKX" => None(inbox', "login")
    PROVE  VInv'
  <1>1. /\ inbox' \in Seq(Answers) /\ Len(inbox) \in Nat /\ Len(inbox') = Len(inbox) - 1
        /\ \A i \in 1 .. Len(inbox') : i + 1 \in 1 .. Len(inbox) /\ inbox'[i] = inbox[i + 1]
        /\ ws.stage = "open" /\ stopping = "no"
        /\ ws' \in [stage : {"connecting", "open", "waiting", "stopped"}, writing : BOOLEAN,
                    timer : {"off", "idle", "timeout"}, awaiting : BOOLEAN]
        /\ ws'.stage = "open" /\ ws'.writing = ws.writing
        /\ UNCHANGED <<venue, outbound, wire, peer, clock, stopping, written>>
    BY ReadFacts
  <1> DEFINE m == Message("subscribe", NoId)
  <1>2. m \in VenueMessages /\ m.kind = "subscribe"
    BY DEF Message, VenueMessages, Kinds
  <1> HIDE DEF m
  <1>3. /\ posted' \in Seq(VenueMessages) /\ count' \in Nat /\ CountInv'
        /\ None(posted, "login") => None(posted', "login")
        /\ AtMostOne(posted, "login") => AtMostOne(posted', "login")
    <2>1. CASE UNCHANGED <<posted, count>>
      BY <2>1, <1>1 DEF VInv, TypeInv, CountInv, None, AtMostOne, Is
    <2>2. CASE SendNow(m)
      BY <2>2, <1>1, <1>2, SendParts DEF VInv
    <2> QED BY <2>1, <2>2 DEF m
  <1>4. TypeInv'
    BY <1>1, <1>3 DEF VInv, TypeInv
  <1>5. WriteInv'
    BY <1>1 DEF VInv, WriteInv
  <1>6. WrittenInv'
    <2>1. \A r \in Requests : Issued(r) => Issued(r)'
      BY DEF Issued, Requests
    <2>2. ws'.stage # "stopped" => ws.stage # "stopped" /\ ws'.writing = ws.writing
      BY <1>1
    <2>3. CASE UNCHANGED <<posted, count>>
      BY <2>1, <2>2, <2>3, <1>1, <1>4, WrittenStays DEF VInv
    <2>4. CASE SendNow(m)
      BY <2>1, <2>2, <2>4, <1>1, <1>2, <1>4, WrittenSends DEF VInv
    <2> QED BY <2>3, <2>4 DEF m
  <1>7. FreshInv'
    BY <1>1 DEF FreshInv
  <1>8. LoginInv'
    BY <1>1, <1>3 DEF VInv, LoginInv, None, AtMostOne, Is
  <1>9. ReadyInv'
    <2>1. ASSUME NEW i \in 1 .. Len(inbox'), Is(inbox', i, "subscribe"), inbox'[i].ok
          PROVE  /\ peer'.accepted
                 /\ venue' = "OKX" => \A j \in i .. Len(inbox') : ~Is(inbox', j, "login")
      <3>1. i + 1 \in 1 .. Len(inbox) /\ inbox'[i] = inbox[i + 1]
        BY <1>1
      <3>2. /\ peer.accepted
            /\ venue = "OKX" => \A j \in i + 1 .. Len(inbox) : inbox[j].kind # "login"
        BY <2>1, <3>1 DEF VInv, ReadyInv, Is
      <3>3. \A j \in i .. Len(inbox') : j + 1 \in i + 1 .. Len(inbox) /\ inbox'[j] = inbox[j + 1]
        BY <1>1
      <3> QED BY <1>1, <3>2, <3>3, SMTT(30) DEF Is
    <2>2. venue' = "OKX" /\ peer'.accepted => peer'.loggedIn
      BY <1>1 DEF VInv, ReadyInv
    <2>3. told' => /\ ws'.stage = "open" /\ peer'.accepted /\ adapter'.subscribed
                   /\ venue' = "OKX" => None(inbox', "login")
      BY <1>1
    <2> QED BY <2>1, <2>2, <2>3 DEF ReadyInv
  <1> QED BY <1>3, <1>4, <1>5, <1>6, <1>7, <1>8, <1>9 DEF VInv

\* What remains after a reading: no login, when there was none.
LEMMA ReadNoLogin ==
    ASSUME VInv, NEW kinds, Read(kinds)
    PROVE  /\ None(inbox, "login") => None(inbox', "login")
           /\ Answer.kind = "subscribe" /\ Answer.ok =>
                 peer.accepted /\ (venue = "OKX" => None(inbox', "login"))
  <1>1. /\ Answer = inbox[1] /\ 1 \in 1 .. Len(inbox) /\ Len(inbox) \in Nat
        /\ Len(inbox') = Len(inbox) - 1
        /\ \A i \in 1 .. Len(inbox') : i + 1 \in 1 .. Len(inbox) /\ inbox'[i] = inbox[i + 1]
    BY ReadFacts
  <1>2. None(inbox, "login") => None(inbox', "login")
    BY <1>1 DEF None, Is
  <1>3. Answer.kind = "subscribe" /\ Answer.ok =>
           peer.accepted /\ (venue = "OKX" => None(inbox, "login"))
    BY <1>1 DEF VInv, ReadyInv, None, Is
  <1> QED BY <1>2, <1>3

\* The adapters' callbacks keep the invariant.
LEMMA ReadStepVInv ==
    ASSUME VInv, ReadStep
    PROVE  VInv'
  <1>0. /\ adapter \in [subscribed : BOOLEAN, requested : BOOLEAN, error : BOOLEAN, clock : BOOLEAN]
        /\ told \in BOOLEAN /\ pending \subseteq Callers
        /\ caller \in [Callers -> [pc : {"idle", "sign", "again", "enlist", "send", "wait", "erase"}, n : Nat,
                                   promise : {"none", "failed", "value"},
                                   outcome : {"none", "unknown", "answered", "lost"}]]
    BY DEF VInv, TypeInv
  <1>1. UNCHANGED <<pending, caller>> => TableInv'
    BY DEF VInv, TableInv
  <1>2. told => peer.accepted /\ adapter.subscribed /\ (venue = "OKX" => None(inbox, "login"))
    BY DEF VInv, ReadyInv
  <1>3. \A c \in Callers : caller[c].pc = caller[c].pc /\ caller[c].n = caller[c].n
    OBVIOUS
  <1>4. CASE ReadPong
    <2>1. Read({"ping"}) /\ UNCHANGED <<posted, count, adapter, told, pending, caller>>
      BY <1>4 DEF ReadPong
    <2>2. told' => /\ peer.accepted /\ adapter'.subscribed
                   /\ venue = "OKX" => None(inbox', "login")
      BY <2>1, <1>2, ReadNoLogin
    <2> QED BY <2>1, <2>2, <1>0, <1>1, ReadVInv
  <1>5. CASE BinanceTime
    <2>1. venue = "Binance" /\ Read({"time"}) /\ UNCHANGED <<pending, caller>>
      BY <1>5 DEF BinanceTime
    <2>2. /\ UNCHANGED <<posted, count>> \/ SendNow(Message("subscribe", NoId))
          /\ adapter' \in [subscribed : BOOLEAN, requested : BOOLEAN, error : BOOLEAN, clock : BOOLEAN]
          /\ told' = told \/ told' = FALSE
          /\ adapter'.subscribed = adapter.subscribed
      <3>1. CASE ~Answer.live
        BY <1>5, <3>1, <1>0 DEF BinanceTime
      <3>2. CASE Answer.live /\ ~Answer.ok
        BY <1>5, <3>2, <1>0 DEF BinanceTime
      <3>3. CASE Answer.live /\ Answer.ok
        <4>1. /\ UNCHANGED told
              /\ \/ adapter' = [adapter EXCEPT !.clock = TRUE] /\ UNCHANGED <<posted, count>>
                 \/ /\ adapter' = [adapter EXCEPT !.clock = TRUE, !.requested = TRUE]
                    /\ SendNow(Message("subscribe", NoId))
          BY <1>5, <3>3 DEF BinanceTime
        <4> QED BY <4>1, <1>0
      <3> QED BY <3>1, <3>2, <3>3
    <2>3. told' => /\ peer.accepted /\ adapter'.subscribed
                   /\ venue = "OKX" => None(inbox', "login")
      BY <2>1, <2>2, <1>2
    <2>4. told' \in BOOLEAN
      BY <2>2, <1>0
    <2> QED BY <2>1, <2>2, <2>3, <2>4, <1>0, <1>1, ReadVInv
  <1>6. CASE BinanceSubscribed
    <2>1. /\ venue = "Binance" /\ Read({"subscribe"})
          /\ UNCHANGED <<posted, count, pending, caller>>
      BY <1>6 DEF BinanceSubscribed
    <2>2. Answer \in Answers /\ Answer.kind = "subscribe"
      BY <2>1, ReadFacts
    <2>3. Answer.ok \in BOOLEAN
      BY <2>2 DEF Answers
    <2>4. /\ adapter' \in [subscribed : BOOLEAN, requested : BOOLEAN, error : BOOLEAN, clock : BOOLEAN]
          /\ \/ told' = told /\ adapter' = adapter
             \/ told' = Answer.ok /\ adapter'.subscribed = Answer.ok
      BY <1>6, <1>0, <2>3 DEF BinanceSubscribed, StillRequested
    <2>5. told' => /\ peer.accepted /\ adapter'.subscribed
                   /\ venue = "OKX" => None(inbox', "login")
      BY <2>1, <2>2, <2>4, <1>2, ReadNoLogin
    <2>6. told' \in BOOLEAN
      BY <2>3, <2>4, <1>0
    <2> QED BY <2>1, <2>4, <2>5, <2>6, <1>0, <1>1, ReadVInv
  <1>7. CASE BinanceAnswer
    <2>1. Read({"request"}) /\ UNCHANGED <<posted, count, adapter, told>>
      BY <1>7 DEF BinanceAnswer
    <2>2. /\ pending' \subseteq Callers
          /\ caller' \in [Callers -> [pc : {"idle", "sign", "again", "enlist", "send", "wait", "erase"}, n : Nat,
                                      promise : {"none", "failed", "value"},
                                      outcome : {"none", "unknown", "answered", "lost"}]]
          /\ \A c \in Callers : caller'[c].pc = caller[c].pc /\ caller'[c].n = caller[c].n
          /\ TableInv'
      <3> DEFINE c == Answer.id[1]
      <3>1. CASE c \in pending /\ caller[c].n = Answer.id[2]
        <4>1. pending' = pending \ {c} /\ caller' = [caller EXCEPT ![c].promise = "value"]
          BY <3>1, <1>7 DEF BinanceAnswer
        <4>2. c \in Callers /\ caller[c].pc \in {"send", "wait", "erase"}
          BY <3>1, <1>0 DEF VInv, TableInv
        <4> HIDE DEF c
        <4>3. /\ \A d \in Callers : caller'[d].pc = caller[d].pc /\ caller'[d].n = caller[d].n
              /\ \A d \in Callers : d # c => caller'[d] = caller[d]
          BY <4>1, <4>2, <1>0
        <4>4. TableInv'
          BY <4>1, <4>2, <4>3, <1>0 DEF VInv, TableInv
        <4>5. caller' \in [Callers -> [pc : {"idle", "sign", "again", "enlist", "send", "wait", "erase"}, n : Nat,
                                       promise : {"none", "failed", "value"},
                                       outcome : {"none", "unknown", "answered", "lost"}]]
          BY <4>1, <4>2, <1>0
        <4> QED BY <4>1, <4>3, <4>4, <4>5, <1>0
      <3>2. CASE ~(c \in pending /\ caller[c].n = Answer.id[2])
        <4>1. UNCHANGED <<pending, caller>>
          BY <3>2, <1>7 DEF BinanceAnswer
        <4> QED BY <4>1, <1>0, <1>1
      <3> QED BY <3>1, <3>2
    <2>3. told' => /\ peer.accepted /\ adapter'.subscribed
                   /\ venue = "OKX" => None(inbox', "login")
      BY <2>1, <1>2, ReadNoLogin
    <2> QED BY <2>1, <2>2, <2>3, <1>0, ReadVInv
  <1>8. CASE OkxLogin
    <2>1. venue = "OKX" /\ Read({"login"}) /\ UNCHANGED <<pending, caller>>
      BY <1>8 DEF OkxLogin
    <2>2. ~told
      <3>1. Answer.kind = "login" /\ Answer = inbox[1] /\ 1 \in 1 .. Len(inbox)
        BY <2>1, ReadFacts
      <3> QED BY <3>1, <2>1, <1>2 DEF None, Is
    <2>3. /\ UNCHANGED <<posted, count>> \/ SendNow(Message("subscribe", NoId))
          /\ adapter' = [adapter EXCEPT !.subscribed = FALSE]
          /\ told' = told \/ told' = FALSE
      BY <1>8 DEF OkxLogin
    <2>4. /\ adapter' \in [subscribed : BOOLEAN, requested : BOOLEAN, error : BOOLEAN, clock : BOOLEAN]
          /\ told' = FALSE
      BY <2>2, <2>3, <1>0
    <2> QED BY <2>1, <2>3, <2>4, <1>0, <1>1, ReadVInv
  <1>9. CASE OkxSubscribed
    <2>1. /\ venue = "OKX" /\ Read({"subscribe"})
          /\ adapter' = [adapter EXCEPT !.subscribed = Answer.ok] /\ told' = Answer.ok
          /\ UNCHANGED <<posted, count, pending, caller>>
      BY <1>9 DEF OkxSubscribed
    <2>2. Answer \in Answers /\ Answer.kind = "subscribe"
      BY <2>1, ReadFacts
    <2>3. Answer.ok \in BOOLEAN
      BY <2>2 DEF Answers
    <2>4. /\ adapter' \in [subscribed : BOOLEAN, requested : BOOLEAN, error : BOOLEAN, clock : BOOLEAN]
          /\ adapter'.subscribed = Answer.ok
      BY <2>1, <2>3, <1>0
    <2>5. told' => /\ peer.accepted /\ adapter'.subscribed
                   /\ venue = "OKX" => None(inbox', "login")
      BY <2>1, <2>2, <2>4, ReadNoLogin
    <2> QED BY <2>1, <2>3, <2>4, <2>5, <1>0, <1>1, ReadVInv
  <1> QED BY <1>4, <1>5, <1>6, <1>7, <1>8, <1>9 DEF ReadStep
-----------------------------------------------------------------------------
(* The callers, the clock thread, stop() *)

\* The records of the callers.
CallerType == [pc : {"idle", "sign", "again", "enlist", "send", "wait", "erase"}, n : Nat,
               promise : {"none", "failed", "value"},
               outcome : {"none", "unknown", "answered", "lost"}]

\* A step of a thread that leaves the socket and the session alone keeps the invariant when it
\* keeps the account of the requests.
LEMMA ThreadVInv ==
    ASSUME VInv, UNCHANGED <<venue, ws, outbound, wire, inbox, peer, adapter, told, stopping, written>>,
           posted' \in Seq(VenueMessages), count' \in Nat, CountInv',
           None(posted, "login") => None(posted', "login"),
           AtMostOne(posted, "login") => AtMostOne(posted', "login"),
           pending' \subseteq Callers, caller' \in [Callers -> CallerType],
           clock' \in {"idle", "name", "send", "joined"}, TableInv',
           TypeInv' => WrittenInv'
    PROVE  VInv'
  <1>1. TypeInv'
    BY DEF VInv, TypeInv, CallerType
  <1>2. WriteInv'
    BY DEF VInv, WriteInv
  <1>3. FreshInv'
    BY DEF VInv, FreshInv, None, Is
  <1>4. LoginInv'
    BY DEF VInv, LoginInv, None, AtMostOne, Is
  <1>5. ReadyInv'
    BY ReadyStays DEF VInv
  <1> QED BY <1>1, <1>2, <1>3, <1>4, <1>5 DEF VInv

\* A caller that sends nothing: it moves on within its call, begins a new one or returns.
LEMMA MoveVInv ==
    ASSUME VInv, NEW c \in Callers, Caller(c), UNCHANGED <<posted, count>>,
           NEW r \in CallerType, caller' = [caller EXCEPT ![c] = r],
           pending' \subseteq pending \cup {c},
           c \in pending' => r.pc \in {"send", "wait", "erase"} /\ r.promise = "none",
           r.pc \in {"sign", "again", "enlist"} => r.promise = "none",
           r.pc # "idle" => r.n \in 1 .. MaxRequests,
           \/ r.n > caller[c].n
           \/ r.n = caller[c].n /\ (r.pc \in {"sign", "again", "enlist", "send"} =>
                                       caller[c].pc \in {"sign", "again", "enlist", "send"})
    PROVE  VInv'
  <1>1. UNCHANGED <<venue, ws, outbound, wire, inbox, peer, adapter, told, clock, stopping, written>>
    BY DEF Caller
  <1>2. caller \in [Callers -> CallerType] /\ pending \subseteq Callers /\ clock' = clock
        /\ posted' \in Seq(VenueMessages) /\ count' \in Nat
        /\ clock \in {"idle", "name", "send", "joined"}
    BY <1>1 DEF VInv, TypeInv, CallerType
  <1>3. caller' \in [Callers -> CallerType] /\ caller'[c] = r
        /\ \A d \in Callers : d # c => caller'[d] = caller[d]
    BY <1>2
  <1>4. TableInv'
    BY <1>2, <1>3 DEF VInv, TableInv
  <1>5. CountInv'
    BY <1>1 DEF VInv, CountInv, None, AtMostOne, Is
  <1>6. \A q \in Requests : Issued(q) => Issued(q)'
    <2> SUFFICES ASSUME NEW q \in Requests, Issued(q) PROVE Issued(q)'
      OBVIOUS
    <2>1. q[1] \in Callers /\ q[2] \in Nat
      BY BoundsAssumption DEF Requests
    <2>2. CASE q[1] # c
      BY <2>1, <2>2, <1>3 DEF Issued
    <2>3. CASE q[1] = c
      <3>1. caller[c].n \in Nat /\ r.n \in Nat
        BY <1>2 DEF CallerType
      <3>2. q[2] < caller[c].n \/ (q[2] = caller[c].n /\ caller[c].pc \notin {"sign", "again", "enlist", "send"})
        BY <2>3 DEF Issued
      <3>3. q[2] < r.n \/ (q[2] = r.n /\ r.pc \notin {"sign", "again", "enlist", "send"})
        BY <2>1, <3>1, <3>2
      <3> QED BY <2>3, <3>3, <1>3 DEF Issued
    <2> QED BY <2>2, <2>3
  <1>7. TypeInv' => WrittenInv'
    BY <1>1, <1>6, WrittenStays DEF VInv
  <1> QED BY <1>1, <1>2, <1>3, <1>4, <1>5, <1>7, ThreadVInv DEF None, AtMostOne, Is

\* A caller returns from request().
LEMMA ReturnVInv ==
    ASSUME VInv, NEW c \in Callers, Caller(c), UNCHANGED <<posted, count>>,
           NEW outcome \in {"unknown", "answered", "lost"}, Return(c, outcome)
    PROVE  VInv'
  <1> DEFINE r == [caller[c] EXCEPT !.pc = "idle", !.outcome = outcome]
  <1>1. caller \in [Callers -> CallerType] /\ caller[c] \in CallerType
    BY DEF VInv, TypeInv, CallerType
  <1>2. pending' = pending \ {c} /\ caller' = [caller EXCEPT ![c] = r]
    BY <1>1 DEF Return
  <1>3. r \in CallerType /\ r.pc = "idle" /\ r.n = caller[c].n
    BY <1>1 DEF CallerType
  <1> HIDE DEF r
  <1> QED BY <1>2, <1>3, MoveVInv

\* A caller begins a call, signs its request and enlists it in the table.
LEMMA CallVInv ==
    ASSUME VInv, NEW c \in Callers,
           \/ CallBegin(c) \/ Sign(c) \/ ReadyAgain(c) \/ Enlist(c)
           \/ Collect(c) \/ TimesOut(c) \/ Erase(c)
    PROVE  VInv'
  <1>0. caller \in [Callers -> CallerType] /\ caller[c] \in CallerType
    BY DEF VInv, TypeInv, CallerType
  <1>1. CASE CallBegin(c)
    <2> DEFINE r == [Done EXCEPT !.pc = "sign", !.n = caller[c].n + 1]
    <2>1. /\ caller' = [caller EXCEPT ![c] = r] /\ UNCHANGED <<posted, count, pending>> /\ Caller(c)
          /\ caller[c].pc = "idle"
      BY <1>1 DEF CallBegin
    <2>2. r \in CallerType /\ r.pc = "sign" /\ r.promise = "none" /\ r.n > caller[c].n
          /\ r.n \in 1 .. MaxRequests
      <3>1. caller[c].n \in Nat /\ caller[c].n < MaxRequests
        BY <1>0, <1>1 DEF CallerType, CallBegin
      <3>2. caller[c].n + 1 \in 1 .. MaxRequests
        BY <3>1, BoundsAssumption
      <3>3. Done \in CallerType /\ Done.promise = "none"
        BY DEF Done, CallerType
      <3>4. r.pc = "sign" /\ r.promise = "none" /\ r.n = caller[c].n + 1
        BY DEF Done
      <3>5. r \in CallerType
        <4> DEFINE k == caller[c].n + 1
        <4>1. k \in Nat
          BY <3>1
        <4> HIDE DEF k
        <4>2. [Done EXCEPT !.pc = "sign", !.n = k] \in CallerType
          BY <3>3, <4>1 DEF CallerType
        <4> QED BY <4>2 DEF k
      <3> HIDE DEF r
      <3> QED BY <3>1, <3>2, <3>4, <3>5
    <2>3. c \notin pending
      BY <2>1 DEF VInv, TableInv
    <2> HIDE DEF r
    <2> QED BY <2>1, <2>2, <2>3, MoveVInv
  <1>2. CASE Sign(c)
    <2>1. caller[c].pc = "sign" /\ UNCHANGED <<posted, count>> /\ Caller(c)
      BY <1>2 DEF Sign
    <2>2. CASE adapter.clock
      <3> DEFINE r == [caller[c] EXCEPT !.pc = "again"]
      <3>1. caller' = [caller EXCEPT ![c] = r] /\ UNCHANGED pending
        BY <1>0, <1>2, <2>2 DEF Sign
      <3>2. r \in CallerType /\ r.pc = "again" /\ r.n = caller[c].n /\ r.promise = caller[c].promise
        BY <1>0 DEF CallerType
      <3>3. c \notin pending /\ caller[c].promise = "none" /\ caller[c].n \in 1 .. MaxRequests
        BY <2>1 DEF VInv, TableInv
      <3> HIDE DEF r
      <3> QED BY <2>1, <3>1, <3>2, <3>3, MoveVInv
    <2>3. CASE ~adapter.clock
      BY <2>1, <2>3, <1>2, ReturnVInv DEF Sign
    <2> QED BY <2>2, <2>3
  <1>3. CASE ReadyAgain(c)
    <2>1. caller[c].pc = "again" /\ UNCHANGED <<posted, count>> /\ Caller(c)
      BY <1>3 DEF ReadyAgain
    <2>2. CASE adapter.subscribed
      <3> DEFINE r == [caller[c] EXCEPT !.pc = "enlist"]
      <3>1. caller' = [caller EXCEPT ![c] = r] /\ UNCHANGED pending
        BY <1>0, <1>3, <2>2 DEF ReadyAgain
      <3>2. r \in CallerType /\ r.pc = "enlist" /\ r.n = caller[c].n /\ r.promise = caller[c].promise
        BY <1>0 DEF CallerType
      <3>3. c \notin pending /\ caller[c].promise = "none" /\ caller[c].n \in 1 .. MaxRequests
        BY <2>1 DEF VInv, TableInv
      <3> HIDE DEF r
      <3> QED BY <2>1, <3>1, <3>2, <3>3, MoveVInv
    <2>3. CASE ~adapter.subscribed
      BY <2>1, <2>3, <1>3, ReturnVInv DEF ReadyAgain
    <2> QED BY <2>2, <2>3
  <1>4. CASE Enlist(c)
    <2> DEFINE r == [caller[c] EXCEPT !.pc = "send"]
    <2>1. /\ caller[c].pc = "enlist" /\ UNCHANGED <<posted, count>> /\ Caller(c)
          /\ caller' = [caller EXCEPT ![c] = r] /\ pending' = pending \cup {c}
      BY <1>0, <1>4 DEF Enlist
    <2>2. r \in CallerType /\ r.pc = "send" /\ r.n = caller[c].n /\ r.promise = caller[c].promise
      BY <1>0 DEF CallerType
    <2>3. caller[c].promise = "none" /\ caller[c].n \in 1 .. MaxRequests
      BY <2>1 DEF VInv, TableInv
    <2> HIDE DEF r
    <2> QED BY <2>1, <2>2, <2>3, MoveVInv
  <1>5. CASE TimesOut(c)
    <2> DEFINE r == [caller[c] EXCEPT !.pc = "erase"]
    <2>1. /\ caller[c].pc = "wait" /\ UNCHANGED <<posted, count, pending>> /\ Caller(c)
          /\ caller' = [caller EXCEPT ![c] = r] /\ caller[c].promise = "none"
      BY <1>0, <1>5 DEF TimesOut
    <2>2. r \in CallerType /\ r.pc = "erase" /\ r.n = caller[c].n /\ r.promise = caller[c].promise
      BY <1>0 DEF CallerType
    <2>3. caller[c].n \in 1 .. MaxRequests
      BY <2>1 DEF VInv, TableInv
    <2> HIDE DEF r
    <2> QED BY <2>1, <2>2, <2>3, MoveVInv
  <1>6. CASE Collect(c)
    BY <1>6, ReturnVInv DEF Collect
  <1>7. CASE Erase(c)
    BY <1>7, ReturnVInv DEF Erase
  <1> QED BY <1>1, <1>2, <1>3, <1>4, <1>5, <1>6, <1>7

\* A caller gives its request to send().
LEMMA SendVInv ==
    ASSUME VInv, NEW c \in Callers, Send(c)
    PROVE  VInv'
  <1>0. caller \in [Callers -> CallerType] /\ caller[c] \in CallerType
    BY DEF VInv, TypeInv, CallerType
  <1>1. caller[c].pc = "send" /\ SendNow(Message("request", <<c, caller[c].n>>)) /\ Caller(c)
        /\ caller[c].n \in 1 .. MaxRequests
    BY DEF Send, VInv, TableInv
  <1>2. CASE ~CanSend
    <2> DEFINE r == [caller[c] EXCEPT !.pc = "erase"]
    <2>1. caller' = [caller EXCEPT ![c] = r] /\ UNCHANGED <<posted, count, pending>>
      BY <1>0, <1>1, <1>2 DEF Send, SendNow
    <2>2. r \in CallerType /\ r.pc = "erase" /\ r.n = caller[c].n /\ r.promise = caller[c].promise
      BY <1>0 DEF CallerType
    <2>3. c \in pending => caller[c].promise = "none"
      BY DEF VInv, TableInv
    <2> HIDE DEF r
    <2> QED BY <1>1, <2>1, <2>2, <2>3, MoveVInv
  <1>3. CASE CanSend
    <2> DEFINE r == [caller[c] EXCEPT !.pc = "wait"]
    <2>1. caller' = [caller EXCEPT ![c] = r] /\ UNCHANGED pending
      BY <1>0, <1>3 DEF Send
    <2>2. r \in CallerType /\ r.pc = "wait" /\ r.n = caller[c].n /\ r.promise = caller[c].promise
      BY <1>0 DEF CallerType
    <2>3. PICK m \in VenueMessages : /\ m = Message("request", <<c, caller[c].n>>) /\ m.kind = "request"
                                /\ m.id = <<c, caller[c].n>> /\ m.id \in Requests
      <3> DEFINE id == <<c, caller[c].n>>
                 q == Message("request", id)
      <3>1. id \in Requests
        BY <1>1 DEF Requests
      <3> HIDE DEF id
      <3>2. q.kind = "request" /\ q.id = id /\ q \in VenueMessages
        BY <3>1 DEF Message, VenueMessages, Kinds
      <3> HIDE DEF q
      <3> QED BY <3>1, <3>2 DEF id, q
    <2>4. SendNow(m)
      BY <1>1, <2>3
    <2> HIDE DEF r
    <2>5. UNCHANGED <<venue, ws, outbound, wire, inbox, peer, adapter, told, clock, stopping, written>>
      BY <1>1 DEF Caller
    <2>6. caller' \in [Callers -> CallerType] /\ caller'[c] = r
          /\ \A d \in Callers : d # c => caller'[d] = caller[d]
      BY <1>0, <2>1, <2>2
    <2>7. TableInv'
      BY <1>1, <2>1, <2>2, <2>6 DEF VInv, TypeInv, TableInv
    <2>8. \A q \in Requests : Issued(q) => Issued(q)'
      <3> SUFFICES ASSUME NEW q \in Requests, Issued(q) PROVE Issued(q)'
        OBVIOUS
      <3>1. q[1] \in Callers
        BY DEF Requests
      <3>2. CASE q[1] # c
        BY <3>1, <3>2, <2>6 DEF Issued
      <3>3. CASE q[1] = c
        BY <3>3, <2>2, <2>6 DEF Issued
      <3> QED BY <3>2, <3>3
    <2>9. ~Issued(m.id) /\ Issued(m.id)'
      <3>1. m.id[1] = c /\ m.id[2] = caller[c].n /\ caller[c].n \in Nat
        BY <1>0, <2>3 DEF CallerType
      <3>2. ~Issued(m.id)
        BY <1>1, <3>1 DEF Issued
      <3>3. Issued(m.id)'
        BY <3>1, <2>2, <2>6 DEF Issued
      <3> QED BY <3>2, <3>3
    <2>10. posted' \in Seq(VenueMessages) /\ count' \in Nat /\ CountInv'
           /\ (None(posted, "login") => None(posted', "login"))
           /\ (AtMostOne(posted, "login") => AtMostOne(posted', "login"))
      BY <2>3, <2>4, <2>5, SendParts DEF VInv
    <2>11. TypeInv' => WrittenInv'
      BY <2>3, <2>4, <2>5, <2>8, <2>9, WrittenSends DEF VInv
    <2>12. pending' \subseteq Callers /\ clock' \in {"idle", "name", "send", "joined"}
      BY <2>1, <2>5 DEF VInv, TypeInv
    <2> QED BY <2>5, <2>6, <2>7, <2>10, <2>11, <2>12, ThreadVInv
  <1> QED BY <1>2, <1>3

\* The clock thread looks, takes a new id, and asks for the time.
LEMMA ClockVInv ==
    ASSUME VInv, ClockStep
    PROVE  VInv'
  <1>0. /\ pending \subseteq Callers /\ caller \in [Callers -> CallerType]
        /\ posted \in Seq(VenueMessages) /\ count \in Nat
    BY DEF VInv, TypeInv, CallerType
  <1>1. CASE ClockTick
    <2>1. /\ UNCHANGED <<venue, ws, posted, outbound, count, wire, inbox, peer, adapter, told, pending,
                         caller, stopping, written>>
          /\ clock' = "name"
      BY <1>1 DEF ClockTick, socketVars
    <2>2. \A r \in Requests : Issued(r) => Issued(r)'
      BY <2>1 DEF Issued
    <2>3. TypeInv' => WrittenInv'
      BY <2>1, <2>2, WrittenStays DEF VInv
    <2>4. CountInv' /\ TableInv'
      BY <2>1 DEF VInv, CountInv, TableInv, None, AtMostOne, Is
    <2> QED BY <2>1, <2>3, <2>4, <1>0, ThreadVInv
  <1>2. CASE ClockNames
    <2>1. /\ posted' = Outdated(posted, "time") /\ outbound' = Outdated(outbound, "time")
          /\ wire' = Outdated(wire, "time") /\ inbox' = Outdated(inbox, "time") /\ clock' = "send"
          /\ UNCHANGED <<venue, ws, count, peer, adapter, told, pending, caller, stopping, written>>
      BY <1>2 DEF ClockNames
    <2>2. /\ posted' \in Seq(VenueMessages) /\ Len(posted') = Len(posted)
          /\ \A i \in 1 .. Len(posted) : posted'[i].kind = posted[i].kind /\ posted'[i].id = posted[i].id
      BY <2>1, OutdatedFacts DEF VInv, TypeInv, Kinds
    <2>3. /\ outbound' \in Seq(VenueMessages) /\ Len(outbound') = Len(outbound)
          /\ \A i \in 1 .. Len(outbound) :
                outbound'[i].kind = outbound[i].kind /\ outbound'[i].id = outbound[i].id
      BY <2>1, OutdatedFacts DEF VInv, TypeInv, Kinds
    <2>4. /\ wire' \in Seq(VenueMessages) /\ Len(wire') = Len(wire)
          /\ \A i \in 1 .. Len(wire) : wire'[i].kind = wire[i].kind /\ wire'[i].id = wire[i].id
      BY <2>1, OutdatedFacts DEF VInv, TypeInv, Kinds
    <2>5. /\ inbox' \in Seq(Answers) /\ Len(inbox') = Len(inbox) /\ Len(inbox) \in Nat
          /\ \A i \in 1 .. Len(inbox) : inbox'[i].kind = inbox[i].kind /\ inbox'[i].ok = inbox[i].ok
      BY <2>1, OutdatedAnswers DEF VInv, TypeInv, Kinds
    <2>6. \A kind : /\ None(posted', kind) <=> None(posted, kind)
                    /\ AtMostOne(posted', kind) <=> AtMostOne(posted, kind)
                    /\ None(outbound', kind) <=> None(outbound, kind)
                    /\ AtMostOne(outbound', kind) <=> AtMostOne(outbound, kind)
                    /\ None(wire', kind) <=> None(wire, kind)
                    /\ AtMostOne(wire', kind) <=> AtMostOne(wire, kind)
      <3> TAKE kind
      <3>1. /\ None(posted', kind) <=> None(posted, kind)
            /\ AtMostOne(posted', kind) <=> AtMostOne(posted, kind)
        BY <2>2, SameKinds
      <3>2. /\ None(outbound', kind) <=> None(outbound, kind)
            /\ AtMostOne(outbound', kind) <=> AtMostOne(outbound, kind)
        BY <2>3, SameKinds
      <3>3. /\ None(wire', kind) <=> None(wire, kind)
            /\ AtMostOne(wire', kind) <=> AtMostOne(wire, kind)
        BY <2>4, SameKinds
      <3> QED BY <3>1, <3>2, <3>3
    <2>7. None(inbox', "login") <=> None(inbox, "login")
      BY <2>5 DEF None, Is
    <2>8. TypeInv'
      BY <2>1, <2>2, <2>3, <2>4, <2>5 DEF VInv, TypeInv
    <2>9. outbound' = <<>> <=> outbound = <<>>
      BY <2>3 DEF VInv, TypeInv
    <2>10. WriteInv'
      BY <2>1, <2>9 DEF VInv, WriteInv
    <2>11. CountInv'
      BY <2>1, <2>2, <2>3, <2>6 DEF VInv, CountInv
    <2>12. WrittenInv'
      <3>1. \A r \in Requests : Issued(r) => Issued(r)'
        BY <2>1 DEF Issued
      <3> QED BY <2>1, <2>2, <2>3, <2>8, <3>1, WrittenStays DEF VInv
    <2>13. TableInv'
      BY <2>1 DEF VInv, TableInv
    <2>14. FreshInv'
      <3>1. (wire = <<>> => wire' = <<>>) /\ (inbox = <<>> => inbox' = <<>>)
        BY <2>4, <2>5
      <3> QED BY <2>1, <2>6, <3>1 DEF VInv, FreshInv
    <2>15. LoginInv'
      BY <2>1, <2>6 DEF VInv, LoginInv
    <2>16. ReadyInv'
      <3>1. ASSUME NEW i \in 1 .. Len(inbox'), Is(inbox', i, "subscribe"), inbox'[i].ok
            PROVE  /\ peer'.accepted
                   /\ venue' = "OKX" => \A j \in i .. Len(inbox') : ~Is(inbox', j, "login")
        <4>1. /\ peer.accepted
              /\ venue = "OKX" => \A j \in i .. Len(inbox) : ~Is(inbox, j, "login")
          BY <2>5, <3>1 DEF VInv, ReadyInv, Is
        <4>2. \A j \in i .. Len(inbox') : j \in i .. Len(inbox) /\ j \in 1 .. Len(inbox)
          BY <2>5
        <4> QED BY <2>1, <2>5, <4>1, <4>2 DEF Is
      <3> QED BY <2>1, <2>7, <3>1 DEF VInv, ReadyInv
    <2> QED BY <2>8, <2>10, <2>11, <2>12, <2>13, <2>14, <2>15, <2>16 DEF VInv
  <1>3. CASE ClockSends
    <2>1. PICK live \in BOOLEAN : SendNow([Message("time", NoId) EXCEPT !.live = live])
      BY <1>3 DEF ClockSends
    <2>2. PICK m \in VenueMessages : m.kind = "time" /\ SendNow(m)
      <3> DEFINE q == [Message("time", NoId) EXCEPT !.live = live]
      <3>1. q \in VenueMessages /\ q.kind = "time"
        BY DEF Message, VenueMessages, Kinds
      <3> HIDE DEF q
      <3> QED BY <2>1, <3>1 DEF q
    <2>3. /\ UNCHANGED <<venue, ws, outbound, wire, inbox, peer, adapter, told, pending, caller,
                         stopping, written>>
          /\ clock' = "idle"
      BY <1>3 DEF ClockSends
    <2>4. \A r \in Requests : Issued(r) => Issued(r)'
      BY <2>3 DEF Issued
    <2>5. posted' \in Seq(VenueMessages) /\ count' \in Nat /\ CountInv'
          /\ (None(posted, "login") => None(posted', "login"))
          /\ (AtMostOne(posted, "login") => AtMostOne(posted', "login"))
      BY <2>2, <2>3, SendParts DEF VInv
    <2>6. TypeInv' => WrittenInv'
      BY <2>2, <2>3, <2>4, WrittenSends DEF VInv
    <2>7. TableInv'
      BY <2>3 DEF VInv, TableInv
    <2> QED BY <2>3, <2>5, <2>6, <2>7, <1>0, ThreadVInv
  <1> QED BY <1>1, <1>2, <1>3 DEF ClockStep

\* stop(): the flag, the handler that closes the socket, the end of the table.
LEMMA StopVInv ==
    ASSUME VInv, StopBegin \/ StopRuns \/ StopEnd
    PROVE  VInv'
  <1>1. /\ UNCHANGED <<venue, posted, outbound, count, wire, inbox, peer, written>>
        /\ clock' \in {"idle", "name", "send", "joined"}
    BY DEF StopBegin, StopRuns, StopEnd, socketVars, VInv, TypeInv
  <1>2. /\ \/ UNCHANGED ws /\ (ws.stage = "stopped" <=> stopping' \in {"io", "done"})
           \/ ws' = [Closed EXCEPT !.stage = "stopped"] /\ stopping' = "io"
        /\ stopping' \in {"no", "posted", "io", "done"}
    BY DEF StopBegin, StopRuns, StopEnd, socketVars, VInv, WriteInv
  <1>3. /\ ws' \in [stage : {"connecting", "open", "waiting", "stopped"}, writing : BOOLEAN,
                    timer : {"off", "idle", "timeout"}, awaiting : BOOLEAN]
        /\ ws' = ws \/ (ws'.stage = "stopped" /\ ws'.writing = FALSE)
    BY <1>2 DEF VInv, TypeInv, Closed
  <1>4. /\ pending' \subseteq Callers /\ caller' \in [Callers -> CallerType] /\ TableInv'
        /\ \A r \in Requests : Issued(r) => Issued(r)'
        /\ adapter' \in [subscribed : BOOLEAN, requested : BOOLEAN, error : BOOLEAN, clock : BOOLEAN]
        /\ \/ told' = FALSE
           \/ told' = told /\ ws' = ws /\ adapter' = adapter
    <2>0. /\ pending \subseteq Callers /\ caller \in [Callers -> CallerType] /\ told \in BOOLEAN
          /\ adapter \in [subscribed : BOOLEAN, requested : BOOLEAN, error : BOOLEAN, clock : BOOLEAN]
      BY DEF VInv, TypeInv, CallerType
    <2>1. UNCHANGED <<caller, pending>> => TableInv' /\ \A r \in Requests : Issued(r) => Issued(r)'
      BY DEF VInv, TableInv, Issued
    <2>2. FailPending => /\ pending' \subseteq Callers /\ caller' \in [Callers -> CallerType]
                         /\ TableInv' /\ \A r \in Requests : Issued(r) => Issued(r)'
      BY FailPendingFacts DEF VInv, CallerType
    <2>3. ws.stage # "open" => told = FALSE
      BY <2>0 DEF VInv, ReadyInv
    <2>4. CASE StopBegin
      BY <2>0, <2>1, <2>4 DEF StopBegin, socketVars
    <2>5. CASE StopRuns
      <3>1. CASE ws.stage = "open"
        BY <2>0, <2>2, <2>5, <3>1 DEF StopRuns, SessionLost
      <3>2. CASE ws.stage # "open"
        BY <2>0, <2>1, <2>3, <2>5, <3>2 DEF StopRuns
      <3> QED BY <3>1, <3>2
    <2>6. CASE StopEnd
      <3>1. ws.stage = "stopped"
        BY <2>6 DEF StopEnd, VInv, WriteInv
      <3> QED BY <2>0, <2>2, <2>3, <2>6, <3>1 DEF StopEnd
    <2> QED BY <2>4, <2>5, <2>6
  <1>5. TypeInv'
    BY <1>1, <1>2, <1>3, <1>4 DEF VInv, TypeInv, CallerType
  <1>6. WriteInv'
    <2>1. CASE UNCHANGED ws /\ (ws.stage = "stopped" <=> stopping' \in {"io", "done"})
      BY <2>1, <1>1 DEF VInv, WriteInv
    <2>2. CASE ws' = [Closed EXCEPT !.stage = "stopped"] /\ stopping' = "io"
      BY <2>2 DEF WriteInv, Closed
    <2> QED BY <2>1, <2>2, <1>2
  <1>7. CountInv'
    BY <1>1 DEF VInv, CountInv, None, AtMostOne, Is
  <1>8. WrittenInv'
    <2>1. ws'.stage # "stopped" => ws.stage # "stopped" /\ ws'.writing = ws.writing
      BY <1>3
    <2> QED BY <1>1, <1>4, <1>5, <2>1, WrittenStays DEF VInv
  <1>9. FreshInv'
    BY <1>1, <1>3 DEF VInv, FreshInv, None, Is
  <1>10. LoginInv'
    BY <1>1 DEF VInv, LoginInv, None, AtMostOne, Is
  <1>11. ReadyInv'
    <2>1. told' => /\ ws'.stage = "open" /\ peer'.accepted /\ adapter'.subscribed
                   /\ venue' = "OKX" => None(inbox', "login")
      BY <1>1, <1>4 DEF VInv, ReadyInv, None, Is
    <2> QED BY <1>1, <2>1 DEF VInv, ReadyInv, Is
  <1> QED BY <1>4, <1>5, <1>6, <1>7, <1>8, <1>9, <1>10, <1>11 DEF VInv
-----------------------------------------------------------------------------
(* The theorems *)

\* A session begins in the invariant.
LEMMA InitVInv == Init => VInv
  <1> SUFFICES ASSUME Init PROVE VInv
    OBVIOUS
  <1>1. /\ Len(posted) = 0 /\ Len(outbound) = 0 /\ Len(wire) = 0 /\ Len(inbox) = 0
        /\ posted \in Seq(VenueMessages) /\ outbound \in Seq(VenueMessages) /\ wire \in Seq(VenueMessages)
        /\ inbox \in Seq(Answers)
    BY DEF Init
  <1>2. caller \in [Callers -> CallerType]
    BY DEF Init, Done, CallerType
  <1>3. TypeInv
    BY <1>1, <1>2 DEF Init, TypeInv, CallerType, Closed, NewPeer, NotReady
  <1>4. WriteInv
    BY DEF Init, WriteInv, Closed
  <1>5. CountInv
    BY <1>1, BoundsAssumption DEF Init, CountInv, None, AtMostOne
  <1>6. WrittenInv
    BY <1>1 DEF Init, WrittenInv, RequestsOnce
  <1>7. TableInv
    BY DEF Init, TableInv, Done
  <1>8. FreshInv
    BY <1>1 DEF Init, FreshInv, None
  <1>9. LoginInv
    BY <1>1 DEF Init, LoginInv, None, AtMostOne, NewPeer
  <1>10. ReadyInv
    BY <1>1 DEF Init, ReadyInv, NewPeer
  <1> QED BY <1>3, <1>4, <1>5, <1>6, <1>7, <1>8, <1>9, <1>10 DEF VInv

\* Every step keeps the invariant.
LEMMA StepVInv == VInv /\ [Next]_vars => VInv'
  <1> SUFFICES ASSUME VInv, [Next]_vars PROVE VInv'
    OBVIOUS
  <1>1. CASE RunPosted
    BY <1>1, DropVInv, QueueVInv
  <1>2. CASE WriteDone
    BY <1>2, WriteDoneVInv
  <1>3. CASE ReconnectTimer \/ PeerDies
    BY <1>3, TimerVInv
  <1>4. CASE Opened
    BY <1>4, OpenedVInv
  <1>5. CASE ReadStep
    BY <1>5, ReadStepVInv
  <1>6. CASE StopBegin \/ StopRuns \/ StopEnd
    BY <1>6, StopVInv
  <1>7. CASE ConnectionBreaks
    <2>1. None(posted, "login")
      BY <1>7 DEF ConnectionBreaks, None, Is, ToSet, VInv, TypeInv
    <2> QED BY <1>7, <2>1, FailVInv DEF ConnectionBreaks
  <1>8. CASE HeartbeatSends
    BY <1>8, HeartbeatVInv
  <1>9. CASE HeartbeatTimeout
    <2>1. Len(posted) = 0
      BY <1>9 DEF HeartbeatTimeout
    <2>2. None(posted, "login")
      BY <2>1 DEF None
    <2> QED BY <1>9, <2>2, FailVInv DEF HeartbeatTimeout
  <1>10. CASE VenueAnswers(TRUE) \/ VenueAnswers(FALSE)
    BY <1>10, AnswersVInv
  <1>11. CASE \E c \in Callers : CallBegin(c) \/ CallerStep(c)
    BY <1>11, CallVInv, SendVInv DEF CallerStep
  <1>12. CASE ClockStep
    BY <1>12, ClockVInv
  <1>13. CASE UNCHANGED vars
    <2>1. UNCHANGED <<venue, ws, posted, outbound, count, wire, inbox, peer, adapter, told, pending,
                      caller, clock, stopping, written>>
      BY <1>13 DEF vars
    <2>2. CountInv' /\ TableInv'
      BY <2>1 DEF VInv, CountInv, TableInv, None, AtMostOne, Is
    <2>3. \A r \in Requests : Issued(r) => Issued(r)'
      BY <2>1 DEF Issued
    <2>4. TypeInv' => WrittenInv'
      BY <2>1, <2>3, WrittenStays DEF VInv
    <2> QED BY <2>1, <2>2, <2>4, ThreadVInv DEF VInv, TypeInv, CallerType
  <1> QED BY <1>1, <1>2, <1>3, <1>4, <1>5, <1>6, <1>7, <1>8, <1>9, <1>10, <1>11, <1>12, <1>13 DEF Next

\* What TypeOK says follows from the types, the counter and the state of the write.
LEMMA VInvTypeOK == VInv => TypeOK
  <1> SUFFICES ASSUME VInv PROVE TypeOK
    OBVIOUS
  <1>1. ws.stage \in {"connecting", "open", "waiting", "stopped"}
        /\ ws.timer \in {"off", "idle", "timeout"} /\ ws.awaiting \in BOOLEAN
    BY DEF VInv, TypeInv
  <1>2. \A m \in ToSet(posted) \cup ToSet(outbound) \cup ToSet(wire) : m.kind \in Kinds
    <2>1. ASSUME NEW q \in Seq(VenueMessages) PROVE \A m \in ToSet(q) : m.kind \in Kinds
      BY DEF ToSet, VenueMessages
    <2> QED BY <2>1 DEF VInv, TypeInv
  <1>3. count \in 0 .. MaxOutbound + 1
    BY BoundsAssumption DEF VInv, TypeInv, CountInv
  <1>4. ws.writing => ws.stage = "open" /\ outbound # <<>>
    BY DEF VInv, WriteInv
  <1>5. \A c \in Callers : caller[c].pc \in {"idle", "sign", "again", "enlist", "send", "wait", "erase"}
    BY DEF VInv, TypeInv
  <1> QED BY <1>1, <1>2, <1>3, <1>4, <1>5 DEF VInv, TypeInv, TypeOK

\* Whatever breaks, is refused or comes late: requests are counted exactly in outbound_count_, handed
\* to a socket at most once, and in the table only while their caller waits for them.
THEOREM RequestsAreAccountedFor == Spec => []RequestsAccountedFor
  <1>1. VInv => RequestsAccountedFor
    <2>1. VInv => TypeOK
      BY VInvTypeOK
    <2>2. VInv => CountIsExact
      BY DEF VInv, CountInv, CountIsExact
    <2>3. VInv => WrittenAtMostOnce
      <3>1. VInv => \A r \in Requests : written[r] \in {0, 1}
        BY DEF VInv, TypeInv
      <3> QED BY <3>1 DEF WrittenAtMostOnce
    <2>4. VInv => NoForgottenRequest
      BY DEF VInv, TableInv, NoForgottenRequest
    <2> QED BY <2>1, <2>2, <2>3, <2>4 DEF RequestsAccountedFor
  <1> QED BY <1>1, InitVInv, StepVInv, PTL DEF Spec

\* The gateway is told of a connected venue only while the venue has accepted the subscription to
\* the order stream on the socket that is open now, and the adapter knows it.
THEOREM ReadyIsSubscribed == Spec => []ReadyMeansSubscribed
  <1>1. VInv => ReadyMeansSubscribed
    BY DEF VInv, ReadyInv, ReadyMeansSubscribed
  <1> QED BY <1>1, InitVInv, StepVInv, PTL DEF Spec
-----------------------------------------------------------------------------
(***************************************************************************)
(* The session with a browser.                                             *)
(***************************************************************************)
\* The types of the state.
SessionType == [stage : {"gone", "joined", "read", "open"}, snapshot : Views,
                posted : Seq(Messages), outbound : Seq(Messages),
                buffer : Seq(Messages), resync : BOOLEAN]
LiveTypes ==
    /\ version \in 0 .. MaxVersion /\ changing \in 0 .. version /\ ring \in 0 .. RingCapacity
    /\ worker \in [pc : {"idle", "reading", "broadcast", "send"}, view : Views, to : Nat]
    /\ session \in SessionType
    /\ Len(session.outbound) <= MaxPending
    /\ session.resync => Len(session.outbound) >= MaxPending
    /\ number \in Nat
    /\ shown \in Views
    /\ fetch \in [Fetches -> [stage : {"none", "calling", "asked", "answered"}, view : Views]]
    /\ missed \in BOOLEAN /\ overtaken \in BOOLEAN

\* A message tells state v of the order, or asks to look; the last one of a queue that tells
\* anything is such a one; none of a queue tells anything.
Good(m, v) == m.type = "resync" \/ m.view = ReadOrder(v)
Ends(queue, v) ==
    \E i \in 1 .. Len(queue) : /\ queue[i].type # "other" /\ Good(queue[i], v)
                               /\ \A j \in i + 1 .. Len(queue) : queue[j].type = "other"
Silent(queue) == \A i \in 1 .. Len(queue) : queue[i].type = "other"

\* Session s, whose stream has told h, will have told state v when its queues are empty.
WillTell(s, h, v) ==
    /\ s.stage = "read" => s.snapshot = ReadOrder(v)
    /\ s.stage = "open" =>
          \/ Ends(s.posted, v)
          \/ /\ Silent(s.posted)
             /\ \/ s.resync \/ Ends(s.outbound, v)
                \/ Silent(s.outbound) /\ h \in {ReadOrder(v), <<"resync">>}

\* Once the latest change was announced and taken, the worker holds the order as it is.
WorkerFresh ==
    ~missed /\ ring = 0 =>
        /\ worker.pc = "reading" => worker.view[1] = version
        /\ worker.pc \in {"broadcast", "send"} => worker.view = ReadOrder(version)

\* Then the worker brings it to the session, or the session has it already.
SessionFresh ==
    ~missed /\ ~overtaken /\ ring = 0 /\ worker.pc \notin {"reading", "broadcast"}
        /\ ~(worker.pc = "send" /\ worker.to = number) => WillTell(session, heard, version)

\* The inductive invariant.
LiveInv == LiveTypes /\ WriteBufferKept /\ WorkerFresh /\ SessionFresh
-----------------------------------------------------------------------------
(* Queues of a session *)

\* A queue with one more message.
LEMMA EndsAppend ==
    ASSUME NEW S, NEW q \in Seq(S), NEW m \in S, NEW v
    PROVE  /\ m.type # "other" /\ Good(m, v) => Ends(Append(q, m), v)
           /\ m.type = "other" /\ Ends(q, v) => Ends(Append(q, m), v)
           /\ m.type = "other" /\ Silent(q) => Silent(Append(q, m))
  <1> DEFINE a == Append(q, m)
  <1>1. /\ Len(q) \in Nat /\ Len(a) = Len(q) + 1
        /\ \A i \in 1 .. Len(q) : a[i] = q[i]
        /\ a[Len(q) + 1] = m
    OBVIOUS
  <1> HIDE DEF a
  <1>2. m.type # "other" /\ Good(m, v) => Ends(a, v)
    <2>1. Len(q) + 1 \in 1 .. Len(a) /\ Len(q) + 1 + 1 .. Len(a) = {}
      BY <1>1
    <2> QED BY <1>1, <2>1 DEF Ends
  <1>3. ASSUME m.type = "other", Ends(q, v)
        PROVE  Ends(a, v)
    <2>1. PICK i \in 1 .. Len(q) : /\ q[i].type # "other" /\ Good(q[i], v)
                                   /\ \A j \in i + 1 .. Len(q) : q[j].type = "other"
      BY <1>3 DEF Ends
    <2>2. \A j \in i + 1 .. Len(a) : j \in i + 1 .. Len(q) \/ j = Len(q) + 1
      BY <1>1
    <2>3. \A j \in i + 1 .. Len(a) : a[j].type = "other"
      BY <1>1, <1>3, <2>1, <2>2
    <2>4. i \in 1 .. Len(a) /\ a[i] = q[i]
      BY <1>1
    <2> QED BY <2>1, <2>3, <2>4 DEF Ends
  <1>4. m.type = "other" /\ Silent(q) => Silent(a)
    BY <1>1 DEF Silent
  <1> QED BY <1>2, <1>3, <1>4 DEF a

\* A queue whose head is taken.
LEMMA EndsTail ==
    ASSUME NEW S, NEW q \in Seq(S), q # <<>>, NEW v
    PROVE  /\ Ends(q, v) => \/ Ends(Tail(q), v)
                            \/ Silent(Tail(q)) /\ Head(q).type # "other" /\ Good(Head(q), v)
           /\ Silent(q) => Silent(Tail(q)) /\ Head(q).type = "other"
  <1> DEFINE t == Tail(q)
  <1>1. /\ Len(q) \in Nat \ {0} /\ Len(t) = Len(q) - 1 /\ Head(q) = q[1]
        /\ \A i \in 1 .. Len(t) : i + 1 \in 1 .. Len(q) /\ t[i] = q[i + 1]
    OBVIOUS
  <1> HIDE DEF t
  <1>2. ASSUME Ends(q, v)
        PROVE  \/ Ends(t, v)
               \/ Silent(t) /\ Head(q).type # "other" /\ Good(Head(q), v)
    <2>1. PICK i \in 1 .. Len(q) : /\ q[i].type # "other" /\ Good(q[i], v)
                                   /\ \A j \in i + 1 .. Len(q) : q[j].type = "other"
      BY <1>2 DEF Ends
    <2>2. CASE i = 1
      <3>1. Silent(t)
        BY <1>1, <2>1, <2>2 DEF Silent
      <3> QED BY <3>1, <1>1, <2>1, <2>2
    <2>3. CASE i # 1
      <3>1. i - 1 \in 1 .. Len(t) /\ t[i - 1] = q[i]
        BY <1>1, <2>3
      <3>2. ASSUME NEW j \in i - 1 + 1 .. Len(t)
            PROVE  t[j].type = "other"
        <4>1. j \in 1 .. Len(t) /\ j + 1 \in i + 1 .. Len(q)
          BY <1>1, <2>1
        <4>2. t[j] = q[j + 1]
          BY <4>1, <1>1
        <4> QED BY <4>1, <4>2, <2>1
      <3> QED BY <3>1, <3>2, <2>1 DEF Ends
    <2> QED BY <2>2, <2>3
  <1>3. Silent(q) => Silent(t) /\ Head(q).type = "other"
    BY <1>1 DEF Silent
  <1> QED BY <1>2, <1>3 DEF t

\* An empty queue, and one with a single message.
LEMMA EndsShort ==
    ASSUME NEW v
    PROVE  /\ ~Ends(<<>>, v) /\ Silent(<<>>)
           /\ \A m : m.type # "other" /\ Good(m, v) => Ends(<<m>>, v)
  <1>1. ~Ends(<<>>, v) /\ Silent(<<>>)
    BY DEF Ends, Silent
  <1>2. ASSUME NEW m, m.type # "other", Good(m, v)
        PROVE  Ends(<<m>>, v)
    <2>1. Len(<<m>>) = 1 /\ <<m>>[1] = m /\ 1 \in 1 .. 1 /\ 1 + 1 .. 1 = {}
      OBVIOUS
    <2> QED BY <2>1, <1>2 DEF Ends
  <1> QED BY <1>1, <1>2

\* The messages.
LEMMA MessageFacts ==
    /\ ReadOrder(0) \in Views
    /\ Other \in Messages /\ Other.type = "other"
    /\ Resync \in Messages /\ Resync.type = "resync"
    /\ \A v \in 0 .. MaxVersion : ReadOrder(v) \in Views
    /\ \A m \in Messages : /\ m.type \in {"snapshot", "order", "other", "resync"}
                           /\ m.view \in Views
    /\ \A type \in {"snapshot", "order"}, view \in Views :
          /\ Tells(type, view) \in Messages
          /\ Tells(type, view).type = type /\ Tells(type, view).view = view
  <1>1. \A v \in 0 .. MaxVersion : ReadOrder(v) \in Views
    BY DEF ReadOrder, Views
  <1>2. ReadOrder(0) \in Views
    BY <1>1, SizesAssumption
  <1> QED BY <1>1, <1>2 DEF Other, Resync, Tells, Messages
-----------------------------------------------------------------------------
(* The gateway, the console, the worker *)

\* The answers to the console's requests.
FetchType == [Fetches -> [stage : {"none", "calling", "asked", "answered"}, view : Views]]

\* The requests of the console stay well typed.
LEMMA FetchFacts ==
    ASSUME LiveTypes, NEW f \in Fetches, NEW v \in Views
    PROVE  /\ Answered(f, v) \in FetchType /\ Asked(f) \in FetchType
           /\ [fetch EXCEPT ![f] = NoFetch] \in FetchType
           /\ fetch[f].view \in Views
  <1>1. ReadOrder(0) \in Views
    BY MessageFacts
  <1>2. fetch \in FetchType
    BY DEF LiveTypes, FetchType
  <1> QED BY <1>1, <1>2 DEF FetchType, Answered, Asked, NoFetch

\* A change of the order, whoever makes it.
LEMMA ChangeInv ==
    ASSUME LiveInv, version < MaxVersion, version' = version + 1,
           changing' \in {changing, changing + 1},
           missed' = TRUE, fetch' \in FetchType,
           UNCHANGED <<ring, worker, session, number, shown, overtaken>>
    PROVE  LiveInv'
  <1>1. version' \in 0 .. MaxVersion /\ changing' \in 0 .. version'
    BY SizesAssumption DEF LiveInv, LiveTypes
  <1>2. LiveTypes'
    BY <1>1 DEF LiveInv, LiveTypes, FetchType, SessionType, Views, Messages
  <1>3. WriteBufferKept'
    BY DEF LiveInv, WriteBufferKept, NoMessage
  <1> QED BY <1>2, <1>3 DEF LiveInv, WorkerFresh, SessionFresh

\* A step that leaves the gateway, the session and the worker alone, or announces a change.
LEMMA QuietInv ==
    ASSUME LiveInv, UNCHANGED <<version, worker, session, number, heard, overtaken>>,
           changing' \in 0 .. version, ring' \in 0 .. RingCapacity, missed' \in BOOLEAN,
           ~missed' /\ ring' = 0 => ~missed /\ ring = 0,
           shown' \in Views, fetch' \in FetchType
    PROVE  LiveInv'
  <1>1. LiveTypes'
    BY DEF LiveInv, LiveTypes, FetchType, SessionType, Views, Messages
  <1>2. WriteBufferKept'
    BY DEF LiveInv, WriteBufferKept, NoMessage
  <1>3. WorkerFresh'
    BY DEF LiveInv, WorkerFresh, ReadOrder
  <1>4. SessionFresh'
    BY DEF LiveInv, SessionFresh
  <1> QED BY <1>1, <1>2, <1>3, <1>4 DEF LiveInv

\* The changes of the order, and their announcement.
LEMMA GatewayInv ==
    ASSUME LiveInv,
           \/ Change \/ Notify \/ AppendFails
           \/ Command \/ \E op \in {"place", "cancel"} : CommandReturns(op)
    PROVE  LiveInv'
  <1>0. /\ version \in 0 .. MaxVersion /\ changing \in 0 .. version /\ ring \in 0 .. RingCapacity
        /\ shown \in Views /\ fetch \in FetchType /\ missed \in BOOLEAN
    BY DEF LiveInv, LiveTypes, FetchType
  <1>1. CASE Change
    BY <1>0, <1>1, ChangeInv DEF Change
  <1>2. CASE Notify
    <2>1. /\ changing > 0 /\ changing' = changing - 1
          /\ ring' = IF ring < RingCapacity THEN ring + 1 ELSE ring
          /\ missed' = (missed /\ ring >= RingCapacity)
          /\ UNCHANGED <<version, worker, session, number, shown, fetch, heard, overtaken>>
      BY <1>2 DEF Notify, Announced
    <2>2. /\ changing' \in 0 .. version /\ ring' \in 0 .. RingCapacity
          /\ ~missed' /\ ring' = 0 => ~missed /\ ring = 0
      BY <1>0, <2>1, SizesAssumption
    <2>3. missed' \in BOOLEAN
      BY <2>1
    <2> QED BY <1>0, <2>1, <2>2, <2>3, QuietInv
  <1>3. CASE AppendFails
    <2>1. /\ changing > 0 /\ changing' = changing - 1
          /\ UNCHANGED <<version, ring, worker, session, number, shown, fetch, heard, missed, overtaken>>
      BY <1>3 DEF AppendFails, history
    <2>2. changing' \in 0 .. version
      BY <1>0, <2>1
    <2> QED BY <1>0, <2>1, <2>2, QuietInv
  <1>4. CASE Command
    <2>1. /\ version < MaxVersion /\ version' = version + 1 /\ missed' = TRUE
          /\ fetch' = [fetch EXCEPT !["command"] = [stage |-> "calling", view |-> ReadOrder(version')]]
          /\ UNCHANGED <<changing, ring, worker, session, number, shown, overtaken>>
      BY <1>4 DEF Command
    <2>2. version' \in 0 .. MaxVersion
      BY <1>0, <2>1, SizesAssumption
    <2>3. ReadOrder(version') \in Views
      BY <2>2, MessageFacts
    <2>4. fetch' \in FetchType
      BY <1>0, <2>1, <2>3 DEF FetchType
    <2> QED BY <2>1, <2>4, ChangeInv
  <1>5. ASSUME NEW op \in {"place", "cancel"}, CommandReturns(op)
        PROVE  LiveInv'
    <2>1. /\ ring' = IF ring < RingCapacity THEN ring + 1 ELSE ring
          /\ missed' = (missed /\ ring >= RingCapacity)
          /\ fetch' \in {Answered("command", fetch["command"].view), Asked("command")}
          /\ UNCHANGED <<version, changing, worker, session, number, shown, heard, overtaken>>
      BY <1>5 DEF CommandReturns, Announced
    <2>2. /\ ring' \in 0 .. RingCapacity
          /\ ~missed' /\ ring' = 0 => ~missed /\ ring = 0
      BY <1>0, <2>1, SizesAssumption
    <2>3. missed' \in BOOLEAN
      BY <2>1
    <2>4. "command" \in Fetches
      BY DEF Fetches
    <2>5. fetch["command"].view \in Views
      BY <1>0, <2>4 DEF FetchType
    <2>6. fetch' \in FetchType
      BY <2>1, <2>4, <2>5, FetchFacts DEF LiveInv
    <2> QED BY <1>0, <2>1, <2>2, <2>3, <2>6, QuietInv
  <1> QED BY <1>1, <1>2, <1>3, <1>4, <1>5

\* The requests of the console and their answers.
LEMMA ConsoleInv ==
    ASSUME LiveInv,
           \/ Poll \/ Reload \/ AnswerCommand
           \/ \E f \in Fetches : Apply(f) \/ RequestFails(f)
    PROVE  LiveInv'
  <1>0. /\ version \in 0 .. MaxVersion /\ changing \in 0 .. version /\ ring \in 0 .. RingCapacity
        /\ shown \in Views /\ fetch \in FetchType /\ missed \in BOOLEAN
    BY DEF LiveInv, LiveTypes, FetchType
  <1>1. UNCHANGED <<version, changing, ring, worker, session, number, heard, missed, overtaken>>
    BY DEF Poll, Reload, AnswerCommand, Apply, RequestFails, gatewayVars
  <1>2. ReadOrder(version) \in Views
    BY <1>0, MessageFacts
  <1>3. \A f \in Fetches : /\ Answered(f, ReadOrder(version)) \in FetchType
                           /\ Asked(f) \in FetchType
                           /\ [fetch EXCEPT ![f] = NoFetch] \in FetchType
                           /\ fetch[f].view \in Views
    BY <1>2, FetchFacts DEF LiveInv
  <1>4. "refresh" \in Fetches /\ "command" \in Fetches
    BY DEF Fetches
  <1>5. shown' \in Views /\ fetch' \in FetchType
    BY <1>0, <1>3, <1>4 DEF Poll, Reload, AnswerCommand, Apply, RequestFails
  <1> QED BY <1>0, <1>1, <1>5, QuietInv

\* The worker of the observer queue.
LEMMA WorkerInv ==
    ASSUME LiveInv, Dispatch \/ ReadRest \/ CollectSessions
    PROVE  LiveInv'
  <1>0. /\ version \in 0 .. MaxVersion /\ ring \in 0 .. RingCapacity /\ number \in Nat
        /\ worker \in [pc : {"idle", "reading", "broadcast", "send"}, view : Views, to : Nat]
    BY DEF LiveInv, LiveTypes
  <1>1. /\ worker.view[1] \in 0 .. MaxVersion /\ worker.view[2] \in 0 .. MaxVersion
        /\ worker.view = <<worker.view[1], worker.view[2]>>
    BY <1>0 DEF Views
  <1>2. UNCHANGED <<version, changing, session, number, shown, fetch, heard, missed, overtaken>>
    BY DEF Dispatch, ReadRest, CollectSessions, gatewayVars, history
  <1>3. ASSUME worker' \in [pc : {"idle", "reading", "broadcast", "send"}, view : Views, to : Nat],
               ring' \in 0 .. RingCapacity, WorkerFresh', SessionFresh'
        PROVE  LiveInv'
    <2>1. LiveTypes'
      BY <1>2, <1>3 DEF LiveInv, LiveTypes, SessionType, Views, Messages
    <2>2. WriteBufferKept'
      BY <1>2 DEF LiveInv, WriteBufferKept, NoMessage
    <2> QED BY <1>3, <2>1, <2>2 DEF LiveInv
  <1>4. CASE Dispatch
    <2>1. /\ ring > 0 /\ ring' = ring - 1
          /\ worker' = [worker EXCEPT !.pc = "reading", !.view[1] = version]
      BY <1>4 DEF Dispatch
    <2>2. [worker.view EXCEPT ![1] = version] = <<version, worker.view[2]>>
      BY <1>1
    <2>3. worker' = [worker EXCEPT !.pc = "reading", !.view = <<version, worker.view[2]>>]
      BY <2>1, <2>2, <1>0
    <2>4. <<version, worker.view[2]>> \in Views
      BY <1>0, <1>1 DEF Views
    <2>5. /\ worker' \in [pc : {"idle", "reading", "broadcast", "send"}, view : Views, to : Nat]
          /\ worker'.pc = "reading" /\ worker'.view[1] = version
      BY <1>0, <2>3, <2>4
    <2>6. WorkerFresh' /\ SessionFresh'
      BY <1>2, <2>5 DEF WorkerFresh, SessionFresh
    <2>7. ring' \in 0 .. RingCapacity
      BY <1>0, <2>1, SizesAssumption
    <2> QED BY <1>3, <2>5, <2>6, <2>7
  <1>5. CASE ReadRest
    <2>1. /\ worker.pc = "reading" /\ UNCHANGED ring
          /\ worker' = [worker EXCEPT !.pc = "broadcast", !.view[2] = version]
      BY <1>5 DEF ReadRest, gatewayVars
    <2>2. [worker.view EXCEPT ![2] = version] = <<worker.view[1], version>>
      BY <1>1
    <2>3. worker' = [worker EXCEPT !.pc = "broadcast", !.view = <<worker.view[1], version>>]
      BY <2>1, <2>2, <1>0
    <2>4. <<worker.view[1], version>> \in Views
      BY <1>0, <1>1 DEF Views
    <2>5. /\ worker' \in [pc : {"idle", "reading", "broadcast", "send"}, view : Views, to : Nat]
          /\ worker'.pc = "broadcast" /\ worker'.view = <<worker.view[1], version>>
      BY <1>0, <2>3, <2>4
    <2>6. WorkerFresh'
      BY <1>2, <2>1, <2>5 DEF LiveInv, WorkerFresh, ReadOrder
    <2>7. SessionFresh'
      BY <2>5 DEF SessionFresh
    <2> QED BY <1>0, <1>3, <2>1, <2>5, <2>6, <2>7
  <1>6. CASE CollectSessions
    <2> DEFINE to == IF Joined(session) THEN number ELSE 0
    <2>1. /\ worker.pc = "broadcast" /\ UNCHANGED ring
          /\ worker' = [worker EXCEPT !.pc = "send", !.to = to]
      BY <1>6 DEF CollectSessions, gatewayVars
    <2>2. to \in Nat
      BY <1>0
    <2>3. to = number \/ session.stage = "gone"
      BY DEF Joined, LiveInv, LiveTypes, SessionType
    <2> HIDE DEF to
    <2>4. /\ worker' \in [pc : {"idle", "reading", "broadcast", "send"}, view : Views, to : Nat]
          /\ worker'.pc = "send" /\ worker'.view = worker.view /\ worker'.to = to
      BY <1>0, <2>1, <2>2
    <2>5. WorkerFresh'
      BY <1>2, <2>1, <2>4 DEF LiveInv, WorkerFresh, ReadOrder
    <2>6. SessionFresh'
      BY <1>2, <2>3, <2>4 DEF SessionFresh, WillTell
    <2> QED BY <1>0, <1>3, <2>1, <2>4, <2>5, <2>6
  <1> QED BY <1>4, <1>5, <1>6
-----------------------------------------------------------------------------
(* The session *)

\* The queues of a session are within their limits, and the buffer of the write is at the front.
SessionKept(s) ==
    /\ s \in SessionType /\ Len(s.outbound) <= MaxPending
    /\ s.resync => Len(s.outbound) >= MaxPending
    /\ s.buffer = IF s.outbound = <<>> THEN NoMessage ELSE <<Head(s.outbound)>>

\* The invariant holds of the session.
LEMMA KeptNow == LiveInv => SessionKept(session)
  BY DEF LiveInv, LiveTypes, WriteBufferKept, SessionKept

\* A step of the session, which leaves the gateway and the ring alone.
LEMMA SessionInv ==
    ASSUME LiveInv, UNCHANGED <<version, changing, ring, missed>>,
           UNCHANGED worker \/ worker' = IdleWorker,
           number' \in Nat, shown' \in Views, fetch' \in FetchType, overtaken' \in BOOLEAN,
           SessionKept(session'), SessionFresh'
    PROVE  LiveInv'
  <1>1. worker' \in [pc : {"idle", "reading", "broadcast", "send"}, view : Views, to : Nat]
    BY MessageFacts DEF LiveInv, LiveTypes, IdleWorker
  <1>2. LiveTypes'
    BY <1>1 DEF LiveInv, LiveTypes, SessionKept, FetchType, SessionType, Views, Messages
  <1>3. WriteBufferKept'
    BY DEF SessionKept, WriteBufferKept, NoMessage
  <1>4. WorkerFresh'
    <2>1. CASE UNCHANGED worker
      BY <2>1 DEF LiveInv, WorkerFresh, ReadOrder
    <2>2. CASE worker' = IdleWorker
      BY <2>2 DEF WorkerFresh, IdleWorker
    <2> QED BY <2>1, <2>2
  <1> QED BY <1>2, <1>3, <1>4 DEF LiveInv

\* A message is posted to the strand of a session.
LEMMA PostFacts ==
    ASSUME NEW s, SessionKept(s), NEW m \in Messages
    PROVE  /\ SessionKept(Post(s, m)) /\ Post(s, m).stage = s.stage
           /\ Post(s, m).posted = Append(s.posted, m)
           /\ Post(s, m).outbound = s.outbound /\ Post(s, m).resync = s.resync
           /\ Post(s, m).snapshot = s.snapshot
  <1>1. s \in SessionType /\ Append(s.posted, m) \in Seq(Messages)
    BY DEF SessionKept, SessionType
  <1>2. Post(s, m) = [s EXCEPT !.posted = Append(s.posted, m)]
    BY <1>1 DEF Post
  <1>3. /\ Post(s, m) \in SessionType /\ Post(s, m).stage = s.stage
        /\ Post(s, m).posted = Append(s.posted, m)
        /\ Post(s, m).outbound = s.outbound /\ Post(s, m).resync = s.resync
        /\ Post(s, m).snapshot = s.snapshot /\ Post(s, m).buffer = s.buffer
    BY <1>1, <1>2 DEF SessionType
  <1> QED BY <1>3 DEF SessionKept

\* The worker posts the order to the session it has collected.
LEMMA SendInv ==
    ASSUME LiveInv, SendToSessions
    PROVE  LiveInv'
  <1> DEFINE reaches == worker.to = number /\ session.stage # "gone"
             m == Tells("order", worker.view)
  <1>1. /\ worker.pc = "send" /\ worker' = IdleWorker
        /\ session' = IF reaches THEN Post(session, m) ELSE session
        /\ overtaken' = (overtaken \/ (reaches /\ session.stage = "read"))
        /\ UNCHANGED <<version, changing, ring, missed, number, shown, fetch, heard>>
    BY DEF SendToSessions, gatewayVars
  <1>2. m \in Messages /\ m.type = "order" /\ m.view = worker.view
    BY MessageFacts DEF LiveInv, LiveTypes
  <1>3. SessionKept(session)
    BY KeptNow
  <1>4. session \in SessionType /\ session.posted \in Seq(Messages)
        /\ session.stage \in {"gone", "joined", "read", "open"}
    BY <1>3 DEF SessionKept, SessionType
  <1> HIDE DEF m
  <1>5. SessionKept(session')
    BY <1>1, <1>2, <1>3, PostFacts
  <1>6. SessionFresh'
    <2> SUFFICES ASSUME ~missed', ~overtaken', ring' = 0
                 PROVE  WillTell(session', heard', version')
      BY DEF SessionFresh
    <2>1. ~missed /\ ~overtaken /\ ring = 0 /\ ~(reaches /\ session.stage = "read")
      BY <1>1
    <2>2. worker.view = ReadOrder(version)
      BY <1>1, <2>1 DEF LiveInv, WorkerFresh
    <2>3. Good(m, version)
      BY <1>2, <2>2 DEF Good
    <2>4. CASE reaches
      <3>1. /\ session'.stage = session.stage /\ session'.posted = Append(session.posted, m)
            /\ session.stage # "read"
        BY <1>1, <1>2, <1>3, <2>1, <2>4, PostFacts
      <3>2. Ends(session'.posted, version)
        BY <3>1, <1>2, <1>4, <2>3, EndsAppend
      <3> QED BY <1>1, <3>1, <3>2 DEF WillTell
    <2>5. CASE ~reaches
      <3>1. session.stage = "gone" \/ WillTell(session, heard, version)
        BY <1>1, <2>1, <2>5 DEF LiveInv, SessionFresh
      <3>2. session' = session
        BY <1>1, <2>5
      <3> QED BY <1>1, <3>1, <3>2 DEF WillTell
    <2> QED BY <2>4, <2>5
  <1>7. number' \in Nat /\ shown' \in Views /\ fetch' \in FetchType /\ overtaken' \in BOOLEAN
    BY <1>1 DEF LiveInv, LiveTypes, FetchType
  <1> QED BY <1>1, <1>5, <1>6, <1>7, SessionInv

\* Another message of the server is posted.
LEMMA OtherInv ==
    ASSUME LiveInv, OtherBroadcast
    PROVE  LiveInv'
  <1>1. /\ session' = Post(session, Other)
        /\ UNCHANGED <<version, changing, ring, missed, worker, number, shown, fetch, heard, overtaken>>
    BY DEF OtherBroadcast, gatewayVars
  <1>2. Other \in Messages /\ Other.type = "other"
    BY MessageFacts
  <1>3. SessionKept(session)
    BY KeptNow
  <1>4. session.posted \in Seq(Messages)
    BY <1>3 DEF SessionKept, SessionType
  <1>5. /\ SessionKept(session') /\ session'.stage = session.stage
        /\ session'.posted = Append(session.posted, Other)
        /\ session'.outbound = session.outbound /\ session'.resync = session.resync
        /\ session'.snapshot = session.snapshot
    BY <1>1, <1>2, <1>3, PostFacts
  <1>6. /\ Ends(session.posted, version) => Ends(session'.posted, version)
        /\ Silent(session.posted) => Silent(session'.posted)
    BY <1>2, <1>4, <1>5, EndsAppend
  <1>7. WillTell(session, heard, version) => WillTell(session', heard', version')
    BY <1>1, <1>5, <1>6 DEF WillTell
  <1>8. SessionFresh'
    BY <1>1, <1>7 DEF LiveInv, SessionFresh
  <1>9. number' \in Nat /\ shown' \in Views /\ fetch' \in FetchType /\ overtaken' \in BOOLEAN
    BY <1>1 DEF LiveInv, LiveTypes, FetchType
  <1> QED BY <1>1, <1>5, <1>8, <1>9, SessionInv

\* The browser connects; the connection breaks.
LEMMA AcceptInv ==
    ASSUME LiveInv, Accept \/ Break
    PROVE  LiveInv'
  <1>1. /\ session' = Gone \/ session' = [Gone EXCEPT !.stage = "joined"]
        /\ number' = number + 1 \/ number' = number
        /\ overtaken' = FALSE \/ overtaken' = overtaken
        /\ UNCHANGED <<version, changing, ring, missed, worker, shown, fetch>>
    BY DEF Accept, Break, gatewayVars
  <1>2. Gone \in SessionType
    BY MessageFacts DEF SessionType, Gone, NoMessage
  <1>3. /\ session' \in SessionType /\ session'.stage \in {"gone", "joined"}
        /\ session'.outbound = <<>> /\ session'.buffer = <<>> /\ session'.resync = FALSE
    <2>1. /\ Gone.stage = "gone" /\ Gone.outbound = <<>> /\ Gone.buffer = <<>>
          /\ Gone.resync = FALSE
      BY DEF Gone, NoMessage
    <2> QED BY <1>1, <1>2, <2>1 DEF SessionType
  <1>4. SessionKept(session')
    BY <1>3, SizesAssumption DEF SessionKept, NoMessage
  <1>5. SessionFresh'
    BY <1>3 DEF SessionFresh, WillTell
  <1>6. number' \in Nat /\ shown' \in Views /\ fetch' \in FetchType /\ overtaken' \in BOOLEAN
    <2>1. number \in Nat /\ shown \in Views /\ fetch \in FetchType /\ overtaken \in BOOLEAN
      BY DEF LiveInv, LiveTypes, FetchType
    <2>2. number' \in Nat
      BY <1>1, <2>1
    <2>3. overtaken' \in BOOLEAN
      BY <1>1, <2>1, Zenon
    <2> QED BY <1>1, <2>1, <2>2, <2>3
  <1> QED BY <1>1, <1>4, <1>5, <1>6, SessionInv

\* The snapshot is read and sent.
LEMMA SnapshotInv ==
    ASSUME LiveInv, ReadSnapshot \/ SendSnapshots
    PROVE  LiveInv'
  <1>0. /\ SessionKept(session) /\ session \in SessionType /\ session.posted \in Seq(Messages)
        /\ session.snapshot \in Views /\ version \in 0 .. MaxVersion
    BY KeptNow DEF SessionKept, SessionType, LiveInv, LiveTypes
  <1>1. UNCHANGED <<version, changing, ring, missed, worker, number, shown, fetch, heard, overtaken>>
    BY DEF ReadSnapshot, SendSnapshots, gatewayVars
  <1>2. number' \in Nat /\ shown' \in Views /\ fetch' \in FetchType /\ overtaken' \in BOOLEAN
    BY <1>1 DEF LiveInv, LiveTypes, FetchType
  <1>3. CASE ReadSnapshot
    <2>1. session' = [session EXCEPT !.stage = "read", !.snapshot = ReadOrder(version)]
      BY <1>3 DEF ReadSnapshot
    <2>2. ReadOrder(version) \in Views
      BY <1>0, MessageFacts
    <2>3. /\ session' \in SessionType /\ session'.stage = "read"
          /\ session'.snapshot = ReadOrder(version) /\ session'.outbound = session.outbound
          /\ session'.buffer = session.buffer /\ session'.resync = session.resync
      BY <1>0, <2>1, <2>2 DEF SessionType
    <2>4. SessionKept(session')
      BY <1>0, <2>3 DEF SessionKept
    <2>5. SessionFresh'
      BY <1>1, <2>3 DEF SessionFresh, WillTell
    <2> QED BY <1>1, <1>2, <2>4, <2>5, SessionInv
  <1>4. CASE SendSnapshots
    <2> DEFINE m == Tells("snapshot", session.snapshot)
               p == Append(session.posted, m)
               q == IF MarketData THEN Append(p, Other) ELSE p
               r == Append(q, Other)
    <2>1. /\ session.stage = "read"
          /\ session' = [session EXCEPT !.stage = "open", !.snapshot = ReadOrder(0),
                            !.posted = session.posted \o <<m>>
                                          \o (IF MarketData THEN <<Other>> ELSE <<>>) \o <<Other>>]
      BY <1>0, <1>4 DEF SendSnapshots, SessionType
    <2>2. m \in Messages /\ m.type = "snapshot" /\ m.view = session.snapshot
      BY <1>0, MessageFacts
    <2>3. Other \in Messages /\ Other.type = "other" /\ ReadOrder(0) \in Views
      BY MessageFacts
    <2> HIDE DEF m
    <2>4. p \in Seq(Messages) /\ q \in Seq(Messages) /\ r \in Seq(Messages)
      BY <1>0, <2>2, <2>3
    <2>5. session.posted \o <<m>> \o (IF MarketData THEN <<Other>> ELSE <<>>) \o <<Other>> = r
      <3>1. session.posted \o <<m>> = p
        BY <1>0, <2>2
      <3>2. p \o (IF MarketData THEN <<Other>> ELSE <<>>) = q
        <4> HIDE DEF p
        <4> QED BY <2>3, <2>4
      <3>3. q \o <<Other>> = r
        <4> HIDE DEF p, q
        <4> QED BY <2>3, <2>4
      <3> QED BY <3>1, <3>2, <3>3
    <2>6. session.snapshot = ReadOrder(version) => Ends(r, version)
      <3>1. session.snapshot = ReadOrder(version) => Ends(p, version)
        BY <1>0, <2>2, EndsAppend DEF Good
      <3>2. Ends(p, version) => Ends(q, version)
        <4> HIDE DEF p
        <4> QED BY <2>3, <2>4, EndsAppend
      <3>3. Ends(q, version) => Ends(r, version)
        <4> HIDE DEF p, q
        <4> QED BY <2>3, <2>4, EndsAppend
      <3> QED BY <3>1, <3>2, <3>3
    <2> HIDE DEF p, q, r
    <2>7. session' = [session EXCEPT !.stage = "open", !.snapshot = ReadOrder(0), !.posted = r]
      BY <2>1, <2>5
    <2>8. /\ session' \in SessionType /\ session'.stage = "open" /\ session'.posted = r
          /\ session'.outbound = session.outbound
          /\ session'.buffer = session.buffer /\ session'.resync = session.resync
      BY <1>0, <2>3, <2>4, <2>7 DEF SessionType
    <2>9. SessionKept(session')
      BY <1>0, <2>8 DEF SessionKept
    <2>10. WillTell(session, heard, version) => WillTell(session', heard', version')
      BY <1>1, <2>1, <2>6, <2>8 DEF WillTell
    <2>11. SessionFresh'
      BY <1>1, <2>10 DEF LiveInv, SessionFresh
    <2> QED BY <1>1, <1>2, <2>9, <2>11, SessionInv
  <1> QED BY <1>3, <1>4

\* A posted handler runs: its message is queued, or dropped with a gap to be told of.
LEMMA RunPostedInv ==
    ASSUME LiveInv, RunSendHandler
    PROVE  LiveInv'
  <1> DEFINE m == Head(session.posted)
             s == Enqueue(session, m)
  <1>1. /\ session.stage = "open" /\ session.posted # <<>>
        /\ session' = [s EXCEPT !.posted = Tail(s.posted)]
        /\ UNCHANGED <<version, changing, ring, missed, worker, number, shown, fetch, heard, overtaken>>
    BY DEF RunSendHandler, gatewayVars
  <1>2. number' \in Nat /\ shown' \in Views /\ fetch' \in FetchType /\ overtaken' \in BOOLEAN
    BY <1>1 DEF LiveInv, LiveTypes, FetchType
  <1>3. SessionKept(session)
    BY KeptNow
  <1>4. /\ session \in SessionType /\ session.posted \in Seq(Messages)
        /\ session.outbound \in Seq(Messages) /\ session.resync \in BOOLEAN
        /\ Len(session.outbound) \in Nat /\ Len(session.outbound) <= MaxPending
        /\ session.resync => Len(session.outbound) >= MaxPending
        /\ session.buffer = IF session.outbound = <<>> THEN <<>> ELSE <<Head(session.outbound)>>
    BY <1>3 DEF SessionKept, SessionType, NoMessage
  <1>5. m \in Messages /\ Tail(session.posted) \in Seq(Messages)
    BY <1>1, <1>4
  <1> HIDE DEF m
  <1>6. /\ Ends(session.posted, version) =>
              \/ Ends(Tail(session.posted), version)
              \/ Silent(Tail(session.posted)) /\ m.type # "other" /\ Good(m, version)
        /\ Silent(session.posted) => Silent(Tail(session.posted)) /\ m.type = "other"
    BY <1>1, <1>4, EndsTail DEF m
  <1>7. CASE Len(session.outbound) >= MaxPending
    <2>1. s = [session EXCEPT !.resync = TRUE]
      BY <1>7 DEF Enqueue
    <2>2. session' = [session EXCEPT !.resync = TRUE, !.posted = Tail(session.posted)]
      BY <1>1, <1>4, <2>1 DEF SessionType
    <2>3. /\ session' \in SessionType /\ session'.stage = "open"
          /\ session'.posted = Tail(session.posted) /\ session'.resync = TRUE
          /\ session'.outbound = session.outbound /\ session'.buffer = session.buffer
      BY <1>1, <1>4, <1>5, <2>2 DEF SessionType
    <2>4. SessionKept(session')
      BY <1>3, <1>7, <2>3 DEF SessionKept
    <2>5. WillTell(session, heard, version) => WillTell(session', heard', version')
      BY <1>1, <1>6, <2>3 DEF WillTell
    <2>6. SessionFresh'
      BY <1>1, <2>5 DEF LiveInv, SessionFresh
    <2> QED BY <1>1, <1>2, <2>4, <2>6, SessionInv
  <1>8. CASE Len(session.outbound) < MaxPending
    <2> DEFINE o == Append(session.outbound, m)
    <2>1. /\ o \in Seq(Messages) /\ o # <<>> /\ Len(o) = Len(session.outbound) + 1
          /\ Head(o) = IF session.outbound = <<>> THEN m ELSE Head(session.outbound)
      <3>1. CASE session.outbound = <<>>
        BY <1>4, <1>5, <3>1
      <3>2. CASE session.outbound # <<>>
        BY <1>4, <1>5, <3>2
      <3> QED BY <3>1, <3>2
    <2>2. <<Head(o)>> \in Seq(Messages)
      BY <2>1
    <2> HIDE DEF o
    <2>3. ~session.resync
      BY <1>4, <1>8, SizesAssumption
    <2>4. s = [session EXCEPT !.outbound = o, !.buffer = <<Head(o)>>]
      <3> DEFINE t == [session EXCEPT !.outbound = o]
      <3>0. t.outbound = o /\ t \in SessionType
        BY <1>4, <2>1 DEF SessionType
      <3>1. t = [session EXCEPT !.outbound = Append(@, m)]
        BY <1>4 DEF o, SessionType
      <3>2. s = IF session.buffer # <<>> THEN t ELSE [t EXCEPT !.buffer = <<Head(o)>>]
        <4>1. ~(Len(session.outbound) >= MaxPending)
          BY <1>4, <1>8, SizesAssumption
        <4>2. s = IF Writing(session) THEN t ELSE WriteNext(t)
          BY <4>1, <3>1 DEF Enqueue
        <4>3. WriteNext(t) = [t EXCEPT !.buffer = <<Head(o)>>]
          BY <2>1, <3>0 DEF WriteNext
        <4> HIDE DEF t, s
        <4> QED BY <4>2, <4>3 DEF Writing, NoMessage
      <3>3. CASE session.buffer # <<>>
        <4>1. session.buffer = <<Head(o)>>
          BY <1>4, <2>1, <3>3
        <4> QED BY <3>2, <3>3, <4>1, <1>4 DEF SessionType
      <3>4. CASE session.buffer = <<>>
        BY <3>2, <3>4, <1>4 DEF SessionType
      <3> QED BY <3>3, <3>4
    <2> HIDE DEF s
    <2>5. session' = [session EXCEPT !.outbound = o, !.buffer = <<Head(o)>>,
                                     !.posted = Tail(session.posted)]
      BY <1>1, <1>4, <2>4 DEF SessionType
    <2>6. /\ session' \in SessionType /\ session'.stage = "open"
          /\ session'.posted = Tail(session.posted) /\ session'.resync = session.resync
          /\ session'.outbound = o /\ session'.buffer = <<Head(o)>>
      BY <1>1, <1>4, <1>5, <2>1, <2>2, <2>5 DEF SessionType
    <2>7. SessionKept(session')
      BY <1>4, <1>8, <2>1, <2>3, <2>6, SizesAssumption DEF SessionKept
    <2>8. /\ m.type # "other" /\ Good(m, version) => Ends(o, version)
          /\ m.type = "other" /\ Ends(session.outbound, version) => Ends(o, version)
          /\ m.type = "other" /\ Silent(session.outbound) => Silent(o)
      BY <1>4, <1>5, EndsAppend DEF o
    <2>9. WillTell(session, heard, version) => WillTell(session', heard', version')
      BY <1>1, <1>6, <2>3, <2>6, <2>8 DEF WillTell
    <2>10. SessionFresh'
      BY <1>1, <2>9 DEF LiveInv, SessionFresh
    <2> QED BY <1>1, <1>2, <2>7, <2>10, SessionInv
  <1> QED BY <1>4, <1>7, <1>8, SizesAssumption

\* The browser has taken the message in front: the next one is written, or the instruction to
\* resync in the place of a backlog with a gap.
LEMMA DeliverInv ==
    ASSUME LiveInv, Deliver
    PROVE  LiveInv'
  <1> DEFINE m == session.buffer[1]
  <1>1. /\ session.stage = "open" /\ session.buffer # <<>>
        /\ fetch' = IF m.type = "resync" THEN Asked("refresh") ELSE fetch
        /\ shown' = IF m.type \in {"snapshot", "order"} THEN m.view ELSE shown
        /\ heard' = Told(m)
        /\ session' = AfterWrite(session)
        /\ UNCHANGED <<version, changing, ring, missed, worker, number, overtaken>>
    BY DEF Deliver, gatewayVars, Writing, NoMessage
  <1>2. SessionKept(session)
    BY KeptNow
  <1>3. /\ session \in SessionType /\ session.posted \in Seq(Messages)
        /\ session.outbound \in Seq(Messages) /\ session.resync \in BOOLEAN
        /\ Len(session.outbound) \in Nat /\ Len(session.outbound) <= MaxPending
        /\ session.outbound # <<>> /\ session.buffer = <<Head(session.outbound)>>
    BY <1>1, <1>2 DEF SessionKept, SessionType, NoMessage
  <1>4. m = Head(session.outbound) /\ m \in Messages
    BY <1>3
  <1> HIDE DEF m
  <1>5. number' \in Nat /\ shown' \in Views /\ fetch' \in FetchType /\ overtaken' \in BOOLEAN
    <2>1. /\ number \in Nat /\ shown \in Views /\ fetch \in FetchType /\ overtaken \in BOOLEAN
          /\ m.view \in Views
      BY <1>4, MessageFacts DEF LiveInv, LiveTypes, FetchType
    <2>2. Asked("refresh") \in FetchType
      BY <2>1, FetchFacts DEF LiveInv, Fetches
    <2> QED BY <1>1, <2>1, <2>2
  <1> DEFINE o == IF session.resync THEN <<Resync>> ELSE Tail(session.outbound)
             b == IF o = <<>> THEN <<>> ELSE <<Head(o)>>
  <1>6. Resync \in Messages /\ Resync.type = "resync"
    BY MessageFacts
  <1>7. /\ Tail(session.outbound) \in Seq(Messages)
        /\ Len(Tail(session.outbound)) = Len(session.outbound) - 1
    BY <1>3
  <1>8. o \in Seq(Messages) /\ Len(o) <= MaxPending /\ (o # <<>> => Head(o) \in Messages)
    <2>1. <<Resync>> \in Seq(Messages) /\ Len(<<Resync>>) = 1
          /\ Head(<<Resync>>) \in Messages
      BY <1>6
    <2>2. Tail(session.outbound) # <<>> => Head(Tail(session.outbound)) \in Messages
      BY <1>7
    <2>3. Len(session.outbound) - 1 <= MaxPending /\ 1 <= MaxPending
      BY <1>3, SizesAssumption
    <2> QED BY <1>7, <2>1, <2>2, <2>3
  <1>9. b \in Seq(Messages)
    <2> HIDE DEF o
    <2> QED BY <1>8
  <1>10. session' = [session EXCEPT !.outbound = o, !.resync = FALSE, !.buffer = b]
    <2> DEFINE popped == [session EXCEPT !.outbound = Tail(session.outbound)]
               t == [session EXCEPT !.outbound = o, !.resync = FALSE]
    <2>1. popped \in SessionType /\ t \in SessionType /\ t.outbound = o
      <3> HIDE DEF o
      <3> QED BY <1>3, <1>7, <1>8 DEF SessionType
    <2>2. session' = WriteNext(IF session.resync
                                    THEN [popped EXCEPT !.outbound = <<Resync>>, !.resync = FALSE]
                                    ELSE popped)
      BY <1>1, <1>3 DEF AfterWrite, SessionType
    <2>3. session.resync => [popped EXCEPT !.outbound = <<Resync>>, !.resync = FALSE] = t
      BY <1>3 DEF SessionType
    <2>4. ~session.resync => popped = t
      BY <1>3 DEF SessionType
    <2>5. session' = WriteNext(t)
      <3> HIDE DEF popped, t
      <3> QED BY <2>2, <2>3, <2>4
    <2>6. WriteNext(t) = [t EXCEPT !.buffer = b]
      <3> HIDE DEF t
      <3> QED BY <2>1 DEF WriteNext, NoMessage
    <2> HIDE DEF o, b
    <2> QED BY <2>5, <2>6, <1>3 DEF SessionType
  <1>11. /\ session' \in SessionType /\ session'.stage = "open" /\ session'.posted = session.posted
         /\ session'.outbound = o /\ session'.resync = FALSE /\ session'.buffer = b
    <2> HIDE DEF o, b
    <2> QED BY <1>1, <1>3, <1>8, <1>9, <1>10 DEF SessionType
  <1>12. SessionKept(session')
    <2> HIDE DEF o
    <2> QED BY <1>8, <1>11 DEF SessionKept, NoMessage
  <1>13. WillTell(session, heard, version) => WillTell(session', heard', version')
    <2>1. heard' = CASE m.type = "other" -> heard
                     [] m.type = "resync" -> <<"resync">>
                     [] OTHER -> m.view
      BY <1>1 DEF Told
    <2>2. m.type # "other" /\ Good(m, version) => heard' \in {ReadOrder(version), <<"resync">>}
      BY <2>1 DEF Good
    <2>3. m.type = "other" => heard' = heard
      BY <2>1
    <2>4. /\ Ends(session.outbound, version) =>
                \/ Ends(Tail(session.outbound), version)
                \/ Silent(Tail(session.outbound)) /\ m.type # "other" /\ Good(m, version)
          /\ Silent(session.outbound) => Silent(Tail(session.outbound)) /\ m.type = "other"
      BY <1>3, <1>4, EndsTail
    <2>5. Ends(<<Resync>>, version)
      BY <1>6, EndsShort DEF Good
    <2>6. CASE session.resync
      BY <1>1, <1>11, <2>5, <2>6 DEF WillTell
    <2>7. CASE ~session.resync
      BY <1>1, <1>11, <2>2, <2>3, <2>4, <2>7 DEF WillTell
    <2> QED BY <2>6, <2>7
  <1>14. SessionFresh'
    BY <1>1, <1>13 DEF LiveInv, SessionFresh
  <1> QED BY <1>1, <1>5, <1>12, <1>14, SessionInv
-----------------------------------------------------------------------------
\* The stream begins in the invariant.
LEMMA InitLive ==
    ASSUME StreamInit
    PROVE  LiveInv
  <1>1. ReadOrder(0) \in Views
    BY MessageFacts
  <1>2. session \in SessionType /\ session.stage = "gone" /\ session.outbound = <<>>
        /\ session.resync = FALSE /\ session.buffer = <<>>
    BY <1>1 DEF StreamInit, Gone, NoMessage, SessionType
  <1>3. worker \in [pc : {"idle", "reading", "broadcast", "send"}, view : Views, to : Nat]
        /\ worker.pc = "idle"
    BY <1>1 DEF StreamInit, IdleWorker
  <1>4. fetch \in FetchType
    BY <1>1 DEF StreamInit, NoFetch, FetchType
  <1>5. LiveTypes
    <2>1. /\ version \in 0 .. MaxVersion /\ changing \in 0 .. version /\ ring \in 0 .. RingCapacity
          /\ number \in Nat /\ shown \in Views /\ missed \in BOOLEAN /\ overtaken \in BOOLEAN
      <3>1. /\ version = 0 /\ changing = 0 /\ ring = 0 /\ number = 0
            /\ shown = ReadOrder(0) /\ missed = FALSE /\ overtaken = FALSE
        BY DEF StreamInit
      <3>2. missed \in BOOLEAN /\ overtaken \in BOOLEAN
        BY <3>1, Zenon
      <3>3. 0 \in 0 .. MaxVersion /\ 0 \in 0 .. 0 /\ 0 \in 0 .. RingCapacity
        BY SizesAssumption
      <3> QED BY <1>1, <3>1, <3>2, <3>3, Zenon
    <2>2. Len(session.outbound) = 0
      BY <1>2
    <2>3. Len(session.outbound) <= MaxPending /\ (session.resync => Len(session.outbound) >= MaxPending)
      BY <1>2, <2>2, SizesAssumption
    <2> QED BY <1>2, <1>3, <1>4, <2>1, <2>3 DEF LiveTypes, FetchType
  <1> QED BY <1>2, <1>3, <1>5
          DEF LiveInv, WriteBufferKept, NoMessage, WorkerFresh, SessionFresh, WillTell

\* Every step of the stream keeps the invariant.
LEMMA StepLive ==
    ASSUME LiveInv, [StreamNext]_streamVars
    PROVE  LiveInv'
  <1>1. CASE Server
    BY <1>1, GatewayInv, WorkerInv, SendInv DEF Server
  <1>2. CASE Session
    BY <1>2, AcceptInv, SnapshotInv, RunPostedInv DEF Session
  <1>3. CASE Deliver
    BY <1>3, DeliverInv
  <1>4. CASE \/ Poll \/ Reload \/ AnswerCommand
             \/ \E f \in Fetches : Apply(f) \/ RequestFails(f)
    BY <1>4, ConsoleInv
  <1>5. CASE \/ Change \/ AppendFails \/ Command
             \/ \E op \in {"place", "cancel"} : CommandReturns(op)
    BY <1>5, GatewayInv
  <1>6. CASE OtherBroadcast
    BY <1>6, OtherInv
  <1>7. CASE Break
    BY <1>7, AcceptInv
  <1>8. CASE UNCHANGED streamVars
    <2>1. UNCHANGED <<version, changing, ring, worker, session, number, shown, fetch, heard, missed,
                      overtaken>>
      BY <1>8 DEF streamVars
    <2> QED BY <2>1, QuietInv DEF LiveInv, LiveTypes, FetchType
  <1> QED BY <1>1, <1>2, <1>3, <1>4, <1>5, <1>6, <1>7, <1>8 DEF StreamNext

\* The backlog of a browser's session stays within maximum_pending_messages, and the buffer that
\* async_write refers to stays at its front, whatever is dropped or replaced meanwhile.
THEOREM BacklogIsKept ==
    StreamSpec => []BacklogKept
  <1>1. StreamInit => LiveInv
    BY InitLive
  <1>2. LiveInv /\ [StreamNext]_streamVars => LiveInv'
    BY StepLive
  <1>3. LiveInv => BacklogKept
    <2> SUFFICES ASSUME LiveInv PROVE BacklogKept
      OBVIOUS
    <2>1. changing \in 0 .. MaxVersion
      BY SizesAssumption DEF LiveInv, LiveTypes
    <2>2. /\ session.stage \in {"gone", "joined", "read", "open"}
          /\ session.posted \in Seq(Messages) /\ session.outbound \in Seq(Messages)
      BY DEF LiveInv, LiveTypes, SessionType
    <2>3. worker.pc \in {"idle", "reading", "broadcast", "send"} /\ worker.view \in Views
      BY DEF LiveInv, LiveTypes
    <2>4. \A f \in Fetches : fetch[f].stage \in {"none", "calling", "asked", "answered"}
      BY DEF LiveInv, LiveTypes
    <2> QED BY <2>1, <2>2, <2>3, <2>4 DEF LiveInv, LiveTypes, BacklogKept, StreamTypeOK
  <1> QED BY <1>1, <1>2, <1>3, PTL DEF StreamSpec

\* When nothing of the order is under way any more, the stream has told its present state, untorn,
\* or has asked the browser to look; only a change that was not announced, or an update posted
\* between the reading and the sending of the snapshot, is excepted.
THEOREM StreamDoesConverge ==
    StreamSpec => []StreamConverges
  <1>1. StreamInit => LiveInv
    BY InitLive
  <1>2. LiveInv /\ [StreamNext]_streamVars => LiveInv'
    BY StepLive
  <1>3. LiveInv => StreamConverges
    <2> SUFFICES ASSUME LiveInv, Quiet, ~missed, ~overtaken
                 PROVE  heard \in {ReadOrder(version), <<"resync">>}
      BY DEF StreamConverges
    <2>1. /\ ring = 0 /\ worker.pc = "idle" /\ session.stage = "open"
          /\ session.posted = <<>> /\ session.outbound = <<>>
      BY DEF Quiet, Flushed
    <2>2. WillTell(session, heard, version)
      BY <2>1 DEF LiveInv, SessionFresh
    <2>3. ~Ends(<<>>, version) /\ Silent(<<>>)
      BY EndsShort
    <2>4. ~session.resync
      BY <2>1, SizesAssumption DEF LiveInv, LiveTypes
    <2> QED BY <2>1, <2>2, <2>3, <2>4 DEF WillTell
  <1> QED BY <1>1, <1>2, <1>3, PTL DEF StreamSpec
==============================================================================
