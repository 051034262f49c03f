----------------------------- MODULE HubProofs -----------------------------
(***************************************************************************)
(* What Hub!Spec guarantees for any users, connections, messages and       *)
(* capacity: about the map of clients and the goroutines of a connection,  *)
(* from ClientInv; and about where the copies of a message are, from       *)
(* RelayInv.                                                               *)
(***************************************************************************)
EXTENDS Hub, SequenceTheorems, FiniteSetTheorems, TLAPS

Shapes ==
    /\ clients \in [User -> Conn \cup {NoConn}]
    /\ handler \in [Conn -> {"new", "delete", "register", "serving", "ended"}]

\* serveWS has registered c.
Started(c) == handler[c] \in {"serving", "ended"}

\* Goroutines run, and channels are closed, for registered connections only.
StartedInv ==
    /\ closed \subseteq Conn /\ writer \subseteq Conn
    /\ \A c \in closed \cup writer : Started(c)

\* A writer whose channel is open is the registered client's, or that of a
\* connection replaced in the map.  Such a connection never comes back, and its
\* channel is never closed.
WriterInv ==
    /\ \A c \in writer \ closed : clients[OwnerOf[c]] = c \/ c \in replaced
    /\ \A c \in replaced : /\ c \in Conn /\ Started(c) /\ c \notin closed
                          /\ clients[OwnerOf[c]] # c

ClientInv == Shapes /\ StartedInv /\ ClientsAreLive /\ WriterInv

clientvars == <<clients, handler, closed, writer, replaced>>

\* Nobody is connected.
LEMMA InitClient == Init => ClientInv
BY HubAssumption
   DEF Init, ClientInv, Shapes, StartedInv, ClientsAreLive, WriterInv, Started

\* Steps that touch neither the map nor the goroutines.
LEMMA SameClient ==
    ASSUME ClientInv, UNCHANGED clientvars
    PROVE  ClientInv'
BY DEF ClientInv, Shapes, StartedInv, ClientsAreLive, WriterInv, Started,
       clientvars

\* Steps of serveWS before it registers.
LEMMA BeforeRegister ==
    ASSUME ClientInv, NEW c \in Conn, handler[c] \in {"new", "delete"},
           NEW next \in {"delete", "register"},
           handler' = [handler EXCEPT ![c] = next],
           UNCHANGED <<clients, closed, writer, replaced>>
    PROVE  ClientInv'
<1>1. /\ Shapes'
      /\ \A d \in Conn : (Started(d)' <=> Started(d))
                      /\ (handler'[d] = "serving" <=> handler[d] = "serving")
    BY DEF ClientInv, Shapes, Started
<1>2. StartedInv' /\ ClientsAreLive'
    BY <1>1 DEF ClientInv, Shapes, StartedInv, ClientsAreLive
<1>3. WriterInv'
    BY <1>1 DEF ClientInv, StartedInv, WriterInv
<1>4. QED BY <1>1, <1>2, <1>3 DEF ClientInv

\* The client of the user, if there is one, is now replaced.
LEMMA RegisterClient ==
    ASSUME ClientInv, NEW c \in Conn, Register(c)
    PROVE  ClientInv'
<1>1. /\ handler[c] = "register" /\ OwnerOf[c] \in User /\ c # NoConn
      /\ clients' = [clients EXCEPT ![OwnerOf[c]] = c]
      /\ handler' = [handler EXCEPT ![c] = "serving"]
      /\ writer' = writer \cup {c} /\ closed' = closed
      /\ replaced' = replaced \cup ({clients[OwnerOf[c]]} \ {NoConn})
    BY HubAssumption DEF Register
<1>2. Shapes' /\ Started(c)' /\ ~Started(c)
    BY <1>1 DEF ClientInv, Shapes, Started
<1>3. \A d \in Conn \ {c} : handler'[d] = handler[d] /\ (Started(d)' <=> Started(d))
    BY <1>1 DEF ClientInv, Shapes, Started
<1>4. StartedInv'
    BY <1>1, <1>2, <1>3 DEF ClientInv, StartedInv
<1>5. ClientsAreLive'
    BY <1>1, <1>2, <1>3 DEF ClientInv, Shapes, StartedInv, ClientsAreLive
<1>6. ASSUME NEW d \in writer' \ closed' PROVE clients'[OwnerOf[d]] = d \/ d \in replaced'
    <2>1. CASE d = c
        BY <1>1, <2>1 DEF ClientInv, Shapes
    <2>2. CASE d # c
        <3>1. d \in Conn /\ d \in writer \ closed /\ OwnerOf[d] \in User /\ d # NoConn
            BY <1>1, <1>6, <2>2, HubAssumption DEF ClientInv, StartedInv
        <3>2. CASE OwnerOf[d] = OwnerOf[c]
            BY <1>1, <3>1, <3>2 DEF ClientInv, WriterInv
        <3>3. CASE OwnerOf[d] # OwnerOf[c]
            BY <1>1, <3>1, <3>3 DEF ClientInv, Shapes, WriterInv
        <3>4. QED BY <3>2, <3>3
    <2>3. QED BY <2>1, <2>2
<1>7. ASSUME NEW d \in replaced'
      PROVE  d \in Conn /\ Started(d)' /\ d \notin closed' /\ clients'[OwnerOf[d]] # d
    <2>1. d \in Conn /\ Started(d) /\ d \notin closed
        BY <1>1, <1>7 DEF ClientInv, Shapes, ClientsAreLive, WriterInv, Started
    <2>2. d # c /\ OwnerOf[d] \in User
        BY <1>2, <2>1, HubAssumption
    <2>3. clients'[OwnerOf[d]] # d
        <3>1. CASE OwnerOf[d] = OwnerOf[c]
            BY <1>1, <2>2, <3>1 DEF ClientInv, Shapes
        <3>2. CASE OwnerOf[d] # OwnerOf[c]
            <4>1. d \in replaced
                BY <1>1, <1>7, <3>2 DEF ClientInv, ClientsAreLive
            <4>2. QED BY <1>1, <2>2, <3>2, <4>1 DEF ClientInv, Shapes, WriterInv
        <3>3. QED BY <3>1, <3>2
    <2>4. QED BY <1>1, <1>3, <2>1, <2>2, <2>3
<1>8. WriterInv'
    BY <1>6, <1>7 DEF WriterInv, Started
<1>9. QED BY <1>2, <1>4, <1>5, <1>8 DEF ClientInv

\* The end of a writer.
LEMMA WriterStops ==
    ASSUME ClientInv, NEW c \in Conn, writer' \in {writer, writer \ {c}},
           UNCHANGED <<clients, handler, closed, replaced>>
    PROVE  ClientInv'
BY DEF ClientInv, Shapes, StartedInv, ClientsAreLive, WriterInv, Started

\* unregister takes whatever client is registered and closes its channel, so a
\* writer it leaves waiting is not the client's.
LEMMA ReaderEndsClient ==
    ASSUME ClientInv, NEW c \in Conn, ReaderEnds(c)
    PROVE  ClientInv'
<1> DEFINE u == OwnerOf[c]
<1>1. /\ handler[c] = "serving" /\ u \in User
      /\ closed' = closed \cup ({clients[u]} \ {NoConn})
      /\ clients' = [clients EXCEPT ![u] = NoConn]
      /\ handler' = [handler EXCEPT ![c] = "ended"]
      /\ writer' = writer /\ replaced' = replaced
    BY HubAssumption DEF ReaderEnds, ClosedBy, Unregistered
<1>2. /\ Shapes' /\ \A d \in Conn : Started(d)' <=> Started(d)
      /\ \A d \in Conn \ {c} : handler'[d] = handler[d]
    BY <1>1 DEF ClientInv, Shapes, Started
<1>3. StartedInv'
    <2>1. clients[u] # NoConn => clients[u] \in Conn /\ Started(clients[u])
        BY <1>1 DEF ClientInv, Shapes, ClientsAreLive, Started
    <2>2. QED BY <1>1, <1>2, <2>1 DEF ClientInv, StartedInv
<1>4. ClientsAreLive'
    <2> SUFFICES ASSUME NEW v \in User, clients'[v] # NoConn
                 PROVE  /\ OwnerOf[clients'[v]] = v
                        /\ clients'[v] \notin closed'
                        /\ handler'[clients'[v]] = "serving"
        BY DEF ClientsAreLive
    <2>1. v # u /\ clients'[v] = clients[v]
        BY <1>1 DEF ClientInv, Shapes
    <2>2. /\ clients[v] \in Conn /\ OwnerOf[clients[v]] = v
          /\ clients[v] \notin closed /\ handler[clients[v]] = "serving"
        BY <2>1 DEF ClientInv, Shapes, ClientsAreLive
    <2>3. clients[u] # NoConn => OwnerOf[clients[u]] = u
        BY <1>1 DEF ClientInv, ClientsAreLive
    <2>4. clients[v] # c /\ clients[v] # clients[u]
        BY <2>1, <2>2, <2>3
    <2>5. QED BY <1>1, <1>2, <2>1, <2>2, <2>4
<1>5. ASSUME NEW d \in writer' \ closed' PROVE clients'[OwnerOf[d]] = d \/ d \in replaced'
    <2>1. d \in Conn /\ d \in writer \ closed /\ OwnerOf[d] \in User
        BY <1>1, <1>5, HubAssumption DEF ClientInv, StartedInv
    <2>2. CASE clients[OwnerOf[d]] = d
        <3>1. d # NoConn /\ d # clients[u]
            BY <1>1, <1>5, <2>1, HubAssumption
        <3>2. OwnerOf[d] # u
            BY <2>2, <3>1
        <3>3. QED BY <1>1, <2>1, <2>2, <3>2 DEF ClientInv, Shapes
    <2>3. CASE d \in replaced
        BY <1>1, <2>3
    <2>4. QED BY <2>1, <2>2, <2>3 DEF ClientInv, WriterInv
<1>6. ASSUME NEW d \in replaced'
      PROVE  d \in Conn /\ Started(d)' /\ d \notin closed' /\ clients'[OwnerOf[d]] # d
    <2>1. d \in Conn /\ Started(d) /\ d \notin closed /\ clients[OwnerOf[d]] # d
        BY <1>1, <1>6 DEF ClientInv, WriterInv
    <2>2. OwnerOf[d] \in User /\ d # NoConn
        BY <2>1, HubAssumption
    <2>3. d # clients[u]
        BY <1>1, <2>1, <2>2 DEF ClientInv, ClientsAreLive
    <2>4. QED BY <1>1, <1>2, <2>1, <2>2, <2>3 DEF ClientInv, Shapes
<1>7. WriterInv'
    BY <1>5, <1>6 DEF WriterInv, Started
<1>8. QED BY <1>2, <1>3, <1>4, <1>7 DEF ClientInv

\* The process starts again with nothing.
LEMMA PanicClient ==
    ASSUME ClientInv, NEW t, PushPanics(t)
    PROVE  ClientInv'
BY HubAssumption DEF PushPanics, ClientInv, Shapes, StartedInv, ClientsAreLive,
                     WriterInv, Started

\* Every step keeps the map and the goroutines consistent.
LEMMA StepClient == ClientInv /\ [Next]_hvars => ClientInv'
<1> SUFFICES ASSUME ClientInv, [Next]_hvars PROVE ClientInv'
    OBVIOUS
<1>1. ASSUME NEW c \in Conn, Connect(c) PROVE ClientInv'
    BY <1>1, BeforeRegister DEF Connect
<1>2. ASSUME NEW c \in Conn, DeleteRows(c) PROVE ClientInv'
    BY <1>2, BeforeRegister DEF DeleteRows
<1>3. ASSUME NEW c \in Conn, Write(c) \/ WriterEnds(c) PROVE ClientInv'
    BY <1>3, WriterStops DEF Write, WriterEnds
<1>4. ASSUME NEW c \in Conn, Drop(c) PROVE ClientInv'
    BY <1>4, SameClient DEF Drop, clientvars
<1>5. ASSUME NEW c \in Conn, NEW m \in Msg, Read(c, m) PROVE ClientInv'
    BY <1>5, SameClient DEF Read, clientvars
<1>6. ASSUME NEW t, Lookup(t) \/ Push(t) \/ Keep(t) PROVE ClientInv'
    BY <1>6, SameClient DEF Lookup, Push, Keep, clientvars
<1>7. CASE UNCHANGED hvars
    BY <1>7, SameClient DEF hvars, clientvars
<1>8. QED
    BY <1>1, <1>2, <1>3, <1>4, <1>5, <1>6, <1>7, RegisterClient, ReaderEndsClient,
       PanicClient DEF Next

\* The map of clients and the life of goroutines: the invariant from which the
\* two properties of serveWS, register and unregister follow.
THEOREM ClientInvariance == Spec => []ClientInv
BY InitClient, StepClient, PTL DEF Spec

\* No schedule of connections, of their ends and of panics leaves a dead
\* connection in the map of Hub.register and Hub.unregister.
THEOREM ClientsAreLiveHolds == Spec => []ClientsAreLive
<1>1. ClientInv => ClientsAreLive
    BY DEF ClientInv
<1>2. QED BY <1>1, ClientInvariance, PTL

\* The writer goroutines that wait for ever are exactly those of connections whose
\* entry Hub.register has overwritten in the map.
THEOREM LeakedWriterWasReplacedHolds == Spec => []LeakedWriterWasReplaced
<1>1. ClientInv => LeakedWriterWasReplaced
    <2> SUFFICES ASSUME ClientInv, NEW c \in writer, handler[c] = "ended"
                 PROVE  c \notin closed <=> c \in replaced
        BY DEF LeakedWriterWasReplaced
    <2>1. c \in Conn /\ c # NoConn /\ OwnerOf[c] \in User
        BY HubAssumption DEF ClientInv, StartedInv
    <2>2. clients[OwnerOf[c]] # c
        BY <2>1 DEF ClientInv, ClientsAreLive
    <2>3. QED BY <2>2 DEF ClientInv, WriterInv
<1>2. QED BY <1>1, ClientInvariance, PTL
-----------------------------------------------------------------------------
\* No stamped copy, and no answer, is twice in the sequence s.
Once(s) == \A i, j \in DOMAIN s : s[i] = s[j] /\ s[i].form # "raw" => i = j

\* The copies in s that must not come twice.
Stamped(s) == {x \in ToSet(s) : x.form # "raw"}

\* A push appends one copy.
LEMMA AppendCopy ==
    ASSUME NEW s \in Seq(Copies), NEW x \in Copies
    PROVE  /\ Append(s, x) \in Seq(Copies) /\ Len(Append(s, x)) = Len(s) + 1
           /\ ToSet(Append(s, x)) = ToSet(s) \cup {x}
           /\ Once(s) /\ (x.form = "raw" \/ x \notin ToSet(s)) => Once(Append(s, x))
<1> DEFINE r == Append(s, x)
<1>1. /\ r \in Seq(Copies) /\ Len(r) = Len(s) + 1 /\ Len(s) \in Nat
      /\ \A i \in 1 .. Len(s) : r[i] = s[i]
      /\ r[Len(s) + 1] = x
    BY AppendProperties, LenProperties
<1>2. DOMAIN s = 1 .. Len(s) /\ DOMAIN r = 1 .. Len(s) + 1
    BY <1>1, LenProperties
<1> HIDE DEF r
<1>3. ToSet(r) = ToSet(s) \cup {x}
    <2>1. ASSUME NEW y \in ToSet(r) PROVE y \in ToSet(s) \cup {x}
        <3>1. PICK i \in 1 .. Len(s) + 1 : y = r[i]
            BY <1>2 DEF ToSet
        <3>2. CASE i \in 1 .. Len(s)
            BY <1>1, <1>2, <3>1, <3>2 DEF ToSet
        <3>3. CASE i = Len(s) + 1
            BY <1>1, <3>1, <3>3
        <3>4. QED BY <1>1, <3>1, <3>2, <3>3
    <2>2. ASSUME NEW y \in ToSet(s) PROVE y \in ToSet(r)
        <3>1. PICK i \in 1 .. Len(s) : y = s[i]
            BY <1>2 DEF ToSet
        <3>2. i \in DOMAIN r /\ r[i] = y
            BY <1>1, <1>2, <3>1
        <3>3. QED BY <3>2 DEF ToSet
    <2>3. x \in ToSet(r)
        BY <1>1, <1>2 DEF ToSet
    <2>4. QED BY <2>1, <2>2, <2>3
<1>4. ASSUME Once(s), x.form = "raw" \/ x \notin ToSet(s) PROVE Once(r)
    <2> SUFFICES ASSUME NEW i \in 1 .. Len(s) + 1, NEW j \in 1 .. Len(s) + 1,
                        r[i] = r[j], r[i].form # "raw"
                 PROVE  i = j
        BY <1>2 DEF Once
    <2>1. \A k \in 1 .. Len(s) : r[k] \in ToSet(s)
        BY <1>1, <1>2 DEF ToSet
    <2>2. QED BY <1>1, <1>2, <1>4, <2>1 DEF Once
<1>5. QED BY <1>1, <1>3, <1>4 DEF r

\* The writer takes the head.
LEMMA TailCopy ==
    ASSUME NEW s \in Seq(Copies), s # <<>>
    PROVE  /\ Head(s) \in ToSet(s) /\ Tail(s) \in Seq(Copies) /\ Len(Tail(s)) <= Len(s)
           /\ ToSet(s) = ToSet(Tail(s)) \cup {Head(s)}
           /\ Once(s) => /\ Once(Tail(s))
                         /\ Head(s) \in ToSet(Tail(s)) => Head(s).form = "raw"
<1> DEFINE r == Tail(s)
<1>1. /\ r \in Seq(Copies) /\ Len(r) = Len(s) - 1 /\ Len(s) \in Nat /\ Len(r) \in Nat
      /\ \A i \in 1 .. Len(r) : r[i] = s[i + 1]
    BY HeadTailProperties, LenProperties
<1>2. DOMAIN s = 1 .. Len(s) /\ DOMAIN r = 1 .. Len(r) /\ Head(s) = s[1]
    BY <1>1, LenProperties
<1> HIDE DEF r
<1>3. ToSet(s) = ToSet(r) \cup {Head(s)}
    <2>1. ASSUME NEW y \in ToSet(s) PROVE y \in ToSet(r) \cup {Head(s)}
        <3>1. PICK i \in 1 .. Len(s) : y = s[i]
            BY <1>2 DEF ToSet
        <3>2. CASE i = 1
            BY <1>2, <3>1, <3>2
        <3>3. CASE i # 1
            <4>1. i - 1 \in 1 .. Len(r) /\ r[i - 1] = s[(i - 1) + 1] /\ (i - 1) + 1 = i
                BY <1>1, <3>3
            <4>2. QED BY <1>2, <3>1, <4>1 DEF ToSet
        <3>4. QED BY <3>2, <3>3
    <2>2. ASSUME NEW y \in ToSet(r) PROVE y \in ToSet(s)
        <3>1. PICK i \in 1 .. Len(r) : y = r[i]
            BY <1>2 DEF ToSet
        <3>2. i + 1 \in DOMAIN s /\ y = s[i + 1]
            BY <1>1, <1>2, <3>1
        <3>3. QED BY <3>2 DEF ToSet
    <2>3. Head(s) \in ToSet(s)
        BY <1>1, <1>2 DEF ToSet
    <2>4. QED BY <2>1, <2>2, <2>3
<1>4. ASSUME Once(s) PROVE Once(r) /\ (Head(s) \in ToSet(r) => Head(s).form = "raw")
    <2>1. ASSUME NEW i \in 1 .. Len(r), NEW j \in 1 .. Len(r), r[i] = r[j], r[i].form # "raw"
          PROVE  i = j
        <3>1. i + 1 \in DOMAIN s /\ j + 1 \in DOMAIN s /\ s[i + 1] = s[j + 1] /\ s[i + 1].form # "raw"
            BY <1>1, <1>2, <2>1
        <3>2. QED BY <1>4, <3>1 DEF Once
    <2>2. ASSUME Head(s) \in ToSet(r) PROVE Head(s).form = "raw"
        <3>1. PICK i \in 1 .. Len(r) : Head(s) = r[i]
            BY <1>2, <2>2 DEF ToSet
        <3>2. 1 \in DOMAIN s /\ i + 1 \in DOMAIN s /\ s[i + 1] = s[1] /\ i + 1 # 1
            BY <1>1, <1>2, <3>1
        <3>3. QED BY <1>2, <1>4, <3>2 DEF Once
    <2>3. QED BY <1>2, <2>1, <2>2 DEF Once
<1>5. QED BY <1>1, <1>2, <1>3, <1>4 DEF r

\* A flush appends to what is in the channel.
LEMMA ConcatCopy ==
    ASSUME NEW s \in Seq(Copies), NEW t \in Seq(Copies)
    PROVE  /\ s \o t \in Seq(Copies) /\ Len(s \o t) = Len(s) + Len(t)
           /\ ToSet(s \o t) = ToSet(s) \cup ToSet(t)
           /\ Once(s) /\ Once(t) /\ Stamped(s) \cap Stamped(t) = {} => Once(s \o t)
<1> DEFINE r == s \o t
<1>1. /\ r \in Seq(Copies) /\ Len(r) = Len(s) + Len(t) /\ Len(s) \in Nat /\ Len(t) \in Nat
      /\ \A i \in 1 .. Len(s) + Len(t) : r[i] = IF i <= Len(s) THEN s[i] ELSE t[i - Len(s)]
    BY ConcatProperties, LenProperties
<1>2. /\ DOMAIN s = 1 .. Len(s) /\ DOMAIN t = 1 .. Len(t)
      /\ DOMAIN r = 1 .. Len(s) + Len(t)
    BY <1>1, LenProperties
<1> HIDE DEF r
<1>3. ToSet(r) = ToSet(s) \cup ToSet(t)
    <2>1. ASSUME NEW y \in ToSet(r) PROVE y \in ToSet(s) \cup ToSet(t)
        <3>1. PICK i \in 1 .. Len(s) + Len(t) : y = r[i]
            BY <1>2 DEF ToSet
        <3>2. CASE i <= Len(s)
            <4>1. i \in 1 .. Len(s) /\ y = s[i]
                BY <1>1, <3>1, <3>2
            <4>2. QED BY <1>2, <4>1 DEF ToSet
        <3>3. CASE ~(i <= Len(s))
            <4>1. i - Len(s) \in 1 .. Len(t) /\ y = t[i - Len(s)]
                BY <1>1, <3>1, <3>3
            <4>2. QED BY <1>2, <4>1 DEF ToSet
        <3>4. QED BY <3>2, <3>3
    <2>2. ASSUME NEW i \in 1 .. Len(s) PROVE s[i] \in ToSet(r)
        <3>1. i \in DOMAIN r /\ r[i] = s[i]
            BY <1>1, <1>2
        <3>2. QED BY <3>1 DEF ToSet
    <2>3. ASSUME NEW i \in 1 .. Len(t) PROVE t[i] \in ToSet(r)
        <3>1. Len(s) + i \in DOMAIN r /\ r[Len(s) + i] = t[i]
            <4>1. /\ Len(s) + i \in 1 .. Len(s) + Len(t) /\ ~(Len(s) + i <= Len(s))
                  /\ (Len(s) + i) - Len(s) = i
                BY <1>1
            <4>2. QED BY <1>1, <1>2, <4>1
        <3>2. QED BY <3>1 DEF ToSet
    <2>4. QED BY <1>2, <2>1, <2>2, <2>3 DEF ToSet
<1>4. ASSUME Once(s), Once(t), Stamped(s) \cap Stamped(t) = {} PROVE Once(r)
    <2>1. \A i \in 1 .. Len(s) : \A j \in 1 .. Len(t) : s[i] = t[j] => s[i].form = "raw"
        BY <1>2, <1>4 DEF Stamped, ToSet
    <2> SUFFICES ASSUME NEW i \in 1 .. Len(s) + Len(t), NEW j \in 1 .. Len(s) + Len(t),
                        r[i] = r[j], r[i].form # "raw"
                 PROVE  i = j
        BY <1>2 DEF Once
    <2>2. CASE i <= Len(s) /\ j <= Len(s)
        BY <1>1, <1>2, <1>4, <2>2 DEF Once
    <2>3. CASE ~(i <= Len(s)) /\ ~(j <= Len(s))
        <3>1. /\ i - Len(s) \in DOMAIN t /\ j - Len(s) \in DOMAIN t
              /\ t[i - Len(s)] = t[j - Len(s)] /\ t[i - Len(s)].form # "raw"
            BY <1>1, <1>2, <2>3
        <3>2. i - Len(s) = j - Len(s)
            BY <1>4, <3>1 DEF Once
        <3>3. QED BY <1>1, <3>2
    <2>4. CASE i <= Len(s) /\ ~(j <= Len(s))
        <3>1. i \in 1 .. Len(s) /\ j - Len(s) \in 1 .. Len(t) /\ s[i] = t[j - Len(s)]
            BY <1>1, <2>4
        <3>2. QED BY <1>1, <2>1, <2>4, <3>1
    <2>5. CASE ~(i <= Len(s)) /\ j <= Len(s)
        <3>1. j \in 1 .. Len(s) /\ i - Len(s) \in 1 .. Len(t) /\ s[j] = t[i - Len(s)]
            BY <1>1, <2>5
        <3>2. QED BY <1>1, <2>1, <2>5, <3>1
    <2>6. QED BY <2>2, <2>3, <2>4, <2>5
<1>5. QED BY <1>1, <1>3, <1>4 DEF r

\* What a flush of s into a channel with some room pushes and drops.
LEMMA FlushCopy ==
    ASSUME NEW s \in Seq(Copies), NEW room \in Nat
    PROVE  /\ Fitting(s, room) \in Seq(Copies) /\ Len(Fitting(s, room)) <= room
           /\ ToSet(Fitting(s, room)) \subseteq ToSet(s)
           /\ ToSet(Spilling(s, room)) \subseteq ToSet(s)
           /\ ToSet(s) \subseteq ToSet(Fitting(s, room)) \cup ToSet(Spilling(s, room))
           /\ Once(s) => Once(Fitting(s, room))
<1> DEFINE n == IF Len(s) < room THEN Len(s) ELSE room
           f == SubSeq(s, 1, n)
           m == Len(s)
           g == SubSeq(s, n + 1, m)
<1>1. m \in Nat /\ n \in Nat /\ n <= m /\ n <= room /\ DOMAIN s = 1 .. m
    BY LenProperties
<1>2. \A i \in 1 .. m : s[i] \in Copies
    BY <1>1, ElementOfSeq
<1> HIDE DEF n, m
<1>3. \A i \in 1 .. n : s[i] \in Copies
    BY <1>1, <1>2
<1>4. \A i \in n + 1 .. m : s[i] \in Copies
    BY <1>1, <1>2
<1>5. f \in Seq(Copies) /\ Len(f) = n /\ \A i \in 1 .. n : f[i] = s[i]
    <2>1. /\ f \in Seq(Copies) /\ Len(f) = IF 1 <= n THEN n - 1 + 1 ELSE 0
          /\ \A i \in 1 .. n - 1 + 1 : f[i] = s[1 + i - 1]
        <3>1. 1 \in Int /\ n \in Int
            BY <1>1
        <3>2. QED BY ONLY <1>3, <3>1, SubSeqProperties
    <2>2. QED BY <1>1, <2>1
<1>6. g \in Seq(Copies) /\ Len(g) = m - n /\ \A i \in 1 .. m - n : g[i] = s[n + i]
    <2>1. /\ g \in Seq(Copies) /\ Len(g) = IF n + 1 <= m THEN m - (n + 1) + 1 ELSE 0
          /\ \A i \in 1 .. m - (n + 1) + 1 : g[i] = s[(n + 1) + i - 1]
        <3>1. n + 1 \in Int /\ m \in Int
            BY <1>1
        <3>2. QED BY ONLY <1>4, <3>1, SubSeqProperties
    <2>2. QED BY <1>1, <2>1
<1>7. DOMAIN f = 1 .. n /\ DOMAIN g = 1 .. m - n
    BY <1>5, <1>6, LenProperties
<1>8. f = Fitting(s, room) /\ g = Spilling(s, room)
    BY <1>5 DEF Fitting, Spilling, n, m
<1> HIDE DEF f, g
<1>9. ToSet(f) \subseteq ToSet(s) /\ ToSet(g) \subseteq ToSet(s)
    <2>1. ASSUME NEW i \in 1 .. n PROVE f[i] \in ToSet(s)
        BY <1>1, <1>5 DEF ToSet
    <2>2. ASSUME NEW i \in 1 .. m - n PROVE g[i] \in ToSet(s)
        <3>1. n + i \in DOMAIN s /\ g[i] = s[n + i]
            BY <1>1, <1>6
        <3>2. QED BY <3>1 DEF ToSet
    <2>3. QED BY <1>7, <2>1, <2>2 DEF ToSet
<1>10. ASSUME NEW i \in 1 .. m PROVE s[i] \in ToSet(f) \cup ToSet(g)
    <2>1. CASE i <= n
        BY <1>1, <1>5, <1>7, <2>1 DEF ToSet
    <2>2. CASE ~(i <= n)
        <3>1. i - n \in DOMAIN g /\ g[i - n] = s[i]
            <4>1. i - n \in 1 .. m - n /\ n + (i - n) = i
                BY <1>1, <2>2
            <4>2. QED BY <1>6, <1>7, <4>1
        <3>2. QED BY <3>1 DEF ToSet
    <2>3. QED BY <2>1, <2>2
<1>11. Once(s) => Once(f)
    BY <1>1, <1>5, <1>7 DEF Once
<1>12. ToSet(s) \subseteq ToSet(f) \cup ToSet(g)
    BY <1>1, <1>10 DEF ToSet
<1>13. QED BY <1>1, <1>5, <1>8, <1>9, <1>11, <1>12

\* What a query returns are rows at the positions it selects.
LEMMA OrderedRows ==
    ASSUME NEW S, stored \in Seq(S), NEW P \in SUBSET DOMAIN stored, NEW rows \in Ordered(P)
    PROVE  rows \in Seq(S) /\ \A x \in ToSet(rows) : \E i \in P : x = stored[i]
<1> DEFINE n == Cardinality(P)
<1>1. n \in Nat
    <2>1. DOMAIN stored = 1 .. Len(stored) /\ Len(stored) \in Nat
        BY LenProperties
    <2>2. IsFiniteSet(DOMAIN stored)
        BY <2>1, FS_Interval
    <2>3. IsFiniteSet(P)
        BY <2>2, FS_Subset
    <2>4. QED BY <2>3, FS_CardinalityType
<1> HIDE DEF n
<1>2. PICK f \in [1 .. n -> P] : rows = [k \in 1 .. n |-> stored[f[k]]]
    BY DEF Ordered, n
<1>3. \A i \in DOMAIN stored : stored[i] \in S
    BY ElementOfSeq, LenProperties
<1>4. DOMAIN rows = 1 .. n /\ \A k \in 1 .. n : f[k] \in P /\ rows[k] = stored[f[k]]
    BY <1>2
<1>5. rows \in Seq(S)
    <2>1. rows \in [1 .. n -> S]
        BY <1>2, <1>3, <1>4
    <2>2. QED BY <1>1, <2>1, SeqDef
<1>6. QED BY <1>4, <1>5 DEF ToSet
-----------------------------------------------------------------------------
Goroutine == Conn \cup Payments

Tasks == {Idle} \cup [at : {"lookup", "keep"}, item : Copies]
                \cup [at : {"push"}, item : Copies, conn : Conn]

Rows == [msg : Msg, form : {"raw"}]

CopyShapes ==
    /\ queue \in [User -> Seq(Copies)]
    /\ stored \in Seq(Rows)
    /\ channel \in [Conn -> Seq(Copies)]
    /\ delivered \in [Conn -> Seq(Copies)]
    /\ task \in [Goroutine -> Tasks]
    /\ up \subseteq Conn /\ posted \subseteq Msg /\ lost \subseteq Copies

Busy(t) == task[t].at # "idle"

\* A channel holds no more than fits, and nothing before serveWS has begun.  Hub.send
\* pushes to clients that have been registered for the recipient.
ChannelInv ==
    /\ \A c \in Conn : Len(channel[c]) <= Cap /\ (handler[c] = "new" => channel[c] = <<>>)
    /\ \A t \in Goroutine : task[t].at = "push" =>
          Started(task[t].conn) /\ OwnerOf[task[t].conn] = Recipient(task[t].item)

\* A goroutine started for a payment sends the answer to it.
AnswerInv == \A t \in Payments : Busy(t) => task[t].item = Copy(t, "ack")

RightInv ==
    /\ \A u \in User : \A x \in ToSet(queue[u]) : Recipient(x) = u
    /\ \A c \in Conn : \A x \in ToSet(channel[c]) : Recipient(x) = OwnerOf[c]
    /\ RightRecipient

\* The places a copy can be in, and the stamped copies and answers in each.
Place == ({"task"} \X Goroutine) \cup ({"queue"} \X User) \cup ({"channel", "delivered"} \X Conn)

InTask(t) == IF Busy(t) THEN {x \in {task[t].item} : x.form # "raw"} ELSE {}

Holds(p) ==
    CASE p[1] = "task" -> InTask(p[2])
      [] p[1] = "queue" -> Stamped(queue[p[2]])
      [] p[1] = "channel" -> Stamped(channel[p[2]])
      [] p[1] = "delivered" -> Stamped(delivered[p[2]])

\* The message whose raw bytes t is sending.
RawIn(t) == IF Busy(t) /\ task[t].item.form = "raw" THEN {task[t].item.msg} ELSE {}

\* A copy is in one place; a message sent raw has none yet; and the copy owed for
\* what was read is still to be made, or in some place, or dropped.
OnePlace == \A p, q \in Place : \A x \in Holds(p) \cap Holds(q) : p = q

HeldInv == \A p \in Place : \A x \in Holds(p) : x.msg \in posted

RawInv ==
    \A t \in Goroutine : \A m \in RawIn(t) :
        /\ m \in posted
        /\ \A s \in Goroutine : m \in RawIn(s) => s = t
        /\ \A p \in Place : \A x \in Holds(p) : x.msg # m

KeptInv ==
    \A m \in posted : \/ Owed(m) \in lost
                      \/ \E t \in Goroutine : m \in RawIn(t)
                      \/ \E p \in Place : Owed(m) \in Holds(p)

CopyInv == OnePlace /\ HeldInv /\ RawInv /\ KeptInv

OnceInv ==
    /\ \A u \in User : Once(queue[u])
    /\ \A c \in Conn : Once(channel[c]) /\ Once(delivered[c])

RestInv == CopyShapes /\ ChannelInv /\ AnswerInv /\ RightInv /\ CopyInv /\ OnceInv

\* What is in a channel that no writer reads has been dropped.
DeadInv == \A c \in Conn \ writer : Stamped(channel[c]) \subseteq lost

RelayInv == ClientInv /\ RestInv /\ DeadInv
-----------------------------------------------------------------------------
\* Where each place is.
LEMMA Places ==
    /\ \A t \in Goroutine : <<"task", t>> \in Place /\ Holds(<<"task", t>>) = InTask(t)
    /\ \A u \in User : <<"queue", u>> \in Place /\ Holds(<<"queue", u>>) = Stamped(queue[u])
    /\ \A c \in Conn : /\ <<"channel", c>> \in Place
                       /\ Holds(<<"channel", c>>) = Stamped(channel[c])
                       /\ <<"delivered", c>> \in Place
                       /\ Holds(<<"delivered", c>>) = Stamped(delivered[c])
BY DEF Place, Holds

\* There are no other places.
LEMMA PlaceKinds ==
    ASSUME NEW p \in Place
    PROVE  \/ \E t \in Goroutine : p = <<"task", t>>
           \/ \E u \in User : p = <<"queue", u>>
           \/ \E c \in Conn : p = <<"channel", c>>
           \/ \E c \in Conn : p = <<"delivered", c>>
BY DEF Place

\* Copies go from where they are to the place p, or are dropped.
LEMMA MoveCopies ==
    ASSUME CopyInv, NEW p \in Place, NEW M,
           \A q \in Place \ {p} : Holds(q)' \subseteq Holds(q) \ M,
           Holds(p)' \subseteq Holds(p) \cup M,
           \A x \in M : \E q \in Place : x \in Holds(q),
           posted' = posted,
           lost \subseteq lost',
           \A t \in Goroutine : RawIn(t)' = RawIn(t),
           \A q \in Place : \A x \in Holds(q) : x \in lost' \/ \E r \in Place : x \in Holds(r)'
    PROVE  CopyInv'
<1>1. \A q \in Place : \A x \in Holds(q)' : \E r \in Place : x \in Holds(r)
    BY DEF CopyInv
<1>2. OnePlace'
    BY DEF CopyInv, OnePlace
<1>3. HeldInv'
    BY <1>1 DEF CopyInv, HeldInv
<1>4. RawInv'
    BY <1>1 DEF CopyInv, RawInv
<1>5. KeptInv'
    BY DEF CopyInv, KeptInv
<1>6. QED BY <1>2, <1>3, <1>4, <1>5 DEF CopyInv

\* The raw bytes have been sent or kept: what follows is a copy of its own.
LEMMA StampCopy ==
    ASSUME CopyInv, NEW t \in Goroutine, NEW p \in Place, NEW x, x.msg \in RawIn(t), x = Owed(x.msg),
           Holds(p)' = Holds(p) \cup {x},
           \A q \in Place \ {p} : Holds(q)' = Holds(q),
           \A m \in RawIn(t) : m = x.msg, RawIn(t)' = {},
           \A s \in Goroutine \ {t} : RawIn(s)' = RawIn(s),
           posted' = posted, lost \subseteq lost'
    PROVE  CopyInv'
<1>1. \A q \in Place : x \notin Holds(q) /\ \A y \in Holds(q) : y.msg # x.msg
    BY DEF CopyInv, RawInv
<1>2. OnePlace'
    BY <1>1 DEF CopyInv, OnePlace
<1>3. HeldInv'
    BY DEF CopyInv, HeldInv, RawInv
<1>4. RawInv'
    BY DEF CopyInv, RawInv
<1>5. KeptInv'
    <2>1. x \in Holds(p)'
        OBVIOUS
    <2>2. ASSUME NEW m \in posted, Owed(m) \notin lost
          PROVE  \/ \E s \in Goroutine : m \in RawIn(s)'
                 \/ \E q \in Place : Owed(m) \in Holds(q)'
        <3>1. CASE \E s \in Goroutine : m \in RawIn(s)
            BY <2>1, <3>1
        <3>2. CASE \E q \in Place : Owed(m) \in Holds(q)
            BY <3>2
        <3>3. QED BY <2>2, <3>1, <3>2 DEF CopyInv, KeptInv
    <2>3. QED BY <2>2 DEF KeptInv
<1>6. QED BY <1>2, <1>3, <1>4, <1>5 DEF CopyInv

\* An empty sequence holds nothing.
LEMMA EmptyCopies == Stamped(<<>>) = {} /\ ToSet(<<>>) = {} /\ Once(<<>>)
BY DEF Stamped, ToSet, Once

\* Nothing has been read, and nothing is anywhere.
LEMMA InitRelay == Init => RelayInv
<1> SUFFICES ASSUME Init PROVE RelayInv
    OBVIOUS
<1>1. \A t \in Goroutine : task[t] = Idle
    BY DEF Init, Goroutine
<1>2. \A t \in Goroutine : ~Busy(t) /\ InTask(t) = {} /\ RawIn(t) = {}
    BY <1>1 DEF Busy, Idle, InTask, RawIn
<1>3. \A p \in Place : Holds(p) = {}
    BY <1>2, EmptyCopies, PlaceKinds, Places DEF Init
<1>4. CopyInv
    BY <1>2, <1>3 DEF Init, CopyInv, OnePlace, HeldInv, RawInv, KeptInv
<1>5. CopyShapes
    <2>1. task \in [Goroutine -> Tasks]
        BY DEF Init, Goroutine, Tasks
    <2>2. /\ queue \in [User -> Seq(Copies)] /\ stored \in Seq(Rows)
          /\ channel \in [Conn -> Seq(Copies)] /\ delivered \in [Conn -> Seq(Copies)]
        BY EmptySeq DEF Init
    <2>3. QED BY <2>1, <2>2 DEF Init, CopyShapes
<1>6. ChannelInv
    BY <1>1, HubAssumption DEF Init, ChannelInv, Idle
<1>7. AnswerInv
    BY <1>2 DEF AnswerInv, Goroutine
<1>8. RightInv /\ OnceInv
    BY EmptyCopies DEF Init, RightInv, RightRecipient, OnceInv
<1>9. DeadInv
    BY EmptyCopies DEF Init, DeadInv
<1>10. QED BY <1>4, <1>5, <1>6, <1>7, <1>8, <1>9, InitClient DEF RelayInv, RestInv

\* What a busy goroutine sends.
LEMMA TaskShape ==
    ASSUME CopyShapes, NEW t \in Goroutine
    PROVE  /\ Busy(t) <=> task[t].at # "idle"
           /\ Busy(t) => /\ task[t].item \in Copies
                         /\ task[t] # Idle
           /\ ~Busy(t) <=> task[t] = Idle
           /\ task[t].at = "push" => task[t].conn \in Conn
<1>1. task[t] \in Tasks
    BY DEF CopyShapes
<1>2. CASE task[t] = Idle
    BY <1>2 DEF Busy, Idle
<1>3. CASE task[t] \in [at : {"lookup", "keep"}, item : Copies]
    <2>1. task[t].at \in {"lookup", "keep"} /\ task[t].item \in Copies
        BY <1>3
    <2>2. QED BY <2>1 DEF Busy, Idle
<1>4. CASE task[t] \in [at : {"push"}, item : Copies, conn : Conn]
    <2>1. task[t].at = "push" /\ task[t].item \in Copies /\ task[t].conn \in Conn
        BY <1>4
    <2>2. QED BY <2>1 DEF Busy, Idle
<1>5. QED BY <1>1, <1>2, <1>3, <1>4 DEF Tasks

\* What a goroutine does next when its copy was not raw.
LEMMA NextStamped ==
    ASSUME CopyShapes, ChannelInv, AnswerInv, NEW t \in Goroutine, Busy(t), task[t].item.form # "raw",
           task' = NextTasks(t)
    PROVE  /\ task' = [task EXCEPT ![t] = Idle]
           /\ InTask(t) = {task[t].item} /\ InTask(t)' = {}
           /\ \A s \in Goroutine : RawIn(s)' = RawIn(s)
           /\ \A s \in Goroutine \ {t} : InTask(s)' = InTask(s)
<1>1. task' = [task EXCEPT ![t] = Idle]
    BY DEF NextTasks
<1>2. task'[t] = Idle /\ \A s \in Goroutine \ {t} : task'[s] = task[s]
    BY <1>1 DEF CopyShapes
<1>3. QED BY <1>1, <1>2 DEF InTask, RawIn, Busy, Idle

\* The goroutine, and the copy, that follow the raw bytes of m sent by t.
NextAt(t) == IF task[t].item.msg \in Payments THEN task[t].item.msg ELSE t

NextCopy(t) == Owed(task[t].item.msg)

\* What it does next when its copy was raw.
LEMMA NextRaw ==
    ASSUME CopyShapes, AnswerInv, CopyInv, NEW t \in Goroutine, Busy(t), task[t].item.form = "raw",
           task' = NextTasks(t), NEW s0, s0 = NextAt(t), NEW y, y = NextCopy(t)
    PROVE  /\ s0 \in Goroutine /\ y \in Copies /\ y.form # "raw"
           /\ s0 \in Payments => y = Copy(s0, "ack")
           /\ task'[s0] = Sending(y)
           /\ t # s0 => task'[t] = Idle
           /\ \A s \in Goroutine \ {t, s0} : task'[s] = task[s]
           /\ DOMAIN task' = Goroutine
           /\ RawIn(t) = {y.msg} /\ RawIn(t)' = {} /\ y = Owed(y.msg)
           /\ InTask(s0)' = InTask(s0) \cup {y}
           /\ \A s \in Goroutine \ {t} : RawIn(s)' = RawIn(s)
           /\ \A s \in Goroutine \ {s0} : InTask(s)' = InTask(s)
<1> DEFINE m == task[t].item.msg
<1>1. m \in Msg /\ RawIn(t) = {m} /\ InTask(t) = {}
    BY TaskShape DEF Copies, RawIn, InTask
<1>2. t \in Conn /\ t \notin Msg /\ t \notin Payments
    <2>1. Copy(t, "ack").form # "raw"
        BY DEF Copy
    <2>2. t \notin Payments
        BY <2>1 DEF AnswerInv
    <2>3. QED BY <2>2, HubAssumption DEF Goroutine
<1>3. m # t
    BY <1>1, <1>2
<1>4. m \in Payments => /\ m \in Goroutine /\ ~Busy(m) /\ InTask(m) = {} /\ RawIn(m) = {}
    <2> SUFFICES ASSUME m \in Payments
                 PROVE  m \in Goroutine /\ ~Busy(m) /\ InTask(m) = {} /\ RawIn(m) = {}
        OBVIOUS
    <2>1. m \in Goroutine
        BY DEF Goroutine
    <2>2. ~Busy(m)
        <3> SUFFICES ASSUME Busy(m) PROVE FALSE
            OBVIOUS
        <3>1. task[m].item = Copy(m, "ack")
            BY DEF AnswerInv
        <3>2. Copy(m, "ack") \in Holds(<<"task", m>>) /\ <<"task", m>> \in Place
            BY <2>1, <3>1, Places DEF InTask, Copy
        <3>3. Copy(m, "ack").msg = m
            BY DEF Copy
        <3>4. QED BY <1>1, <3>2, <3>3 DEF CopyInv, RawInv
    <2>3. QED BY <2>1, <2>2 DEF InTask, RawIn
<1>5. y.msg = m /\ y.form \in {"stamped", "ack"} /\ y \in Copies /\ y = Owed(m)
    BY <1>1 DEF NextCopy, Owed, Copy, Copies
<1>6. s0 \in Goroutine /\ (s0 \in Payments => y = Copy(s0, "ack"))
    BY <1>1, <1>2, <1>4 DEF NextAt, NextCopy, Owed
<1>7. /\ task'[s0] = Sending(y)
      /\ t # s0 => task'[t] = Idle
      /\ \A s \in Goroutine \ {t, s0} : task'[s] = task[s]
      /\ DOMAIN task' = Goroutine
    <2>1. CASE m \in Payments
        <3>1. task' = [task EXCEPT ![t] = Idle, ![m] = Sending(y)] /\ s0 = m
            BY <2>1 DEF NextTasks, NextAt, NextCopy, Owed
        <3>2. QED BY <1>3, <1>4, <2>1, <3>1 DEF CopyShapes
    <2>2. CASE m \notin Payments
        <3>1. task' = [task EXCEPT ![t] = Sending(y)] /\ s0 = t
            BY <2>2 DEF NextTasks, NextAt, NextCopy, Owed
        <3>2. QED BY <3>1 DEF CopyShapes
    <2>3. QED BY <2>1, <2>2
<1>8. InTask(s0) = {} /\ (s0 # t => RawIn(s0) = {})
    BY <1>1, <1>4 DEF NextAt
<1>9. InTask(s0)' = {y} /\ RawIn(s0)' = {}
    <2>1. Sending(y).at = "lookup" /\ Sending(y).item = y
        BY DEF Sending
    <2>2. QED BY <1>5, <1>7, <2>1 DEF InTask, RawIn, Busy
<1>10. t # s0 => InTask(t)' = {} /\ RawIn(t)' = {}
    BY <1>7 DEF InTask, RawIn, Busy, Idle
<1>11. \A s \in Goroutine \ {t, s0} : InTask(s)' = InTask(s) /\ RawIn(s)' = RawIn(s)
    BY <1>7 DEF InTask, RawIn, Busy
<1>12. QED
    <2>1. \A s \in Goroutine \ {s0} : InTask(s)' = InTask(s)
        BY <1>1, <1>10, <1>11
    <2>2. \A s \in Goroutine \ {t} : RawIn(s)' = RawIn(s)
        BY <1>8, <1>9, <1>11
    <2>3. RawIn(t)' = {}
        BY <1>9, <1>10
    <2>4. QED BY <1>1, <1>5, <1>6, <1>7, <1>8, <1>9, <2>1, <2>2, <2>3

\* The shapes of the tasks that follow.
LEMMA NextShapes ==
    ASSUME CopyShapes, ChannelInv, AnswerInv, CopyInv, NEW t \in Goroutine, Busy(t), task' = NextTasks(t)
    PROVE  /\ task' \in [Goroutine -> Tasks] /\ AnswerInv'
           /\ \A s \in Goroutine : task'[s].at = "push" => task'[s] = task[s] /\ task[s].at = "push"
<1>1. CASE task[t].item.form # "raw"
    <2>1. task' = [task EXCEPT ![t] = Idle]
        BY <1>1, NextStamped
    <2>2. task' \in [Goroutine -> Tasks]
        BY <2>1 DEF CopyShapes, Tasks
    <2>3. task'[t] = Idle /\ \A s \in Goroutine \ {t} : task'[s] = task[s]
        BY <2>1 DEF CopyShapes
    <2>4. AnswerInv'
        BY <2>3 DEF AnswerInv, Busy, Idle, Goroutine
    <2>5. QED BY <2>2, <2>3, <2>4 DEF Idle
<1>2. CASE task[t].item.form = "raw"
    <2>1. PICK s0, y : s0 = NextAt(t) /\ y = NextCopy(t)
        OBVIOUS
    <2>2. /\ s0 \in Goroutine /\ y \in Copies
          /\ s0 \in Payments => y = Copy(s0, "ack")
          /\ task'[s0] = Sending(y)
          /\ t # s0 => task'[t] = Idle
          /\ \A s \in Goroutine \ {t, s0} : task'[s] = task[s]
          /\ DOMAIN task' = Goroutine
        BY <1>2, <2>1, NextRaw
    <2>3. Sending(y).at = "lookup" /\ Sending(y).item = y /\ Sending(y) \in Tasks
        BY <2>2 DEF Sending, Tasks
    <2>4. \A s \in Goroutine : task'[s] \in Tasks
        BY <2>2, <2>3 DEF CopyShapes, Tasks
    <2>5. task' \in [Goroutine -> Tasks]
        <3>1. task' = [s \in Goroutine |-> task'[s]]
            BY <2>2 DEF NextTasks, CopyShapes
        <3>2. QED BY <2>4, <3>1
    <2>6. AnswerInv'
        BY <2>2, <2>3 DEF AnswerInv, Busy, Idle, Goroutine
    <2>7. QED BY <2>2, <2>3, <2>5, <2>6 DEF Idle
<1>3. QED BY <1>1, <1>2

\* No copy moves.
LEMMA SameCopies ==
    ASSUME CopyInv, \A p \in Place : Holds(p)' = Holds(p),
           \A t \in Goroutine : RawIn(t)' = RawIn(t),
           posted' = posted, lost \subseteq lost'
    PROVE  CopyInv'
BY DEF CopyInv, OnePlace, HeldInv, RawInv, KeptInv

\* What the variables say about the places.
LEMMA HoldsAfter ==
    /\ \A t \in Goroutine : Holds(<<"task", t>>)' = InTask(t)'
    /\ \A u \in User : Holds(<<"queue", u>>)' = Stamped(queue[u])'
    /\ \A c \in Conn : /\ Holds(<<"channel", c>>)' = Stamped(channel[c])'
                       /\ Holds(<<"delivered", c>>)' = Stamped(delivered[c])'
BY DEF Holds

\* Tasks that stay, stay with the same copies.
LEMMA SameTasks ==
    ASSUME task' = task
    PROVE  \A t \in Goroutine : InTask(t)' = InTask(t) /\ RawIn(t)' = RawIn(t)
BY DEF InTask, RawIn, Busy

\* A row is a copy.
LEMMA RawRows == Rows \subseteq Copies /\ Seq(Rows) \subseteq Seq(Copies)
<1>1. Rows \subseteq Copies
    BY DEF Rows, Copies
<1>2. QED BY <1>1, SeqDef

\* Places that stay with the same copies.
LEMMA SameHolds ==
    ASSUME \A t \in Goroutine : InTask(t)' = InTask(t),
           \A u \in User : Stamped(queue[u])' = Stamped(queue[u]),
           \A c \in Conn : Stamped(channel[c])' = Stamped(channel[c]),
           \A c \in Conn : Stamped(delivered[c])' = Stamped(delivered[c])
    PROVE  \A p \in Place : Holds(p)' = Holds(p)
<1> SUFFICES ASSUME NEW p \in Place PROVE Holds(p)' = Holds(p)
    OBVIOUS
<1>1. CASE \E t \in Goroutine : p = <<"task", t>>
    BY <1>1, Places, HoldsAfter
<1>2. CASE \E u \in User : p = <<"queue", u>>
    BY <1>2, Places, HoldsAfter
<1>3. CASE \E c \in Conn : p = <<"channel", c>>
    BY <1>3, Places, HoldsAfter
<1>4. CASE \E c \in Conn : p = <<"delivered", c>>
    BY <1>4, Places, HoldsAfter
<1>5. QED BY <1>1, <1>2, <1>3, <1>4, PlaceKinds

\* The clients that are pushed to stay registered.
LEMMA ChannelsStay ==
    ASSUME CopyShapes, ChannelInv,
           \A d \in Conn : Started(d) => Started(d)',
           \A t \in Goroutine : task'[t].at = "push" => task'[t] = task[t],
           \A d \in Conn : Len(channel'[d]) <= Cap /\ (handler'[d] = "new" => channel'[d] = <<>>)
    PROVE  ChannelInv'
<1>1. ASSUME NEW t \in Goroutine, task'[t].at = "push"
      PROVE  Started(task[t].conn)' /\ OwnerOf[task[t].conn] = Recipient(task[t].item)
    <2>1. task[t].conn \in Conn
        BY <1>1, TaskShape
    <2>2. QED BY <1>1, <2>1 DEF ChannelInv
<1>2. ASSUME NEW t \in Goroutine, task'[t].at = "push"
      PROVE  handler'[task'[t].conn] \in {"serving", "ended"}
             /\ OwnerOf[task'[t].conn] = Recipient(task'[t].item)
    <2>1. Started(task[t].conn)' /\ OwnerOf[task[t].conn] = Recipient(task[t].item)
        BY <1>1, <1>2
    <2>2. task'[t] = task[t]
        BY <1>2
    <2>3. QED BY <2>1, <2>2 DEF Started
<1>3. QED BY <1>2 DEF ChannelInv, Started

\* A sequence of rows has no stamped copy.
LEMMA RowsOnly ==
    ASSUME NEW s \in Seq(Copies), \A x \in ToSet(s) : x.form = "raw"
    PROVE  Stamped(s) = {} /\ Once(s)
<1>1. \A i \in DOMAIN s : s[i] \in ToSet(s)
    BY DEF ToSet
<1>2. QED BY <1>1 DEF Stamped, Once

\* The channel nobody knows yet gets raw rows only.
LEMMA ConnectRest ==
    ASSUME ClientInv, RestInv, NEW c \in Conn, Connect(c)
    PROVE  RestInv'
<1>1. PICK rows \in Ordered(RowsFor(OwnerOf[c])) \cup {<<>>} :
         /\ channel' = [channel EXCEPT ![c] = Fitting(rows, Cap)]
         /\ handler' = [handler EXCEPT ![c] = IF rows = <<>> THEN "register" ELSE "delete"]
    BY DEF Connect
<1>2. /\ handler[c] = "new" /\ up' = up \cup {c}
      /\ UNCHANGED <<queue, stored, task, posted, delivered, lost>>
    BY DEF Connect
<1>3. /\ rows \in Seq(Copies)
      /\ \A x \in ToSet(rows) : x.form = "raw" /\ x \in Copies /\ Recipient(x) = OwnerOf[c]
    <2>1. stored \in Seq(Rows) /\ RowsFor(OwnerOf[c]) \in SUBSET DOMAIN stored
        BY DEF RestInv, CopyShapes, RowsFor
    <2>2. rows \in Ordered(RowsFor(OwnerOf[c])) =>
             rows \in Seq(Rows) /\ \A x \in ToSet(rows) : \E i \in RowsFor(OwnerOf[c]) : x = stored[i]
        BY <2>1, OrderedRows
    <2>3. \A i \in RowsFor(OwnerOf[c]) : stored[i] \in Rows /\ Recipient(stored[i]) = OwnerOf[c]
        BY <2>1, ElementOfSeq, LenProperties DEF RowsFor
    <2>4. CASE rows \in Ordered(RowsFor(OwnerOf[c]))
        BY <2>2, <2>3, <2>4, RawRows DEF Rows
    <2>5. CASE rows = <<>>
        BY <2>5, EmptySeq, EmptyCopies
    <2>6. QED BY <1>1, <2>4, <2>5
<1> DEFINE f == Fitting(rows, Cap)
<1>4. /\ f \in Seq(Copies) /\ Len(f) <= Cap /\ ToSet(f) \subseteq ToSet(rows)
      /\ Stamped(f) = {} /\ Once(f)
    <2>1. /\ f \in Seq(Copies) /\ Len(f) <= Cap /\ ToSet(f) \subseteq ToSet(rows)
        BY <1>3, FlushCopy, HubAssumption
    <2>2. QED BY <1>3, <2>1, RowsOnly
<1> HIDE DEF f
<1>5. channel' = [channel EXCEPT ![c] = f]
    BY <1>1 DEF f
<1>6. /\ channel'[c] = f /\ channel[c] = <<>>
      /\ \A d \in Conn \ {c} : channel'[d] = channel[d]
    BY <1>2, <1>5 DEF RestInv, CopyShapes, ChannelInv
<1>7. /\ handler'[c] \in {"register", "delete"} /\ ~Started(c)
      /\ \A d \in Conn \ {c} : handler'[d] = handler[d]
    BY <1>1, <1>2 DEF ClientInv, Shapes, Started
<1>8. CopyShapes'
    BY <1>1, <1>2, <1>4, <1>5 DEF RestInv, CopyShapes
<1>9. ChannelInv'
    <2>1. \A d \in Conn : Len(channel'[d]) <= Cap /\ (handler'[d] = "new" => channel'[d] = <<>>)
        BY <1>4, <1>6, <1>7 DEF RestInv, ChannelInv
    <2>2. \A d \in Conn : Started(d) => Started(d)'
        BY <1>7 DEF Started
    <2>3. QED BY <1>2, <2>1, <2>2, ChannelsStay DEF RestInv
<1>10. AnswerInv'
    BY <1>2 DEF RestInv, AnswerInv, Busy
<1>11. RightInv'
    BY <1>2, <1>3, <1>4, <1>6 DEF RestInv, RightInv, RightRecipient
<1>12. CopyInv'
    <2>1. Stamped(channel'[c]) = Stamped(channel[c])
        BY <1>4, <1>6, EmptyCopies
    <2>2. \A p \in Place : Holds(p)' = Holds(p)
        <3>1. \A d \in Conn : Stamped(channel[d])' = Stamped(channel[d])
            BY <1>6, <2>1 DEF Stamped
        <3>2. QED BY <1>2, <3>1, SameHolds, SameTasks DEF Stamped
    <2>3. QED BY <1>1, <1>2, <2>2, SameCopies, SameTasks DEF RestInv
<1>13. OnceInv'
    BY <1>2, <1>4, <1>6 DEF RestInv, OnceInv
<1>14. QED BY <1>8, <1>9, <1>10, <1>11, <1>12, <1>13 DEF RestInv

\* The table loses rows, no stamped copy is there.
LEMMA DeleteRest ==
    ASSUME ClientInv, RestInv, NEW c \in Conn, DeleteRows(c)
    PROVE  RestInv'
<1>1. /\ handler[c] = "delete" /\ handler' = [handler EXCEPT ![c] = "register"]
      /\ stored' \in {stored} \cup Ordered(DOMAIN stored \ RowsFor(OwnerOf[c]))
      /\ UNCHANGED <<queue, channel, up, task, posted, delivered, lost>>
    BY DEF DeleteRows
<1>2. stored' \in Seq(Rows)
    <2>1. stored \in Seq(Rows)
        BY DEF RestInv, CopyShapes
    <2>2. \A rows \in Ordered(DOMAIN stored \ RowsFor(OwnerOf[c])) : rows \in Seq(Rows)
        BY <2>1, OrderedRows
    <2>3. QED BY <1>1, <2>1, <2>2
<1>3. CopyShapes' /\ AnswerInv' /\ RightInv' /\ OnceInv'
    BY <1>1, <1>2 DEF RestInv, CopyShapes, AnswerInv, Busy, RightInv, RightRecipient, OnceInv
<1>4. ChannelInv'
    <2>1. \A d \in Conn : /\ Started(d) => Started(d)'
                          /\ handler'[d] = "new" => handler[d] = "new"
        BY <1>1 DEF ClientInv, Shapes, Started
    <2>2. \A d \in Conn : Len(channel'[d]) <= Cap /\ (handler'[d] = "new" => channel'[d] = <<>>)
        BY <1>1, <2>1 DEF RestInv, ChannelInv
    <2>3. QED BY <1>1, <2>1, <2>2, ChannelsStay DEF RestInv
<1>5. CopyInv'
    <2>1. \A p \in Place : Holds(p)' = Holds(p)
        BY <1>1, SameHolds, SameTasks DEF Stamped
    <2>2. QED BY <1>1, <2>1, SameCopies, SameTasks DEF RestInv
<1>6. QED BY <1>3, <1>4, <1>5 DEF RestInv

\* The queue of the user is emptied into the channel, or spilled.
LEMMA RegisterRest ==
    ASSUME ClientInv, RestInv, NEW c \in Conn, Register(c)
    PROVE  RestInv'
<1> DEFINE u == OwnerOf[c]
           w == queue[u]
           room == Cap - Len(channel[c])
           f == Fitting(w, room)
           g == Spilling(w, room)
<1>1. /\ handler[c] = "register" /\ handler' = [handler EXCEPT ![c] = "serving"]
      /\ channel' = [channel EXCEPT ![c] = channel[c] \o f]
      /\ lost' = lost \cup Dropped(ToSet(g))
      /\ queue' = [queue EXCEPT ![u] = <<>>]
      /\ UNCHANGED <<stored, up, task, posted, delivered>>
    BY DEF Register, Flushed, RestInv, CopyShapes
<1>2. u \in User /\ w \in Seq(Copies) /\ channel[c] \in Seq(Copies) /\ room \in Nat
    <2>1. u \in User /\ channel[c] \in Seq(Copies) /\ queue \in [User -> Seq(Copies)]
        BY HubAssumption DEF RestInv, CopyShapes
    <2>2. Len(channel[c]) \in Nat /\ Len(channel[c]) <= Cap /\ Cap \in Nat
        BY <2>1, LenProperties, HubAssumption DEF RestInv, ChannelInv
    <2>3. QED BY <2>1, <2>2
<1>3. /\ f \in Seq(Copies) /\ Len(f) <= room
      /\ ToSet(f) \subseteq ToSet(w) /\ ToSet(g) \subseteq ToSet(w)
      /\ ToSet(w) \subseteq ToSet(f) \cup ToSet(g)
      /\ Once(w) => Once(f)
    BY <1>2, FlushCopy
<1> HIDE DEF f, g, w, u
<1>4. /\ channel[c] \o f \in Seq(Copies) /\ Len(channel[c] \o f) = Len(channel[c]) + Len(f)
      /\ ToSet(channel[c] \o f) = ToSet(channel[c]) \cup ToSet(f)
      /\ Once(channel[c]) /\ Once(f) /\ Stamped(channel[c]) \cap Stamped(f) = {}
         => Once(channel[c] \o f)
    BY <1>2, <1>3, ConcatCopy
<1>5. /\ channel'[c] = channel[c] \o f /\ \A d \in Conn \ {c} : channel'[d] = channel[d]
      /\ queue'[u] = <<>> /\ \A v \in User \ {u} : queue'[v] = queue[v]
    BY <1>1, <1>2 DEF RestInv, CopyShapes
<1>6. /\ \A d \in Conn : Started(d) => Started(d)'
      /\ \A d \in Conn : handler'[d] = "new" => handler[d] = "new" /\ d # c
    BY <1>1 DEF ClientInv, Shapes, Started
<1>7. \A x \in ToSet(w) : x \in Copies /\ Recipient(x) = u
    <2>1. \A x \in ToSet(w) : x \in Copies
        BY <1>2, ElementOfSeq, LenProperties DEF ToSet
    <2>2. QED BY <1>2, <2>1 DEF RestInv, RightInv, w
<1>8. CopyShapes'
    <2>1. Dropped(ToSet(g)) \subseteq Copies
        BY <1>3, <1>7 DEF Dropped
    <2>2. queue' \in [User -> Seq(Copies)]
        BY <1>1, EmptySeq DEF RestInv, CopyShapes
    <2>3. channel' \in [Conn -> Seq(Copies)]
        BY <1>1, <1>4 DEF RestInv, CopyShapes
    <2>4. QED BY <1>1, <2>1, <2>2, <2>3 DEF RestInv, CopyShapes
<1>9. ChannelInv'
    <2>1. Len(channel[c] \o f) <= Cap
        <3>1. Len(channel[c]) \in Nat /\ Cap \in Nat /\ Len(f) \in Nat
            BY <1>2, <1>3, LenProperties, HubAssumption
        <3>2. QED BY <1>3, <1>4, <3>1
    <2>2. \A d \in Conn : Len(channel'[d]) <= Cap /\ (handler'[d] = "new" => channel'[d] = <<>>)
        BY <1>5, <1>6, <2>1 DEF RestInv, ChannelInv
    <2>3. QED BY <1>1, <1>6, <2>2, ChannelsStay DEF RestInv
<1>10. AnswerInv'
    BY <1>1 DEF RestInv, AnswerInv, Busy
<1>11. RightInv'
    <2>1. \A x \in ToSet(channel'[c]) : Recipient(x) = OwnerOf[c]
        BY <1>3, <1>4, <1>5, <1>7 DEF RestInv, RightInv, u
    <2>2. \A v \in User : \A x \in ToSet(queue'[v]) : Recipient(x) = v
        BY <1>5, EmptyCopies DEF RestInv, RightInv
    <2>3. QED BY <1>1, <1>5, <2>1, <2>2 DEF RestInv, RightInv, RightRecipient
<1>12. /\ Holds(<<"queue", u>>) = Stamped(w) /\ Holds(<<"channel", c>>) = Stamped(channel[c])
       /\ Holds(<<"queue", u>>)' = {} /\ Holds(<<"channel", c>>)' = Stamped(channel[c]) \cup Stamped(f)
       /\ <<"queue", u>> \in Place /\ <<"channel", c>> \in Place
       /\ <<"queue", u>> # <<"channel", c>>
    <2>1. Stamped(channel[c] \o f) = Stamped(channel[c]) \cup Stamped(f)
        BY <1>4 DEF Stamped
    <2>2. Stamped(queue[u])' = {} /\ Stamped(channel[c])' = Stamped(channel[c] \o f)
        BY <1>5, EmptyCopies DEF Stamped
    <2>3. QED BY <1>2, <2>1, <2>2, Places, HoldsAfter DEF w
<1>13. Stamped(f) \subseteq Stamped(w)
    BY <1>3 DEF Stamped
<1>14. Stamped(channel[c]) \cap Stamped(w) = {}
    BY <1>12 DEF RestInv, CopyInv, OnePlace
<1>15. CopyInv'
    <2>1. \A q \in Place \ {<<"queue", u>>, <<"channel", c>>} : Holds(q)' = Holds(q)
        <3> SUFFICES ASSUME NEW q \in Place, q # <<"queue", u>>, q # <<"channel", c>>
                     PROVE  Holds(q)' = Holds(q)
            OBVIOUS
        <3>1. CASE \E t \in Goroutine : q = <<"task", t>>
            BY <1>1, <3>1, Places, HoldsAfter, SameTasks
        <3>2. CASE \E v \in User : q = <<"queue", v>>
            BY <1>5, <3>2, Places, HoldsAfter DEF Stamped
        <3>3. CASE \E d \in Conn : q = <<"channel", d>>
            BY <1>5, <3>3, Places, HoldsAfter DEF Stamped
        <3>4. CASE \E d \in Conn : q = <<"delivered", d>>
            BY <1>1, <3>4, Places, HoldsAfter DEF Stamped
        <3>5. QED BY <3>1, <3>2, <3>3, <3>4, PlaceKinds
    <2>2. \A x \in Stamped(w) : x \in Stamped(f) \/ x \in lost'
        BY <1>1, <1>3 DEF Stamped, Dropped
    <2>3. \A q \in Place : \A x \in Holds(q) : x \in lost' \/ \E r \in Place : x \in Holds(r)'
        BY <1>12, <2>1, <2>2
    <2>4. \A q \in Place \ {<<"channel", c>>} : Holds(q)' \subseteq Holds(q) \ Stamped(f)
        BY <1>12, <1>13, <2>1 DEF RestInv, CopyInv, OnePlace
    <2>5. \A x \in Stamped(f) : \E q \in Place : x \in Holds(q)
        BY <1>12, <1>13
    <2>6. QED BY <1>1, <1>12, <2>3, <2>4, <2>5, MoveCopies, SameTasks DEF RestInv
<1>16. OnceInv'
    <2>1. Once(w) /\ Once(channel[c])
        BY <1>2 DEF RestInv, OnceInv, w
    <2>2. Once(channel'[c])
        BY <1>3, <1>4, <1>5, <1>13, <1>14, <2>1
    <2>3. QED BY <1>1, <1>5, <2>2, EmptyCopies DEF RestInv, OnceInv
<1>17. QED BY <1>8, <1>9, <1>10, <1>11, <1>15, <1>16 DEF RestInv

\* Nothing but tasks, and the life of the goroutines, changes.
Untouched == UNCHANGED <<queue, stored, channel, posted, delivered, lost>>

\* Steps that leave every copy where it is.
LEMMA StillRest ==
    ASSUME RestInv, Untouched, task' = task, up' \subseteq Conn,
           \A d \in Conn : (Started(d) => Started(d)') /\ (handler'[d] = "new" => handler[d] = "new")
    PROVE  RestInv'
<1>1. CopyShapes' /\ AnswerInv' /\ RightInv' /\ OnceInv'
    BY DEF Untouched, RestInv, CopyShapes, AnswerInv, Busy, RightInv, RightRecipient, OnceInv
<1>2. ChannelInv'
    <2>1. \A d \in Conn : Len(channel'[d]) <= Cap /\ (handler'[d] = "new" => channel'[d] = <<>>)
        BY DEF Untouched, RestInv, ChannelInv
    <2>2. QED BY <2>1, ChannelsStay DEF RestInv
<1>3. CopyInv'
    <2>1. \A p \in Place : Holds(p)' = Holds(p)
        BY SameHolds, SameTasks DEF Stamped, Untouched
    <2>2. QED BY <2>1, SameCopies, SameTasks DEF RestInv, Untouched
<1>4. QED BY <1>1, <1>2, <1>3 DEF RestInv

\* The end of a goroutine or a socket.
LEMMA EndsRest ==
    ASSUME ClientInv, RestInv, NEW c \in Conn, WriterEnds(c) \/ Drop(c) \/ ReaderEnds(c)
    PROVE  RestInv'
<1>1. Untouched /\ task' = task /\ up' \subseteq Conn
    BY DEF WriterEnds, Drop, ReaderEnds, Untouched, RestInv, CopyShapes
<1>2. \A d \in Conn : (Started(d) => Started(d)') /\ (handler'[d] = "new" => handler[d] = "new")
    BY DEF WriterEnds, Drop, ReaderEnds, ClientInv, Shapes, Started
<1>3. QED BY <1>1, <1>2, StillRest

\* A goroutine goes on with the copy it has: it looks the client up, or keeps
\* what it could not push.
LEMMA SameItem ==
    ASSUME RestInv, Untouched, UNCHANGED <<up, handler>>, NEW t \in Goroutine, Busy(t),
           NEW next \in Tasks, next.at # "idle", next.item = task[t].item,
           task' = [task EXCEPT ![t] = next],
           next.at = "push" => Started(next.conn) /\ OwnerOf[next.conn] = Recipient(next.item)
    PROVE  RestInv'
<1>1. task'[t] = next /\ \A s \in Goroutine \ {t} : task'[s] = task[s]
    BY DEF RestInv, CopyShapes
<1>2. CopyShapes'
    BY DEF Untouched, RestInv, CopyShapes
<1>3. \A s \in Goroutine : InTask(s)' = InTask(s) /\ RawIn(s)' = RawIn(s)
    BY <1>1 DEF InTask, RawIn, Busy
<1>4. ChannelInv'
    BY <1>1 DEF Untouched, RestInv, ChannelInv, Started
<1>5. AnswerInv' /\ RightInv' /\ OnceInv'
    BY <1>1 DEF Untouched, RestInv, AnswerInv, Busy, RightInv, RightRecipient, OnceInv, Goroutine
<1>6. CopyInv'
    <2>1. \A p \in Place : Holds(p)' = Holds(p)
        BY <1>3, SameHolds DEF Stamped, Untouched
    <2>2. QED BY <1>3, <2>1, SameCopies DEF RestInv, Untouched
<1>7. QED BY <1>2, <1>4, <1>5, <1>6 DEF RestInv

\* The client looked up is registered for the recipient.
LEMMA LookupRest ==
    ASSUME ClientInv, RestInv, NEW t \in Goroutine, Lookup(t)
    PROVE  RestInv'
<1> DEFINE x == task[t].item
           c == TargetOf(x)
           next == IF c = NoConn THEN [at |-> "keep", item |-> x]
                   ELSE [at |-> "push", item |-> x, conn |-> c]
<1>1. task[t].at = "lookup" /\ task' = [task EXCEPT ![t] = next]
      /\ Untouched /\ UNCHANGED <<up, handler>>
    BY DEF Lookup, Untouched
<1>2. Busy(t) /\ x \in Copies
    BY <1>1, TaskShape DEF RestInv
<1>3. Recipient(x) \in User
    BY <1>2, HubAssumption DEF Recipient, Copies
<1>4. c \in Conn \cup {NoConn}
    BY <1>3 DEF TargetOf, ClientInv, Shapes
<1>5. c # NoConn => OwnerOf[c] = Recipient(x) /\ Started(c)
    BY <1>3 DEF TargetOf, ClientInv, ClientsAreLive, Started
<1>6. /\ next \in Tasks /\ next.at # "idle" /\ next.item = x
      /\ next.at = "push" => Started(next.conn) /\ OwnerOf[next.conn] = Recipient(next.item)
    <2>1. CASE c = NoConn
        <3>1. next = [at |-> "keep", item |-> x]
            BY <2>1
        <3>2. QED BY <1>2, <3>1 DEF Tasks
    <2>2. CASE c # NoConn
        <3>1. next = [at |-> "push", item |-> x, conn |-> c] /\ c \in Conn
            BY <1>4, <2>2
        <3>2. QED BY <1>2, <1>5, <2>2, <3>1 DEF Tasks
    <2>3. QED BY <2>1, <2>2
<1> HIDE DEF next
<1>7. QED BY <1>1, <1>2, <1>6, SameItem

\* The message is new, and has no copy yet.
LEMMA ReadRest ==
    ASSUME ClientInv, RestInv, NEW c \in Conn, NEW m \in Msg, Read(c, m)
    PROVE  RestInv'
<1> DEFINE next == Sending(Copy(m, "raw"))
<1>1. /\ task[c] = Idle /\ m \notin posted /\ posted' = posted \cup {m}
      /\ task' = [task EXCEPT ![c] = next]
      /\ UNCHANGED <<queue, stored, channel, up, handler, delivered, lost>>
    BY DEF Read
<1>2. /\ next \in Tasks /\ next.at = "lookup" /\ next.item.form = "raw" /\ next.item.msg = m
    BY DEF Tasks, Sending, Copy, Copies
<1> HIDE DEF next
<1>3. c \in Goroutine /\ c \notin Payments
    BY HubAssumption DEF Goroutine
<1>4. task'[c] = next /\ \A s \in Goroutine \ {c} : task'[s] = task[s]
    BY <1>1, <1>3 DEF RestInv, CopyShapes
<1>5. CopyShapes'
    BY <1>1, <1>2 DEF RestInv, CopyShapes
<1>6. ChannelInv'
    BY <1>1, <1>2, <1>4 DEF RestInv, ChannelInv, Started
<1>7. AnswerInv' /\ RightInv' /\ OnceInv'
    BY <1>1, <1>3, <1>4 DEF RestInv, AnswerInv, Busy, RightInv, RightRecipient, OnceInv, Goroutine
<1>8. /\ InTask(c) = {} /\ RawIn(c) = {} /\ InTask(c)' = {} /\ RawIn(c)' = {m}
      /\ \A s \in Goroutine \ {c} : InTask(s)' = InTask(s) /\ RawIn(s)' = RawIn(s)
    BY <1>1, <1>2, <1>4 DEF InTask, RawIn, Busy, Idle
<1>9. \A p \in Place : Holds(p)' = Holds(p)
    BY <1>1, <1>8, SameHolds DEF Stamped
<1>10. CopyInv'
    <2>1. OnePlace' /\ HeldInv'
        BY <1>1, <1>9 DEF RestInv, CopyInv, OnePlace, HeldInv
    <2>2. RawInv'
        BY <1>1, <1>8, <1>9 DEF RestInv, CopyInv, RawInv, HeldInv
    <2>3. KeptInv'
        BY <1>1, <1>3, <1>8, <1>9 DEF RestInv, CopyInv, KeptInv
    <2>4. QED BY <2>1, <2>2, <2>3 DEF CopyInv
<1>11. QED BY <1>5, <1>6, <1>7, <1>10 DEF RestInv

\* What the invariant says of the copy owed for a message that has been read.
LEMMA Whereabouts ==
    ASSUME ClientInv, RestInv, DeadInv, NEW m \in posted, Owed(m) \notin lost
    PROVE  \/ OnItsWay(m)
           \/ \E c \in Conn : /\ OwnerOf[c] = Recipient(Owed(m))
                              /\ Owed(m) \in Stamped(delivered[c])
<1>0. PICK x : x = Owed(m)
    OBVIOUS
<1>1. DOMAIN task = Goroutine
    BY DEF RestInv, CopyShapes
<1>2. CASE \E t \in Goroutine : m \in RawIn(t)
    <2>1. PICK t \in Goroutine : Busy(t) /\ task[t].item.form = "raw" /\ task[t].item.msg = m
        BY <1>2 DEF RawIn
    <2>2. task[t] # Idle /\ task[t].item \in Copies
        BY <2>1, TaskShape DEF RestInv
    <2>3. task[t].item = Copy(m, "raw")
        BY <2>1, <2>2 DEF Copies, Copy
    <2>4. QED BY <1>1, <2>2, <2>3 DEF OnItsWay
<1>3. CASE \E p \in Place : x \in Holds(p)
    <2>1. PICK p \in Place : x \in Holds(p)
        BY <1>3
    <2>2. CASE \E t \in Goroutine : p = <<"task", t>>
        <3>1. PICK t \in Goroutine : x \in InTask(t)
            BY <2>1, <2>2, Places
        <3>2. task[t] # Idle /\ task[t].item = x
            BY <3>1, TaskShape DEF InTask, RestInv
        <3>3. QED BY <1>0, <1>1, <3>2 DEF OnItsWay
    <2>3. CASE \E u \in User : p = <<"queue", u>>
        <3>1. PICK u \in User : x \in ToSet(queue[u])
            BY <2>1, <2>3, Places DEF Stamped
        <3>2. Recipient(x) = u
            BY <3>1 DEF RestInv, RightInv
        <3>3. QED BY <1>0, <3>1, <3>2 DEF OnItsWay
    <2>4. CASE \E c \in Conn : p = <<"channel", c>>
        <3>1. PICK c \in Conn : x \in Stamped(channel[c])
            BY <2>1, <2>4, Places
        <3>2. c \in writer
            BY <1>0, <3>1 DEF DeadInv
        <3>3. x \in ToSet(channel[c]) /\ OwnerOf[c] = Recipient(x)
            BY <3>1 DEF Stamped, RestInv, RightInv
        <3>4. QED BY <1>0, <3>2, <3>3 DEF OnItsWay
    <2>5. CASE \E c \in Conn : p = <<"delivered", c>>
        <3>1. PICK c \in Conn : x \in Stamped(delivered[c])
            BY <2>1, <2>5, Places
        <3>2. OwnerOf[c] = Recipient(x)
            BY <3>1 DEF Stamped, RestInv, RightInv, RightRecipient
        <3>3. QED BY <1>0, <3>1, <3>2
    <2>6. QED BY <2>1, <2>2, <2>3, <2>4, <2>5, PlaceKinds
<1>4. QED BY <1>0, <1>2, <1>3 DEF RestInv, CopyInv, KeptInv

\* The process starts again: what was in memory is gone.
LEMMA PanicRest ==
    ASSUME ClientInv, RestInv, DeadInv, NEW t \in Goroutine, PushPanics(t)
    PROVE  RestInv'
<1>1. /\ queue' = [u \in User |-> <<>>] /\ channel' = [c \in Conn |-> <<>>] /\ up' = {}
      /\ task' = [s \in Goroutine |-> Idle]
      /\ lost' = lost \cup {Owed(m) : m \in {k \in posted : OnItsWay(k)}}
      /\ UNCHANGED <<stored, posted, delivered>>
    BY DEF PushPanics, RestInv, CopyShapes
<1>2. \A s \in Goroutine : task'[s].at = "idle" /\ InTask(s)' = {} /\ RawIn(s)' = {}
    BY <1>1 DEF InTask, RawIn, Busy, Idle
<1>3. CopyShapes'
    <2>1. lost' \subseteq Copies
        <3>1. \A m \in posted : Owed(m) \in Copies
            BY DEF RestInv, CopyShapes, Owed, Copy, Copies
        <3>2. QED BY <1>1, <3>1 DEF RestInv, CopyShapes
    <2>2. QED BY <1>1, <2>1, EmptySeq DEF RestInv, CopyShapes, Tasks
<1>4. ChannelInv'
    BY <1>1, <1>2, HubAssumption DEF ChannelInv
<1>5. AnswerInv'
    BY <1>2 DEF AnswerInv, Busy, Goroutine
<1>6. RightInv' /\ OnceInv'
    BY <1>1, EmptyCopies DEF RestInv, RightInv, RightRecipient, OnceInv
<1>7. CopyInv'
    <2>1. \A p \in Place : Holds(p)' \subseteq Holds(p)
        <3> SUFFICES ASSUME NEW q \in Place PROVE Holds(q)' \subseteq Holds(q)
            OBVIOUS
        <3>1. CASE \E s \in Goroutine : q = <<"task", s>>
            BY <1>2, <3>1, Places, HoldsAfter
        <3>2. CASE \E u \in User : q = <<"queue", u>>
            BY <1>1, <3>2, Places, HoldsAfter, EmptyCopies DEF Stamped
        <3>3. CASE \E d \in Conn : q = <<"channel", d>>
            BY <1>1, <3>3, Places, HoldsAfter, EmptyCopies DEF Stamped
        <3>4. CASE \E d \in Conn : q = <<"delivered", d>>
            BY <1>1, <3>4, Places, HoldsAfter DEF Stamped
        <3>5. QED BY <3>1, <3>2, <3>3, <3>4, PlaceKinds
    <2>2. OnePlace' /\ HeldInv' /\ RawInv'
        BY <1>1, <1>2, <2>1 DEF RestInv, CopyInv, OnePlace, HeldInv, RawInv
    <2>3. ASSUME NEW m \in posted, Owed(m) \notin lost'
          PROVE  \E q \in Place : Owed(m) \in Holds(q)'
        <3>1. Owed(m) \notin lost /\ ~OnItsWay(m)
            BY <1>1, <2>3
        <3>2. PICK c \in Conn : Owed(m) \in Stamped(delivered[c])
            BY <3>1, Whereabouts
        <3>3. Owed(m) \in Holds(<<"delivered", c>>)'
            BY <1>1, <3>2, HoldsAfter DEF Stamped
        <3>4. QED BY <3>3, Places
    <2>4. KeptInv'
        BY <1>1, <2>3 DEF KeptInv
    <2>5. QED BY <2>2, <2>4 DEF CopyInv
<1>8. QED BY <1>3, <1>4, <1>5, <1>6, <1>7 DEF RestInv

\* The raw bytes have been pushed or stored.
LEMMA SentRaw ==
    ASSUME RestInv, NEW t \in Goroutine, Busy(t), task[t].item.form = "raw", task' = NextTasks(t),
           \A u \in User : Stamped(queue[u])' = Stamped(queue[u]),
           \A c \in Conn : Stamped(channel[c])' = Stamped(channel[c]),
           UNCHANGED <<posted, delivered>>, lost \subseteq lost'
    PROVE  CopyInv'
<1>1. PICK s0, y : s0 = NextAt(t) /\ y = NextCopy(t)
    OBVIOUS
<1>2. /\ s0 \in Goroutine
      /\ RawIn(t) = {y.msg} /\ RawIn(t)' = {} /\ y = Owed(y.msg)
      /\ InTask(s0)' = InTask(s0) \cup {y}
      /\ \A s \in Goroutine \ {t} : RawIn(s)' = RawIn(s)
      /\ \A s \in Goroutine \ {s0} : InTask(s)' = InTask(s)
    BY <1>1, NextRaw DEF RestInv
<1>3. /\ <<"task", s0>> \in Place
      /\ Holds(<<"task", s0>>)' = Holds(<<"task", s0>>) \cup {y}
    BY <1>2, Places, HoldsAfter
<1>4. \A q \in Place \ {<<"task", s0>>} : Holds(q)' = Holds(q)
    <2> SUFFICES ASSUME NEW q \in Place, q # <<"task", s0>> PROVE Holds(q)' = Holds(q)
        OBVIOUS
    <2>1. CASE \E s \in Goroutine : q = <<"task", s>>
        BY <1>2, <2>1, Places, HoldsAfter
    <2>2. CASE \E u \in User : q = <<"queue", u>>
        BY <2>2, Places, HoldsAfter
    <2>3. CASE \E d \in Conn : q = <<"channel", d>>
        BY <2>3, Places, HoldsAfter
    <2>4. CASE \E d \in Conn : q = <<"delivered", d>>
        BY <2>4, Places, HoldsAfter DEF Stamped
    <2>5. QED BY <2>1, <2>2, <2>3, <2>4, PlaceKinds
<1>5. QED BY <1>2, <1>3, <1>4, StampCopy DEF RestInv

\* A stamped copy, or an answer, has been pushed or queued.
LEMMA SentStamped ==
    ASSUME RestInv, NEW t \in Goroutine, Busy(t), task[t].item.form # "raw", task' = NextTasks(t),
           NEW p \in Place, \A s \in Goroutine : p # <<"task", s>>,
           Holds(p)' = Holds(p) \cup {task[t].item},
           \A q \in Place \ {p} : (\A s \in Goroutine : q # <<"task", s>>) => Holds(q)' = Holds(q),
           posted' = posted, lost \subseteq lost'
    PROVE  CopyInv' /\ task[t].item \notin Holds(p)
<1>0. PICK x : x = task[t].item
    OBVIOUS
<1>1. /\ InTask(t) = {x} /\ InTask(t)' = {}
      /\ \A s \in Goroutine : RawIn(s)' = RawIn(s)
      /\ \A s \in Goroutine \ {t} : InTask(s)' = InTask(s)
    BY <1>0, NextStamped DEF RestInv
<1>2. /\ <<"task", t>> \in Place /\ <<"task", t>> # p
      /\ Holds(<<"task", t>>) = {x} /\ Holds(<<"task", t>>)' = {}
      /\ \A s \in Goroutine \ {t} : Holds(<<"task", s>>)' = Holds(<<"task", s>>)
    BY <1>1, Places, HoldsAfter
<1>3. \A q \in Place \ {p, <<"task", t>>} : Holds(q)' = Holds(q)
    BY <1>2
<1>4. \A q \in Place \ {<<"task", t>>} : x \notin Holds(q)
    BY <1>2 DEF RestInv, CopyInv, OnePlace
<1>5. Holds(p)' = Holds(p) \cup {x}
    BY <1>0
<1>6. \A q \in Place \ {p} : Holds(q)' \subseteq Holds(q) \ {x}
    BY <1>2, <1>3, <1>4
<1>7. \A q \in Place : \A y \in Holds(q) : y \in lost' \/ \E r \in Place : y \in Holds(r)'
    BY <1>2, <1>3, <1>5
<1>8. CopyInv'
    <2> DEFINE M == {x}
    <2>1. Holds(p)' \subseteq Holds(p) \cup M /\ \A y \in M : \E q \in Place : y \in Holds(q)
        BY <1>2, <1>5
    <2>2. \A q \in Place \ {p} : Holds(q)' \subseteq Holds(q) \ M
        BY <1>6
    <2>3. \A s \in Goroutine : RawIn(s)' = RawIn(s)
        BY <1>1
    <2>4. CopyInv
        BY DEF RestInv
    <2> HIDE DEF M
    <2>5. QED BY <1>7, <2>1, <2>2, <2>3, <2>4, MoveCopies
<1>9. QED BY <1>2, <1>0, <1>4, <1>8

\* The copy is in the channel, or is still to be kept.
LEMMA PushRest ==
    ASSUME ClientInv, RestInv, NEW t \in Goroutine, Push(t)
    PROVE  RestInv'
<1>0. PICK x, c : x = task[t].item /\ c = task[t].conn
    OBVIOUS
<1>1. /\ x = task[t].item /\ c = task[t].conn /\ task[t].at = "push" /\ Busy(t)
      /\ x \in Copies /\ c \in Conn
    BY <1>0, TaskShape DEF Push, RestInv
<1>2. CASE ~(c \notin closed /\ HasRoom(c))
    <2> DEFINE next == [at |-> "keep", item |-> x]
    <2>1. task' = [task EXCEPT ![t] = next] /\ Untouched /\ UNCHANGED <<up, handler>>
        BY <1>1, <1>2 DEF Push, Untouched
    <2>2. next \in Tasks /\ next.at = "keep" /\ next.item = x
        BY <1>1 DEF Tasks
    <2> HIDE DEF next
    <2>3. QED BY <1>1, <2>1, <2>2, SameItem
<1>3. CASE c \notin closed /\ HasRoom(c)
    <2> DEFINE s == Append(channel[c], x)
    <2>1. /\ channel' = [channel EXCEPT ![c] = s] /\ task' = NextTasks(t)
          /\ UNCHANGED <<queue, stored, up, handler, posted, delivered>>
          /\ lost' \in {lost, lost \cup Dropped({x})}
        BY <1>1, <1>3 DEF Push, RestInv, CopyShapes
    <2>2. /\ channel[c] \in Seq(Copies) /\ Len(channel[c]) \in Nat /\ Cap \in Nat
          /\ Len(channel[c]) < Cap
        BY <1>1, <1>3, LenProperties, HubAssumption DEF RestInv, CopyShapes, HasRoom
    <2>3. /\ s \in Seq(Copies) /\ Len(s) = Len(channel[c]) + 1
          /\ ToSet(s) = ToSet(channel[c]) \cup {x}
          /\ Once(channel[c]) /\ (x.form = "raw" \/ x \notin ToSet(channel[c])) => Once(s)
        BY <1>1, <2>2, AppendCopy
    <2> HIDE DEF s
    <2>4. channel'[c] = s /\ \A d \in Conn \ {c} : channel'[d] = channel[d]
        BY <1>1, <2>1 DEF RestInv, CopyShapes
    <2>5. /\ task' \in [Goroutine -> Tasks] /\ AnswerInv'
          /\ \A r \in Goroutine : task'[r].at = "push" => task'[r] = task[r] /\ task[r].at = "push"
        BY <1>1, <2>1, NextShapes DEF RestInv
    <2>6. CopyShapes' /\ lost \subseteq lost'
        <3>1. Dropped({x}) \subseteq Copies
            BY <1>1 DEF Dropped
        <3>2. QED BY <2>1, <2>3, <2>5, <3>1 DEF RestInv, CopyShapes
    <2>7. ChannelInv'
        <3>1. handler[c] # "new" /\ OwnerOf[c] = Recipient(x)
            BY <1>1 DEF RestInv, ChannelInv, Started
        <3>2. \A d \in Conn : Len(channel'[d]) <= Cap /\ (handler'[d] = "new" => channel'[d] = <<>>)
            BY <2>1, <2>2, <2>3, <2>4, <3>1 DEF RestInv, ChannelInv
        <3>3. QED BY <2>1, <2>5, <3>2, ChannelsStay DEF RestInv, Started
    <2>8. RightInv'
        <3>1. Recipient(x) = OwnerOf[c]
            BY <1>1 DEF RestInv, ChannelInv
        <3>2. QED BY <2>1, <2>3, <2>4, <3>1 DEF RestInv, RightInv, RightRecipient
    <2>9. CopyInv' /\ Once(s)
        <3>1. CASE x.form = "raw"
            <4>1. Stamped(s) = Stamped(channel[c])
                BY <2>3, <3>1 DEF Stamped
            <4>2. \A d \in Conn : Stamped(channel[d])' = Stamped(channel[d])
                BY <2>4, <4>1 DEF Stamped
            <4>3. \A u \in User : Stamped(queue[u])' = Stamped(queue[u])
                BY <2>1 DEF Stamped
            <4>4. CopyInv'
                BY <1>1, <2>1, <2>6, <3>1, <4>2, <4>3, SentRaw
            <4>5. QED BY <1>1, <2>3, <3>1, <4>4 DEF RestInv, OnceInv
        <3>2. CASE x.form # "raw"
            <4> DEFINE p == <<"channel", c>>
            <4>1. /\ p \in Place /\ Holds(p) = Stamped(channel[c])
                  /\ \A r \in Goroutine : p # <<"task", r>>
                BY <1>1, Places
            <4>2. Holds(p)' = Holds(p) \cup {x}
                <5>1. Stamped(channel[c])' = Stamped(channel[c]) \cup {x}
                    BY <2>3, <2>4, <3>2 DEF Stamped
                <5>2. QED BY <1>1, <4>1, <5>1, HoldsAfter
            <4>3. ASSUME NEW q \in Place, q # p, \A r \in Goroutine : q # <<"task", r>>
                  PROVE  Holds(q)' = Holds(q)
                <5>1. CASE \E u \in User : q = <<"queue", u>>
                    BY <2>1, <5>1, Places, HoldsAfter DEF Stamped
                <5>2. CASE \E d \in Conn : q = <<"channel", d>>
                    BY <2>4, <4>3, <5>2, Places, HoldsAfter DEF Stamped
                <5>3. CASE \E d \in Conn : q = <<"delivered", d>>
                    BY <2>1, <5>3, Places, HoldsAfter DEF Stamped
                <5>4. QED BY <4>3, <5>1, <5>2, <5>3, PlaceKinds
            <4> HIDE DEF p
            <4>4. CopyInv' /\ x \notin Holds(p)
                BY <1>1, <2>1, <2>6, <3>2, <4>1, <4>2, <4>3, SentStamped
            <4>5. x \notin ToSet(channel[c])
                BY <3>2, <4>1, <4>4 DEF Stamped
            <4>6. QED BY <1>1, <2>3, <4>4, <4>5 DEF RestInv, OnceInv
        <3>3. QED BY <3>1, <3>2
    <2>10. OnceInv'
        BY <2>1, <2>4, <2>9 DEF RestInv, OnceInv
    <2>11. QED BY <2>5, <2>6, <2>7, <2>8, <2>9, <2>10 DEF RestInv
<1>4. QED BY <1>2, <1>3

\* Raw bytes go into the table, the other copies into the queue.
LEMMA KeepRest ==
    ASSUME ClientInv, RestInv, NEW t \in Goroutine, Keep(t)
    PROVE  RestInv'
<1>0. PICK x : x = task[t].item
    OBVIOUS
<1>1. /\ task[t].at = "keep" /\ Busy(t) /\ x \in Copies /\ x = task[t].item
      /\ task' = NextTasks(t)
      /\ UNCHANGED <<channel, up, handler, posted, delivered, lost>>
    BY <1>0, TaskShape DEF Keep, RestInv
<1>2. /\ task' \in [Goroutine -> Tasks] /\ AnswerInv'
      /\ \A r \in Goroutine : task'[r].at = "push" => task'[r] = task[r] /\ task[r].at = "push"
    BY <1>1, NextShapes DEF RestInv
<1>3. ChannelInv'
    <2>1. \A d \in Conn : Len(channel'[d]) <= Cap /\ (handler'[d] = "new" => channel'[d] = <<>>)
        BY <1>1 DEF RestInv, ChannelInv
    <2>2. QED BY <1>1, <1>2, <2>1, ChannelsStay DEF RestInv, Started
<1>4. CASE x.form = "raw"
    <2>1. stored' \in {stored, Append(stored, x)} /\ queue' = queue
        BY <1>1, <1>4 DEF Keep
    <2>2. stored' \in Seq(Rows)
        <3>1. x \in Rows
            BY <1>1, <1>4 DEF Copies, Rows
        <3>2. stored \in Seq(Rows)
            BY DEF RestInv, CopyShapes
        <3>3. Append(stored, x) \in Seq(Rows)
            BY <3>1, <3>2, AppendProperties
        <3>4. QED BY <2>1, <3>2, <3>3
    <2>3. CopyShapes' /\ RightInv' /\ OnceInv'
        BY <1>1, <1>2, <2>1, <2>2 DEF RestInv, CopyShapes, RightInv, RightRecipient, OnceInv
    <2>4. CopyInv'
        BY <1>1, <1>4, <2>1, SentRaw DEF Stamped
    <2>5. QED BY <1>2, <1>3, <2>3, <2>4 DEF RestInv
<1>5. CASE x.form # "raw"
    <2>0. PICK u : u = Recipient(x)
        OBVIOUS
    <2> DEFINE s == Append(queue[u], x)
               p == <<"queue", u>>
    <2>1. u \in User /\ queue[u] \in Seq(Copies)
        BY <1>1, <2>0, HubAssumption DEF Recipient, Copies, RestInv, CopyShapes
    <2>2. queue' = [queue EXCEPT ![u] = s] /\ stored' = stored
        BY <1>1, <1>5, <2>0, <2>1 DEF Keep, Queued, RestInv, CopyShapes
    <2>3. /\ s \in Seq(Copies) /\ ToSet(s) = ToSet(queue[u]) \cup {x}
          /\ Once(queue[u]) /\ (x.form = "raw" \/ x \notin ToSet(queue[u])) => Once(s)
        BY <1>1, <2>1, AppendCopy
    <2> HIDE DEF s
    <2>4. queue'[u] = s /\ \A v \in User \ {u} : queue'[v] = queue[v]
        BY <2>1, <2>2 DEF RestInv, CopyShapes
    <2>5. CopyShapes'
        BY <1>1, <1>2, <2>2, <2>3 DEF RestInv, CopyShapes
    <2>6. RightInv'
        BY <1>1, <2>0, <2>3, <2>4 DEF RestInv, RightInv, RightRecipient
    <2>7. /\ p \in Place /\ Holds(p) = Stamped(queue[u])
          /\ \A r \in Goroutine : p # <<"task", r>>
        BY <2>1, Places
    <2>8. Holds(p)' = Holds(p) \cup {x}
        <3>1. Stamped(queue[u])' = Stamped(queue[u]) \cup {x}
            BY <1>5, <2>3, <2>4 DEF Stamped
        <3>2. QED BY <2>1, <2>7, <3>1, HoldsAfter
    <2>9. ASSUME NEW q \in Place, q # p, \A r \in Goroutine : q # <<"task", r>>
          PROVE  Holds(q)' = Holds(q)
        <3>1. CASE \E v \in User : q = <<"queue", v>>
            BY <2>4, <2>9, <3>1, Places, HoldsAfter DEF Stamped
        <3>2. CASE \E d \in Conn : q = <<"channel", d>>
            BY <1>1, <3>2, Places, HoldsAfter DEF Stamped
        <3>3. CASE \E d \in Conn : q = <<"delivered", d>>
            BY <1>1, <3>3, Places, HoldsAfter DEF Stamped
        <3>4. QED BY <2>9, <3>1, <3>2, <3>3, PlaceKinds
    <2> HIDE DEF p
    <2>10. CopyInv' /\ x \notin Holds(p)
        BY <1>1, <1>5, <2>7, <2>8, <2>9, SentStamped
    <2>11. OnceInv'
        <3>1. x \notin ToSet(queue[u])
            BY <1>5, <2>7, <2>10 DEF Stamped
        <3>2. Once(s)
            BY <2>1, <2>3, <3>1 DEF RestInv, OnceInv
        <3>3. QED BY <1>1, <2>4, <3>2 DEF RestInv, OnceInv
    <2>12. QED BY <1>2, <1>3, <2>5, <2>6, <2>10, <2>11 DEF RestInv
<1>6. QED BY <1>4, <1>5

\* The head of the channel goes to the socket, or is lost.
LEMMA WriteRest ==
    ASSUME ClientInv, RestInv, NEW c \in Conn, Write(c)
    PROVE  RestInv'
<1>0. PICK s, x : s = channel[c] /\ x = Head(channel[c])
    OBVIOUS
<1>1. /\ s = channel[c] /\ x = Head(s) /\ s # <<>> /\ s \in Seq(Copies)
      /\ channel' = [channel EXCEPT ![c] = Tail(s)]
      /\ UNCHANGED <<queue, stored, up, handler, task, posted>>
    BY <1>0 DEF Write, RestInv, CopyShapes
<1>2. \/ delivered' = [delivered EXCEPT ![c] = Append(delivered[c], x)] /\ lost' = lost
      \/ delivered' = delivered /\ lost' = lost \cup Dropped(ToSet(s))
    BY <1>0 DEF Write, RestInv, CopyShapes
<1>3. /\ x \in ToSet(s) /\ Tail(s) \in Seq(Copies) /\ Len(Tail(s)) <= Len(s)
      /\ ToSet(s) = ToSet(Tail(s)) \cup {x}
      /\ Once(s) => Once(Tail(s)) /\ (x \in ToSet(Tail(s)) => x.form = "raw")
    BY <1>1, TailCopy
<1>4. x \in Copies /\ Recipient(x) = OwnerOf[c]
    <2>1. x \in Copies
        BY <1>1, <1>3, ElementOfSeq, LenProperties DEF ToSet
    <2>2. QED BY <1>1, <1>3, <2>1 DEF RestInv, RightInv
<1>5. channel'[c] = Tail(s) /\ \A d \in Conn \ {c} : channel'[d] = channel[d]
    BY <1>1 DEF RestInv, CopyShapes
<1> DEFINE r == Append(delivered[c], x)
<1>6. /\ delivered[c] \in Seq(Copies)
      /\ r \in Seq(Copies) /\ ToSet(r) = ToSet(delivered[c]) \cup {x}
      /\ Once(delivered[c]) /\ (x.form = "raw" \/ x \notin ToSet(delivered[c])) => Once(r)
    <2>1. delivered[c] \in Seq(Copies)
        BY DEF RestInv, CopyShapes
    <2>2. QED BY <1>4, <2>1, AppendCopy
<1> HIDE DEF r
<1>7. \/ /\ delivered' = [delivered EXCEPT ![c] = r] /\ delivered'[c] = r /\ lost' = lost
         /\ \A d \in Conn \ {c} : delivered'[d] = delivered[d]
      \/ delivered' = delivered /\ lost' = lost \cup Dropped(ToSet(s))
    BY <1>2 DEF r, RestInv, CopyShapes
<1>8. CopyShapes'
    <2>1. channel' \in [Conn -> Seq(Copies)]
        BY <1>1, <1>3 DEF RestInv, CopyShapes
    <2>2. delivered' \in [Conn -> Seq(Copies)] /\ lost' \subseteq Copies
        <3>1. delivered \in [Conn -> Seq(Copies)] /\ lost \subseteq Copies
            BY DEF RestInv, CopyShapes
        <3>2. Dropped(ToSet(s)) \subseteq Copies
            BY <1>1, ElementOfSeq, LenProperties DEF Dropped, ToSet
        <3>3. [delivered EXCEPT ![c] = r] \in [Conn -> Seq(Copies)]
            BY <1>6, <3>1
        <3>4. QED BY <1>7, <3>1, <3>2, <3>3
    <2>3. QED BY <1>1, <2>1, <2>2 DEF RestInv, CopyShapes
<1>9. ChannelInv'
    <2>1. handler[c] # "new" /\ Len(Tail(s)) <= Cap
        <3>1. Len(s) \in Nat /\ Len(Tail(s)) \in Nat /\ Cap \in Nat
            BY <1>1, <1>3, LenProperties, HubAssumption
        <3>2. QED BY <1>1, <1>3, <3>1 DEF RestInv, ChannelInv
    <2>2. \A d \in Conn : Len(channel'[d]) <= Cap /\ (handler'[d] = "new" => channel'[d] = <<>>)
        BY <1>1, <1>5, <2>1 DEF RestInv, ChannelInv
    <2>3. QED BY <1>1, <2>2, ChannelsStay DEF RestInv, Started
<1>10. AnswerInv'
    BY <1>1 DEF RestInv, AnswerInv, Busy
<1>11. RightInv'
    <2>1. \A y \in ToSet(Tail(s)) : Recipient(y) = OwnerOf[c]
        BY <1>1, <1>3 DEF RestInv, RightInv
    <2>2. \A d \in Conn : \A y \in ToSet(channel'[d]) : Recipient(y) = OwnerOf[d]
        BY <1>5, <2>1 DEF RestInv, RightInv
    <2>3. RightRecipient'
        BY <1>4, <1>6, <1>7 DEF RestInv, RightInv, RightRecipient
    <2>4. QED BY <1>1, <2>2, <2>3 DEF RestInv, RightInv
<1>12. Once(s)
    BY <1>1 DEF RestInv, OnceInv
<1> DEFINE M == {y \in {x} : y.form # "raw"}
           from == <<"channel", c>>
           to == <<"delivered", c>>
<1>13. /\ from \in Place /\ to \in Place /\ from # to
       /\ Holds(from) = Stamped(s) /\ Holds(to) = Stamped(delivered[c])
       /\ Holds(from)' = Stamped(Tail(s)) /\ Holds(to)' = Stamped(delivered'[c])
    <2>1. Stamped(channel[c])' = Stamped(Tail(s)) /\ Stamped(delivered[c])' = Stamped(delivered'[c])
        BY <1>5 DEF Stamped
    <2>2. QED BY <1>1, <2>1, Places, HoldsAfter
<1>14. ASSUME NEW q \in Place, q # from, q # to PROVE Holds(q)' = Holds(q)
    <2>1. CASE \E t \in Goroutine : q = <<"task", t>>
        BY <1>1, <2>1, Places, HoldsAfter, SameTasks
    <2>2. CASE \E u \in User : q = <<"queue", u>>
        BY <1>1, <2>2, Places, HoldsAfter DEF Stamped
    <2>3. CASE \E d \in Conn : q = <<"channel", d>>
        BY <1>5, <1>14, <2>3, Places, HoldsAfter DEF Stamped
    <2>4. CASE \E d \in Conn : q = <<"delivered", d>>
        BY <1>7, <1>14, <2>4, Places, HoldsAfter DEF Stamped
    <2>5. QED BY <2>1, <2>2, <2>3, <2>4, PlaceKinds
<1> HIDE DEF from, to
<1>15. Stamped(s) = Stamped(Tail(s)) \cup M /\ M \cap Stamped(Tail(s)) = {}
    BY <1>3, <1>12 DEF Stamped
<1>16. Stamped(r) = Stamped(delivered[c]) \cup M
    BY <1>6 DEF Stamped
<1>17. M \cap Stamped(delivered[c]) = {}
    BY <1>13, <1>15 DEF RestInv, CopyInv, OnePlace
<1>18. \A q \in Place \ {from} : M \cap Holds(q) = {}
    BY <1>13, <1>15 DEF RestInv, CopyInv, OnePlace
<1>19. CopyInv'
    <2>1. Holds(from)' \subseteq Holds(from) \ M
        BY <1>13, <1>15
    <2>2. \A q \in Place \ {to} : Holds(q)' \subseteq Holds(q) \ M
        BY <1>14, <1>18, <2>1
    <2>3. Holds(to)' \subseteq Holds(to) \cup M
        BY <1>7, <1>13, <1>16
    <2>4. \A y \in M : \E q \in Place : y \in Holds(q)
        BY <1>13, <1>15
    <2>5. \A y \in M : y \in Holds(to)' \/ y \in lost'
        BY <1>3, <1>7, <1>13, <1>16 DEF Dropped
    <2>6. \A y \in Holds(to) : y \in Holds(to)'
        BY <1>7, <1>13, <1>16
    <2>7. \A q \in Place : \A y \in Holds(q) : y \in lost' \/ \E p \in Place : y \in Holds(p)'
        BY <1>13, <1>14, <1>15, <2>5, <2>6
    <2>8. lost \subseteq lost' /\ \A t \in Goroutine : RawIn(t)' = RawIn(t)
        BY <1>1, <1>7, SameTasks
    <2>9. CopyInv /\ posted' = posted
        BY <1>1 DEF RestInv
    <2> HIDE DEF M
    <2>10. QED BY <1>13, <2>2, <2>3, <2>4, <2>7, <2>8, <2>9, MoveCopies
<1>20. OnceInv'
    <2>1. Once(r)
        BY <1>6, <1>17 DEF RestInv, OnceInv, Stamped
    <2>2. QED BY <1>1, <1>3, <1>5, <1>7, <1>12, <2>1 DEF RestInv, OnceInv
<1>21. QED BY <1>8, <1>9, <1>10, <1>11, <1>19, <1>20 DEF RestInv

\* Steps that add to no channel, and end no writer with something in its channel.
LEMMA DeadStays ==
    ASSUME DeadInv, lost \subseteq lost', channel' = channel,
           \A c \in Conn \ writer' : c \in writer => channel[c] = <<>>
    PROVE  DeadInv'
<1> SUFFICES ASSUME NEW c \in Conn \ writer' PROVE Stamped(channel'[c]) \subseteq lost'
    BY DEF DeadInv, Stamped
<1>1. CASE c \in writer
    BY <1>1, EmptyCopies
<1>2. CASE c \notin writer
    BY <1>2 DEF DeadInv
<1>3. QED BY <1>1, <1>2

\* Every step that leaves stamped copies where no writer reads them drops them.
LEMMA StepDead ==
    ASSUME ClientInv, RestInv, DeadInv, [Next]_hvars
    PROVE  DeadInv'
<1>1. ASSUME NEW c \in Conn, Connect(c) PROVE DeadInv'
    <2>1. PICK rows \in Ordered(RowsFor(OwnerOf[c])) \cup {<<>>} :
              channel' = [channel EXCEPT ![c] = Fitting(rows, Cap)]
        BY <1>1 DEF Connect
    <2>2. \A x \in ToSet(Fitting(rows, Cap)) : x.form = "raw"
        <3>1. stored \in Seq(Rows) /\ RowsFor(OwnerOf[c]) \in SUBSET DOMAIN stored
            BY DEF RestInv, CopyShapes, RowsFor
        <3>2. rows \in Seq(Copies) /\ \A x \in ToSet(rows) : x.form = "raw"
            <4>1. CASE rows \in Ordered(RowsFor(OwnerOf[c]))
                <5>1. rows \in Seq(Rows)
                    BY <3>1, <4>1, OrderedRows
                <5>2. \A x \in ToSet(rows) : x \in Rows
                    BY <5>1, ElementOfSeq, LenProperties DEF ToSet
                <5>3. QED BY <5>1, <5>2, RawRows DEF Rows
            <4>2. CASE rows = <<>>
                BY <4>2, EmptySeq, EmptyCopies
            <4>3. QED BY <4>1, <4>2
        <3>3. QED BY <3>2, FlushCopy, HubAssumption
    <2>3. /\ Stamped(channel'[c]) = {} /\ lost' = lost /\ writer' = writer
          /\ \A d \in Conn \ {c} : channel'[d] = channel[d]
        BY <1>1, <2>1, <2>2 DEF Connect, RestInv, CopyShapes, Stamped
    <2>4. \A d \in Conn \ writer' : Stamped(channel'[d]) \subseteq lost'
        BY <2>3 DEF DeadInv
    <2>5. QED BY <2>4 DEF DeadInv, Stamped
<1>2. ASSUME NEW c \in Conn, Register(c) PROVE DeadInv'
    <2>1. /\ writer' = writer \cup {c} /\ lost \subseteq lost'
          /\ \A d \in Conn \ {c} : channel'[d] = channel[d]
        BY <1>2 DEF Register, RestInv, CopyShapes
    <2>2. \A d \in Conn \ writer' : Stamped(channel'[d]) \subseteq lost'
        BY <2>1 DEF DeadInv
    <2>3. QED BY <2>2 DEF DeadInv, Stamped
<1>3. ASSUME NEW t \in Goroutine, Push(t) PROVE DeadInv'
    <2>0. PICK x, c : x = task[t].item /\ c = task[t].conn
        OBVIOUS
    <2>1. c \in Conn /\ x \in Copies
        BY <1>3, <2>0, TaskShape DEF Push, RestInv
    <2>2. CASE c \notin closed /\ HasRoom(c)
        <3>1. /\ channel' = [channel EXCEPT ![c] = Append(channel[c], x)] /\ writer' = writer
              /\ lost' = IF c \in writer THEN lost ELSE lost \cup Dropped({x})
            BY <1>3, <2>0, <2>2 DEF Push, RestInv, CopyShapes
        <3>2. /\ channel'[c] = Append(channel[c], x) /\ channel[c] \in Seq(Copies)
              /\ \A d \in Conn \ {c} : channel'[d] = channel[d]
            BY <2>1, <3>1 DEF RestInv, CopyShapes
        <3>3. ToSet(channel'[c]) = ToSet(channel[c]) \cup {x}
            BY <2>1, <3>2, AppendCopy
        <3>4. \A d \in Conn \ writer' : Stamped(channel'[d]) \subseteq lost'
            BY <3>1, <3>2, <3>3 DEF DeadInv, Stamped, Dropped
        <3>5. QED BY <3>4 DEF DeadInv, Stamped
    <2>3. CASE ~(c \notin closed /\ HasRoom(c))
        <3>1. UNCHANGED <<channel, lost, writer>>
            BY <1>3, <2>0, <2>3 DEF Push
        <3>2. QED BY <3>1, DeadStays
    <2>4. QED BY <2>2, <2>3
<1>4. ASSUME NEW t \in Goroutine, PushPanics(t) PROVE DeadInv'
    BY <1>4, EmptyCopies DEF PushPanics, DeadInv, Stamped
<1>5. ASSUME NEW c \in Conn, Write(c) PROVE DeadInv'
    <2>0. PICK s : s = channel[c]
        OBVIOUS
    <2>1. /\ s \in Seq(Copies) /\ s # <<>> /\ channel'[c] = Tail(s)
          /\ \A d \in Conn \ {c} : channel'[d] = channel[d]
        BY <1>5, <2>0 DEF Write, RestInv, CopyShapes
    <2>2. ToSet(Tail(s)) \subseteq ToSet(s)
        BY <2>1, TailCopy
    <2>3. \/ writer' = writer /\ lost' = lost
          \/ writer' = writer \ {c} /\ lost' = lost \cup Dropped(ToSet(s))
        BY <1>5, <2>0 DEF Write
    <2>4. c \in writer
        BY <1>5 DEF Write
    <2>5. \A d \in Conn \ writer' : Stamped(channel'[d]) \subseteq lost'
        <3>1. CASE writer' = writer /\ lost' = lost
            BY <2>1, <2>4, <3>1 DEF DeadInv
        <3>2. CASE writer' = writer \ {c} /\ lost' = lost \cup Dropped(ToSet(s))
            <4>1. Stamped(channel'[c]) \subseteq Dropped(ToSet(s))
                BY <2>1, <2>2 DEF Stamped, Dropped
            <4>2. QED BY <2>1, <3>2, <4>1 DEF DeadInv
        <3>3. QED BY <2>3, <3>1, <3>2
    <2>6. QED BY <2>5 DEF DeadInv, Stamped
<1>6. ASSUME NEW c \in Conn, DeleteRows(c) \/ WriterEnds(c) \/ Drop(c) \/ ReaderEnds(c)
      PROVE  DeadInv'
    BY <1>6, DeadStays DEF DeleteRows, WriterEnds, Drop, ReaderEnds
<1>7. ASSUME NEW c \in Conn, NEW m \in Msg, Read(c, m) PROVE DeadInv'
    BY <1>7, DeadStays DEF Read
<1>8. ASSUME NEW t \in Goroutine, Lookup(t) \/ Keep(t) PROVE DeadInv'
    BY <1>8, DeadStays DEF Lookup, Keep
<1>9. CASE UNCHANGED hvars
    BY <1>9, DeadStays DEF hvars
<1>10. QED
    BY <1>1, <1>2, <1>3, <1>4, <1>5, <1>6, <1>7, <1>8, <1>9 DEF Next, Goroutine

\* Every step keeps the copies where the invariant has them.
LEMMA StepRelay == RelayInv /\ [Next]_hvars => RelayInv'
<1> SUFFICES ASSUME ClientInv, RestInv, DeadInv, [Next]_hvars PROVE RestInv' /\ ClientInv' /\ DeadInv'
    BY DEF RelayInv
<1>1. ASSUME NEW c \in Conn, Connect(c) PROVE RestInv'
    BY <1>1, ConnectRest
<1>2. ASSUME NEW c \in Conn, DeleteRows(c) PROVE RestInv'
    BY <1>2, DeleteRest
<1>3. ASSUME NEW c \in Conn, Register(c) PROVE RestInv'
    BY <1>3, RegisterRest
<1>4. ASSUME NEW c \in Conn, Write(c) PROVE RestInv'
    BY <1>4, WriteRest
<1>5. ASSUME NEW c \in Conn, WriterEnds(c) \/ Drop(c) \/ ReaderEnds(c) PROVE RestInv'
    BY <1>5, EndsRest
<1>6. ASSUME NEW c \in Conn, NEW m \in Msg, Read(c, m) PROVE RestInv'
    BY <1>6, ReadRest
<1>7. ASSUME NEW t \in Goroutine, Lookup(t) PROVE RestInv'
    BY <1>7, LookupRest
<1>8. ASSUME NEW t \in Goroutine, Push(t) PROVE RestInv'
    BY <1>8, PushRest
<1>9. ASSUME NEW t \in Goroutine, PushPanics(t) PROVE RestInv'
    BY <1>9, PanicRest
<1>10. ASSUME NEW t \in Goroutine, Keep(t) PROVE RestInv'
    BY <1>10, KeepRest
<1>11. ASSUME UNCHANGED hvars PROVE RestInv'
    <2>1. Untouched /\ task' = task /\ up' \subseteq Conn /\ handler' = handler
        BY <1>11 DEF hvars, Untouched, RestInv, CopyShapes
    <2>2. \A d \in Conn : (Started(d) => Started(d)') /\ (handler'[d] = "new" => handler[d] = "new")
        BY <2>1 DEF Started
    <2>3. QED BY <2>1, <2>2, StillRest
<1>12. RestInv'
    BY <1>1, <1>2, <1>3, <1>4, <1>5, <1>6, <1>7, <1>8, <1>9, <1>10, <1>11 DEF Next, Goroutine
<1>13. QED BY <1>12, StepClient, StepDead

\* Where the copies of a message are: the invariant from which what the relay
\* delivers follows.
THEOREM RelayInvariance == Spec => []RelayInv
BY InitRelay, StepRelay, PTL DEF Spec

\* Shapes of the relay's variables: whatever is flushed and pushed, no channel
\* holds more than its capacity.
THEOREM RelayTypeCorrect == Spec => []TypeOK
<1>1. RelayInv => TypeOK
    <2> SUFFICES ASSUME RelayInv PROVE TypeOK
        OBVIOUS
    <2>1. \A s \in Seq(Copies) : ToSet(s) \subseteq Copies
        BY ElementOfSeq, LenProperties DEF ToSet
    <2>2. ToSet(stored) \subseteq Rows
        BY ElementOfSeq, LenProperties DEF ToSet, RelayInv, RestInv, CopyShapes
    <2>3. \A t \in DOMAIN task : task[t].at \in {"idle", "lookup", "push", "keep"}
        <3>1. ASSUME NEW y \in Tasks PROVE y.at \in {"idle", "lookup", "push", "keep"}
            BY <3>1 DEF Tasks, Idle
        <3>2. QED BY <3>1 DEF RelayInv, RestInv, CopyShapes
    <2>4. (\A u \in User : ToSet(queue[u]) \subseteq Copies) /\ \A c \in Conn : ToSet(channel[c]) \subseteq Copies
        BY <2>1 DEF RelayInv, RestInv, CopyShapes
    <2>5. replaced \subseteq Conn
        BY DEF RelayInv, ClientInv, WriterInv
    <2>6. QED
        BY <2>2, <2>3, <2>4, <2>5
           DEF RelayInv, RestInv, ClientInv, Shapes, StartedInv, CopyShapes, ChannelInv, TypeOK, Rows
<1>2. QED BY <1>1, RelayInvariance, PTL

\* Neither a stale lookup nor a flush writes to the socket of another user.
THEOREM RightRecipientHolds == Spec => []RightRecipient
<1>1. RelayInv => RightRecipient
    BY DEF RelayInv, RestInv, RightInv
<1>2. QED BY <1>1, RelayInvariance, PTL

\* The copy owed for what a reader has read, a re-stamped one or the answer to a
\* payment, is delivered to its recipient or on its way there, unless that copy
\* was dropped: spilled by a flush, in the channel of a writer that ended, or gone
\* with the process.
THEOREM ConservedHolds == Spec => []Conserved
<1>1. RelayInv => Conserved
    BY Whereabouts DEF RelayInv, Conserved, Stamped
<1>2. QED BY <1>1, RelayInvariance, PTL

\* A stamped copy or an answer reaches a user once, over all connections.
THEOREM OneStampedCopyHolds == Spec => []OneStampedCopy
<1>1. RelayInv => OneStampedCopy
    <2> SUFFICES ASSUME RelayInv, NEW c \in Conn, NEW d \in Conn,
                        NEW i \in DOMAIN delivered[c], NEW j \in DOMAIN delivered[d],
                        delivered[c][i] = delivered[d][j], delivered[c][i].form # "raw"
                 PROVE  c = d /\ i = j
        BY DEF OneStampedCopy
    <2>1. delivered[c][i] \in Holds(<<"delivered", c>>) \cap Holds(<<"delivered", d>>)
        BY Places DEF Stamped, ToSet
    <2>2. <<"delivered", c>> = <<"delivered", d>>
        BY <2>1, Places DEF RelayInv, RestInv, CopyInv, OnePlace
    <2>3. c = d
        BY <2>2
    <2>4. QED BY <2>3 DEF RelayInv, RestInv, OnceInv, Once
<1>2. QED BY <1>1, RelayInvariance, PTL
============================================================================
