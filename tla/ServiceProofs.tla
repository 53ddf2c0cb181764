----------------------------- MODULE ServiceProofs -----------------------------
(***************************************************************************)
(* Proofs about a connection of the Jeux server, for any requests, however *)
(* many there are and however the network cuts them up.                    *)
(***************************************************************************)
EXTENDS ServiceProperties, TLAPS, SequenceTheorems

Kinds == {"type", "size", "time", "text", "end"}

\* The last unit of a packet.
IsLast(m, u) == u.k = "end" \/ (u.k = "time" /\ m[u.of].size = 0)

\* What comes after a unit.
Follows(m, u, v) ==
  /\ u.k = "type" => v = Unit("size", u.of)
  /\ u.k = "size" => v = Unit("time", u.of)
  /\ (u.k = "time" /\ m[u.of].size # 0) => v = Unit("text", u.of)
  /\ u.k = "text" => v = Unit("end", u.of)
  /\ IsLast(m, u) => v = Unit("type", u.of + 1)

\* The units of the packets of m in their order, or of a part of them.
Framed(m, s) ==
  /\ s \in Seq([k : Kinds, of : 1..Len(m)])
  /\ s # <<>> => s[1] = Unit("type", 1)
  /\ \A i \in 1..Len(s) - 1 : Follows(m, s[i], s[i + 1])
Complete(m, s) ==
  IF s = <<>> THEN m = <<>> ELSE IsLast(m, s[Len(s)]) /\ s[Len(s)].of = Len(m)

-------------------------------------------------------------------------------
(***************************************************************************)
(* Sequences of units.                                                     *)
(***************************************************************************)

\* The units of a packet.
LEMMA PacketUnits ==
  ASSUME NEW r \in Requests, NEW n \in Nat \ {0}
  PROVE  /\ Packet(r, n) \in Seq([k : Kinds, of : 1..n])
         /\ Packet(r, n)[1] = Unit("type", n)
         /\ Packet(r, n)[2] = Unit("size", n)
         /\ Packet(r, n)[3] = Unit("time", n)
         /\ IF r.size = 0 THEN Len(Packet(r, n)) = 3
            ELSE /\ Len(Packet(r, n)) = 5
                 /\ Packet(r, n)[4] = Unit("text", n)
                 /\ Packet(r, n)[5] = Unit("end", n)
<1> DEFINE U == [k : Kinds, of : 1..n]
<1>1. \A kind \in Kinds : Unit(kind, n) \in U
  BY DEF Unit
<1> DEFINE h == <<Unit("type", n), Unit("size", n), Unit("time", n)>>
           p == <<Unit("text", n), Unit("end", n)>>
<1>2. /\ Unit("type", n) \in U /\ Unit("size", n) \in U /\ Unit("time", n) \in U
      /\ Unit("text", n) \in U /\ Unit("end", n) \in U
  BY <1>1 DEF Kinds
<1> HIDE DEF U
<1>3. h \in Seq(U) /\ Len(h) = 3 /\ p \in Seq(U) /\ Len(p) = 2
  BY <1>2
<1>4. /\ h[1] = Unit("type", n) /\ h[2] = Unit("size", n) /\ h[3] = Unit("time", n)
      /\ p[1] = Unit("text", n) /\ p[2] = Unit("end", n)
  OBVIOUS
<1>5. CASE r.size = 0
  <2>1. Packet(r, n) = h \o <<>>
    BY <1>5 DEF Packet
  <2>2. Packet(r, n) = h
    BY <2>1, <1>3, ConcatEmptySeq
  <2> QED
    BY <2>2, <1>3, <1>4, <1>5 DEF U
<1>6. CASE r.size # 0
  <2>1. Packet(r, n) = h \o p
    BY <1>6 DEF Packet
  <2> HIDE DEF h, p
  <2>2. /\ h \o p \in Seq(U) /\ Len(h \o p) = Len(h) + Len(p)
        /\ \A i \in 1..Len(h) + Len(p) :
             (h \o p)[i] = IF i <= Len(h) THEN h[i] ELSE p[i - Len(h)]
    BY <1>3, ConcatProperties
  <2>3. /\ (h \o p)[1] = h[1] /\ (h \o p)[2] = h[2] /\ (h \o p)[3] = h[3]
        /\ (h \o p)[4] = p[1] /\ (h \o p)[5] = p[2]
        /\ Len(h \o p) = 5
    BY <1>3, <2>2
  <2> QED
    BY <2>1, <2>2, <2>3, <1>4, <1>6 DEF U
<1> QED
  BY <1>5, <1>6

\* A request that is made leaves the stream in order.
LEMMA MakeKeepsFrames ==
  ASSUME NEW m \in Seq(Requests), NEW r \in Requests, NEW s,
         Framed(m, s), Complete(m, s)
  PROVE  /\ Framed(Append(m, r), s \o Packet(r, Len(m) + 1))
         /\ Complete(Append(m, r), s \o Packet(r, Len(m) + 1))
<1>a. PICK n : n = Len(m) + 1
  OBVIOUS
<1>b. PICK q : q = Packet(r, n)
  OBVIOUS
<1>c. PICK t : t = s \o q
  OBVIOUS
<1>d. PICK a : a = Append(m, r)
  OBVIOUS
<1> DEFINE U == [k : Kinds, of : 1..n]
<1>1. /\ a \in Seq(Requests) /\ Len(a) = n /\ n \in Nat \ {0} /\ a[n] = r
      /\ \A i \in 1..Len(m) : a[i] = m[i]
  BY <1>a, <1>d, AppendProperties
<1>2. s \in Seq(U) /\ Len(s) \in Nat
  <2> DEFINE V == [k : Kinds, of : 1..Len(m)]
  <2>1. s \in Seq(V)
    BY DEF Framed
  <2>2. 1..Len(m) \subseteq 1..n
    BY <1>a
  <2>3. V \subseteq U
    BY <2>2
  <2> HIDE DEF V, U
  <2>4. Seq(V) \subseteq Seq(U)
    BY <2>3, SeqMonotonic
  <2> QED
    BY <2>1, <2>4
<1>3. /\ q \in Seq(U)
      /\ q[1] = Unit("type", n) /\ q[2] = Unit("size", n) /\ q[3] = Unit("time", n)
      /\ IF r.size = 0 THEN Len(q) = 3
         ELSE Len(q) = 5 /\ q[4] = Unit("text", n) /\ q[5] = Unit("end", n)
  BY <1>1, <1>b, PacketUnits
<1>4. /\ t \in Seq(U) /\ Len(t) = Len(s) + Len(q)
      /\ \A i \in 1..Len(t) : t[i] = IF i <= Len(s) THEN s[i] ELSE q[i - Len(s)]
  BY <1>2, <1>3, <1>c, ConcatProperties
<1>5. \A i \in 1..Len(s) : s[i].of \in 1..Len(m)
  <2> DEFINE V == [k : Kinds, of : 1..Len(m)]
  <2>1. s \in Seq(V) /\ \A v \in V : v.of \in 1..Len(m)
    BY DEF Framed
  <2> HIDE DEF V
  <2>2. \A i \in 1..Len(s) : s[i] \in V
    BY <2>1
  <2> QED
    BY <2>1, <2>2
<1> HIDE DEF U
<1>6. Len(q) \in {3, 5} /\ Len(q) \in Nat
  BY <1>3
<1>7. \A i \in 1..Len(q) : t[Len(s) + i] = q[i]
  <2> PICK k, l : k = Len(s) /\ l = Len(q)
    OBVIOUS
  <2>1. k \in Nat /\ l \in Nat /\ Len(t) = k + l
    BY <1>2, <1>4, <1>6
  <2> SUFFICES ASSUME NEW i \in 1..l
               PROVE  t[k + i] = q[i]
    OBVIOUS
  <2>2. k + i \in 1..k + l /\ ~(k + i <= k) /\ k + i - k = i
    BY <2>1
  <2> QED
    BY <2>1, <2>2, <1>4
<1>8. t # <<>> /\ t[1] = Unit("type", 1)
  <2>1. CASE s = <<>>
    BY <2>1, <1>a, <1>3, <1>4, <1>6, <1>7 DEF Complete
  <2>2. CASE s # <<>>
    BY <2>2, <1>2, <1>4, <1>6 DEF Framed
  <2> QED
    BY <2>1, <2>2
<1>9. \A i \in 1..Len(t) - 1 : Follows(a, t[i], t[i + 1])
  <2> SUFFICES ASSUME NEW i \in 1..Len(t) - 1
               PROVE  Follows(a, t[i], t[i + 1])
    OBVIOUS
  <2>1. CASE i < Len(s)
    <3>1. t[i] = s[i] /\ t[i + 1] = s[i + 1] /\ i \in 1..Len(s) - 1
      BY <2>1, <1>2, <1>4, <1>6
    <3>2. Follows(m, s[i], s[i + 1])
      BY <3>1 DEF Framed
    <3>3. a[s[i].of] = m[s[i].of]
      BY <1>1, <1>5, <3>1
    <3> QED
      BY <3>1, <3>2, <3>3 DEF Follows, IsLast
  <2>2. CASE i = Len(s)
    <3>1. t[i] = s[Len(s)] /\ t[i + 1] = q[1] /\ s # <<>>
      BY <2>2, <1>2, <1>4, <1>6, <1>7
    <3>2. IsLast(m, s[Len(s)]) /\ s[Len(s)].of + 1 = n
      BY <3>1, <1>a DEF Complete
    <3>3. a[s[Len(s)].of] = m[s[Len(s)].of]
      BY <1>1, <1>2, <1>5, <2>2
    <3> QED
      BY <3>1, <3>2, <3>3, <1>3 DEF Follows, IsLast, Unit
  <2>3. CASE i > Len(s)
    <3> DEFINE j == i - Len(s)
    <3>1. j \in 1..Len(q) - 1 /\ t[i] = q[j] /\ t[i + 1] = q[j + 1]
      BY <2>3, <1>2, <1>4, <1>6
    <3> HIDE DEF j
    <3> PICK l : l = Len(q)
      OBVIOUS
    <3>2. j \in 1..l - 1
      BY <3>1
    <3>3. CASE r.size = 0
      <4>1. Follows(a, q[1], q[2]) /\ Follows(a, q[2], q[3])
        BY <1>3 DEF Follows, IsLast, Unit
      <4>2. l = 3
        BY <1>3, <3>3
      <4>3. j = 1 \/ j = 2
        BY <3>2, <4>2
      <4> QED
        BY <3>1, <4>1, <4>3
    <3>4. CASE r.size # 0
      <4>1. a[q[3].of].size # 0
        BY <1>1, <1>3, <3>4 DEF Unit
      <4>2. Follows(a, q[1], q[2]) /\ Follows(a, q[2], q[3])
        BY <1>3 DEF Follows, IsLast, Unit
      <4>3. Follows(a, q[3], q[4]) /\ Follows(a, q[4], q[5])
        BY <1>3, <3>4, <4>1 DEF Follows, IsLast, Unit
      <4>4. l = 5
        BY <1>3, <3>4
      <4>5. j = 1 \/ j = 2 \/ j = 3 \/ j = 4
        BY <3>2, <4>4
      <4> QED
        BY <3>1, <4>2, <4>3, <4>5
    <3> QED
      BY <3>3, <3>4
  <2> QED
    BY <2>1, <2>2, <2>3, <1>2
<1>10. Complete(a, t)
  <2>1. t[Len(t)] = q[Len(q)]
    <3>1. Len(q) \in 1..Len(q)
      <4>1. \A l \in {3, 5} : l \in 1..l
        OBVIOUS
      <4> QED
        BY <4>1, <1>6
    <3>2. t[Len(s) + Len(q)] = q[Len(q)]
      BY <1>7, <3>1
    <3> QED
      BY <1>4, <3>2
  <2>2. IsLast(a, q[Len(q)]) /\ q[Len(q)].of = n
    <3>1. CASE r.size = 0
      <4>1. q[Len(q)] = Unit("time", n)
        BY <1>3, <3>1
      <4> QED
        BY <4>1, <1>1, <3>1 DEF IsLast, Unit
    <3>2. CASE r.size # 0
      <4>1. q[Len(q)] = Unit("end", n)
        BY <1>3, <3>2
      <4> QED
        BY <4>1 DEF IsLast, Unit
    <3> QED
      BY <3>1, <3>2
  <2> QED
    BY <2>1, <2>2, <1>1, <1>8 DEF Complete
<1> QED
  BY <1>a, <1>b, <1>c, <1>d, <1>1, <1>4, <1>8, <1>9, <1>10 DEF Framed, U

\* So does the loss of what has not been sent.
LEMMA CutKeepsFrames ==
  ASSUME NEW m \in Seq(Requests), NEW s, Framed(m, s), NEW n \in 0..Len(s)
  PROVE  Framed(m, SubSeq(s, 1, n)) /\ Len(SubSeq(s, 1, n)) = n
<1> DEFINE t == SubSeq(s, 1, n)
<1>1. s \in Seq([k : Kinds, of : 1..Len(m)]) /\ Len(s) \in Nat
  BY DEF Framed
<1> DEFINE V == [k : Kinds, of : 1..Len(m)]
<1> HIDE DEF V
<1>6. \A i \in 1..n : s[i] \in V
  <2>1. s \in Seq(V)
    BY <1>1 DEF V
  <2> QED
    BY <2>1, <1>1
<1>2. Len(t) = n /\ \A i \in 1..n : t[i] = s[i]
  BY <1>1, <1>6, SubSeqProperties
<1>3. t \in Seq(V)
  BY <1>1, <1>6, SubSeqProperties
<1> HIDE DEF t
<1>4. t # <<>> => t[1] = Unit("type", 1)
  BY <1>1, <1>2, <1>3 DEF Framed
<1>5. \A i \in 1..n - 1 : Follows(m, t[i], t[i + 1])
  <2> SUFFICES ASSUME NEW i \in 1..n - 1
               PROVE  Follows(m, t[i], t[i + 1])
    OBVIOUS
  <2>1. i \in 1..Len(s) - 1 /\ t[i] = s[i] /\ t[i + 1] = s[i + 1]
    BY <1>1, <1>2, SMTT(30)
  <2> QED
    BY <2>1 DEF Framed
<1> QED
  BY <1>2, <1>3, <1>4, <1>5 DEF Framed, V, t

\* What a read of at most `a' units finds of the `b' there are.
LEMMA MinIsOneOfThem ==
  ASSUME NEW a \in Nat, NEW b \in Nat
  PROVE  Min({a, b}) = IF a <= b THEN a ELSE b
<1>1. \E x \in {a, b} : \A y \in {a, b} : x =< y
  OBVIOUS
<1>2. Min({a, b}) \in {a, b} /\ \A y \in {a, b} : Min({a, b}) =< y
  BY <1>1 DEF Min
<1> QED
  BY <1>2

-------------------------------------------------------------------------------
(***************************************************************************)
(* What holds until a read is cut short.                                   *)
(***************************************************************************)

\* The stream is one of packets, whole ones until the client closes.
StreamInv ==
  /\ made \in Seq(Requests)
  /\ Framed(made, stream)
  /\ arrived \in 0..Len(stream) /\ read \in 0..arrived
  /\ sock \in {"open", "fin", "doomed", "reset", "broken"}
  /\ sock = "open" => Complete(made, stream)

\* The thread is where the packets say: it reads, or deals with, the request whose
\* turn it is, and has read no more.
Turn == Len(answers) + 1
NextRequest == IF pc \in {"switch", "hung", "reply"} THEN Turn + 1 ELSE Turn
PlaceInv ==
  /\ answers \in Seq([of : Nat, what : {"ack", "nack", "none"}])
  /\ pc \in {"poll", "payload", "switch", "hung", "reply", "data", "release", "cleanup",
            "hungInCleanup", "ended"}
  /\ pc \in {"payload", "switch", "hung", "reply"} =>
       /\ Turn \in 1..Len(made)
       /\ inHdr = [type |-> made[Turn].type, size |-> made[Turn].size, of |-> Turn]
  /\ pc = "payload" =>
       read > 0 /\ stream[read] = Unit("time", Turn) /\ made[Turn].size # 0
  /\ pc # "payload" =>
       IF read = 0 THEN NextRequest = 1
       ELSE IsLast(made, stream[read]) /\ stream[read].of + 1 = NextRequest

\* A payload is in use from its header to the end of its request, and a request that
\* needs one has it.
HeapInv ==
  /\ player \in BOOLEAN
  /\ status \in {"running", "killed"}
  /\ heap \in Seq([freed : BOOLEAN, early : BOOLEAN])
  /\ dPtr \in 1..Len(heap) \cup {NULL}
  /\ pc \in {"payload", "switch"} =>
       /\ dPtr = NULL <=> inHdr.size = 0
       /\ dPtr # NULL => heap[dPtr].early = ~player
  /\ (pc \in {"reply", "data"} /\ reply.then = "poll" /\ dPtr # NULL) => heap[dPtr].early
  /\ \A b \in 1..Len(heap) :
       IF heap[b].freed THEN ~InUse(b) ELSE InUse(b) \/ heap[b].early

\* The answer is one the contract allows.
ReplyInv ==
  /\ pc \in {"reply", "data"} => reply.then \in {"poll", "release"}
  /\ pc = "reply" =>
       /\ reply.what \in {"ack", "nack"}
       /\ reply.what = "nack" => ~player \/ inHdr.type # "other"
       /\ (reply.what = "ack" /\ inHdr.type # "LOGIN") => player /\ inHdr.type # "other"

\* When a polite client has closed there is nothing left to be read or written.
Quiet == {"poll", "release", "cleanup", "hungInCleanup", "ended"}
PoliteInv ==
  polite /\ ~late =>
    /\ status = "running"
    /\ sock # "open" => /\ read = Len(stream)
                        /\ pc \in Quiet
                        /\ sock \in {"fin", "broken"}

SafeInv ==
  /\ spoilt \in BOOLEAN
  /\ ~spoilt => StreamInv /\ PlaceInv /\ HeapInv /\ ReplyInv /\ PoliteInv

\* A connection starts with an empty stream and nothing read, allocated or answered.
LEMMA InitSafe == Init => SafeInv
<1> SUFFICES ASSUME Init PROVE StreamInv /\ PlaceInv /\ HeapInv /\ ReplyInv /\ PoliteInv
  BY DEF SafeInv, Init
<1>1. Len(<<>>) = 0 /\ \A S : <<>> \in Seq(S)
  OBVIOUS
<1>2. StreamInv
  BY <1>1 DEF Init, StreamInv, Framed, Complete
<1>3. PlaceInv
  BY <1>1 DEF Init, PlaceInv, Turn, NextRequest
<1>4. HeapInv
  <2>1. heap = <<>> /\ heap \in Seq([freed : BOOLEAN, early : BOOLEAN])
    BY <1>1 DEF Init
  <2>2. \A b \in 1..Len(heap) : FALSE
    BY <2>1
  <2> QED
    BY <2>1, <2>2 DEF Init, HeapInv
<1> QED
  BY <1>2, <1>3, <1>4 DEF Init, ReplyInv, PoliteInv

\* A spoilt connection is never what it was before.
LEMMA SpoiltForGood ==
  [Next]_vars /\ spoilt \in BOOLEAN => spoilt' \in BOOLEAN /\ (spoilt => spoilt')
<1> SUFFICES ASSUME [Next]_vars, spoilt \in BOOLEAN
             PROVE  spoilt' \in {spoilt, TRUE}
  OBVIOUS
<1>1. CASE ReadHeader
  <2>1. PICK n : spoilt' = (spoilt \/ n < 3)
    BY <1>1 DEF ReadHeader
  <2> QED
    BY <2>1
<1>2. CASE ReadFails \/ PayloadFails
  BY <1>2 DEF ReadFails, PayloadFails
<1>3. CASE ReadPayload
  BY <1>3 DEF ReadPayload
<1>4. CASE \/ Make \/ Collect \/ Close \/ Arrive \/ Reset \/ Shutdown
           \/ Notify \/ NotifyData \/ Ended \/ EndOfFile \/ SendHeader \/ SendData
           \/ Release \/ CleanUp \/ Hangs \/ PassOver \/ UNCHANGED vars
  BY <1>4 DEF Make, Collect, Close, Arrive, Reset, Shutdown, Notify, NotifyData, Ended,
     EndOfFile, SendHeader, SendData, Release, CleanUp, Hangs, PassOver, vars, history
<1>5. CASE NotLoggedIn \/ LogIn \/ Refuse \/ Grant \/ Inform \/ Misuse
  BY <1>5 DEF NotLoggedIn, LogIn, Refuse, Grant, Inform, Misuse, Replies, Crashes, history
<1> QED
  BY <1>1, <1>2, <1>3, <1>4, <1>5 DEF Next, Client, Others, Service

-------------------------------------------------------------------------------
(***************************************************************************)
(* Reads that are not cut short.                                           *)
(***************************************************************************)

\* The units of the stream are those of the packets.
LEMMA NextUnit ==
  ASSUME StreamInv, NEW i \in 1..Len(stream)
  PROVE  /\ Len(stream) \in Nat /\ Len(made) \in Nat
         /\ stream[i] \in [k : Kinds, of : 1..Len(made)]
         /\ i = 1 => stream[i] = Unit("type", 1)
         /\ i > 1 => Follows(made, stream[i - 1], stream[i])
<1> DEFINE U == [k : Kinds, of : 1..Len(made)]
<1>1. stream \in Seq(U) /\ made \in Seq(Requests)
  BY DEF StreamInv, Framed
<1> HIDE DEF U
<1>2. Len(stream) \in Nat /\ Len(made) \in Nat /\ stream[i] \in U
  BY <1>1
<1>3. i = 1 => stream[i] = Unit("type", 1)
  BY <1>1, <1>2 DEF StreamInv, Framed
<1>4. ASSUME i > 1 PROVE Follows(made, stream[i - 1], stream[i])
  <2>1. i - 1 \in 1..Len(stream) - 1 /\ (i - 1) + 1 = i
    BY <1>2, <1>4
  <2> QED
    BY <2>1 DEF StreamInv, Framed
<1> QED
  BY <1>2, <1>3, <1>4 DEF U

\* What is read at "poll" is the header of the request whose turn it is.
LEMMA HeaderIsNext ==
  ASSUME StreamInv, PlaceInv, ReadHeader, ~spoilt'
  PROVE  /\ read \in Nat /\ read + 3 <= arrived /\ read' = read + 3
         /\ Turn \in 1..Len(made) /\ made[Turn] \in Requests
         /\ inHdr' = [type |-> made[Turn].type, size |-> made[Turn].size, of |-> Turn]
         /\ stream[read + 3] = Unit("time", Turn)
<1>1. /\ Len(stream) \in Nat /\ arrived \in 0..Len(stream) /\ read \in 0..arrived
      /\ Len(made) \in Nat /\ made \in Seq(Requests)
  <2>1. made \in Seq(Requests) /\ arrived \in 0..Len(stream) /\ read \in 0..arrived
    BY DEF StreamInv
  <2>2. Len(made) \in Nat
    BY <2>1
  <2>3. Len(stream) \in Nat
    BY DEF StreamInv, Framed
  <2> QED
    BY <2>1, <2>2, <2>3
<1>2. arrived - read \in Nat /\ arrived - read > 0 /\ pc = "poll"
  BY <1>1 DEF ReadHeader, Readable, At
<1>3. PICK n, junk :
        /\ n = Min({3, arrived - read})
        /\ inHdr' = Header(n, inHdr, junk)
        /\ read' = read + n
        /\ spoilt' = (spoilt \/ n < 3)
  BY DEF ReadHeader, Readable
<1>4. n = 3 /\ arrived - read >= 3
  <2>1. n = IF 3 <= arrived - read THEN 3 ELSE arrived - read
    BY <1>2, <1>3, MinIsOneOfThem
  <2>2. ~(n < 3)
    BY <1>3
  <2> QED
    BY <1>2, <2>1, <2>2
<1>5. stream[read + 1] = Unit("type", Turn)
  <2>1. read + 1 \in 1..Len(stream)
    BY <1>1, <1>2
  <2>2. CASE read = 0
    <3>1. stream[1] = Unit("type", 1)
      BY <2>1, <2>2, NextUnit
    <3> QED
      BY <3>1, <2>2, <1>2 DEF PlaceInv, NextRequest
  <2>3. CASE read # 0
    <3>1. Follows(made, stream[read], stream[read + 1])
      BY <2>1, <2>3, <1>1, NextUnit
    <3>2. IsLast(made, stream[read]) /\ stream[read].of + 1 = Turn
      BY <2>3, <1>2 DEF PlaceInv, NextRequest
    <3> QED
      BY <3>1, <3>2 DEF Follows
  <2> QED
    BY <2>2, <2>3
<1>6. Turn \in 1..Len(made)
  <2>1. read + 1 \in 1..Len(stream)
    BY <1>1, <1>2
  <2> QED
    BY <2>1, <1>5, NextUnit DEF Unit
<1>7. stream[read + 2] = Unit("size", Turn)
  <2>1. read + 2 \in 1..Len(stream) /\ read + 2 > 1 /\ (read + 2) - 1 = read + 1
    BY <1>1, <1>4
  <2>2. Follows(made, stream[read + 1], stream[read + 2])
    BY <2>1, NextUnit
  <2> QED
    BY <2>2, <1>5 DEF Follows, Unit
<1>8. stream[read + 3] = Unit("time", Turn)
  <2>1. read + 3 \in 1..Len(stream) /\ read + 3 > 1 /\ (read + 3) - 1 = read + 2
    BY <1>1, <1>4
  <2>2. Follows(made, stream[read + 2], stream[read + 3])
    BY <2>1, NextUnit
  <2> QED
    BY <2>2, <1>7 DEF Follows, Unit
<1>9. inHdr' = [type |-> made[Turn].type, size |-> made[Turn].size, of |-> Turn]
  BY <1>3, <1>4, <1>5, <1>7 DEF Header, Unit
<1>10. made[Turn] \in Requests
  BY <1>1, <1>6
<1>11. read' = read + 3 /\ read \in Nat /\ read + 3 <= arrived
  BY <1>1, <1>3, <1>4
<1> QED
  BY <1>6, <1>8, <1>9, <1>10, <1>11

\* And what is read at "payload" is the rest of its packet.
LEMMA PayloadIsNext ==
  ASSUME StreamInv, PlaceInv, ReadPayload, ~spoilt'
  PROVE  /\ read \in Nat /\ read + 2 <= arrived /\ read' = read + 2
         /\ stream[read + 2] = Unit("end", Turn)
         /\ UNCHANGED heap
<1>1. /\ Len(stream) \in Nat /\ arrived \in 0..Len(stream) /\ read \in 0..arrived
      /\ Len(made) \in Nat /\ made \in Seq(Requests)
  <2>1. made \in Seq(Requests) /\ arrived \in 0..Len(stream) /\ read \in 0..arrived
    BY DEF StreamInv
  <2>2. Len(made) \in Nat
    BY <2>1
  <2>3. Len(stream) \in Nat
    BY DEF StreamInv, Framed
  <2> QED
    BY <2>1, <2>2, <2>3
<1>2. /\ arrived - read \in Nat /\ read > 0 /\ stream[read] = Unit("time", Turn)
      /\ Turn \in 1..Len(made) /\ made[Turn].size # 0 /\ inHdr.size = made[Turn].size
  BY <1>1 DEF ReadPayload, At, PlaceInv
<1>3. inHdr.size = 2
  <2>1. made[Turn] \in Requests
    BY <1>1, <1>2
  <2>2. made[Turn].size \in Sizes
    BY <2>1, RequestsAssumption
  <2> QED
    BY <2>2, <1>2 DEF Sizes
<1>4. Min({2, arrived - read}) = 2 /\ arrived - read >= 2 /\ read' = read + 2 /\ heap' = heap
  <2>1. PICK n : /\ n = Min({2, arrived - read})
                 /\ read' = read + n
                 /\ IF n < 2 THEN spoilt' = TRUE ELSE UNCHANGED <<heap, spoilt>>
    BY <1>3 DEF ReadPayload, Readable
  <2>2. n = IF 2 <= arrived - read THEN 2 ELSE arrived - read
    BY <2>1, <1>2, MinIsOneOfThem
  <2> QED
    BY <2>1, <2>2, <1>2
<1>5. stream[read + 1] = Unit("text", Turn)
  <2>1. read + 1 \in 1..Len(stream) /\ read + 1 > 1 /\ (read + 1) - 1 = read
    BY <1>1, <1>2, <1>4
  <2>2. Follows(made, stream[read], stream[read + 1])
    BY <2>1, NextUnit
  <2> QED
    BY <2>2, <1>2 DEF Follows, Unit
<1>6. stream[read + 2] = Unit("end", Turn)
  <2>1. read + 2 \in 1..Len(stream) /\ read + 2 > 1 /\ (read + 2) - 1 = read + 1
    BY <1>1, <1>4
  <2>2. Follows(made, stream[read + 1], stream[read + 2])
    BY <2>1, NextUnit
  <2> QED
    BY <2>2, <1>5 DEF Follows, Unit
<1> QED
  BY <1>1, <1>4, <1>6

-------------------------------------------------------------------------------
(***************************************************************************)
(* Steps that cut no read short.                                           *)
(***************************************************************************)

\* The stream stays one of packets: a client appends packets, and its close cuts off
\* what did not arrive, which only a later read notices.
LEMMA StreamStep ==
  ASSUME StreamInv, PlaceInv, Next, ~spoilt'
  PROVE  StreamInv'
<1>1. /\ made \in Seq(Requests) /\ Framed(made, stream) /\ Len(stream) \in Nat
      /\ arrived \in 0..Len(stream) /\ read \in 0..arrived
  BY DEF StreamInv, Framed
<1>2. CASE Make
  <2>1. PICK r \in Requests : /\ made' = Append(made, r)
                              /\ stream' = stream \o Packet(r, Len(made) + 1)
    BY <1>2 DEF Make
  <2>2. Complete(made, stream) /\ UNCHANGED <<arrived, read, sock>>
    BY <1>2 DEF Make, StreamInv
  <2>3. Framed(made', stream') /\ Complete(made', stream')
    BY <1>1, <2>1, <2>2, MakeKeepsFrames
  <2>4. made' \in Seq(Requests)
    BY <1>1, <2>1, AppendProperties
  <2>5. arrived \in 0..Len(stream')
    <3> DEFINE U == [k : Kinds, of : 1..Len(made) + 1]
    <3>1. Len(made) + 1 \in Nat \ {0}
      BY <1>1
    <3>2. stream' \in Seq(U)
      <4>1. Len(made') = Len(made) + 1
        BY <1>1, <2>1, AppendProperties
      <4> QED
        BY <2>3, <4>1 DEF Framed
    <3>3. Packet(r, Len(made) + 1) \in Seq(U) /\ Len(Packet(r, Len(made) + 1)) \in Nat
      BY <3>1, PacketUnits
    <3>4. stream \in Seq([k : Kinds, of : 1..Len(made)])
      BY <1>1 DEF Framed
    <3>5. 1..Len(made) \subseteq 1..Len(made) + 1
      BY <1>1
    <3>6. [k : Kinds, of : 1..Len(made)] \subseteq U
      BY <3>5
    <3>7. stream \in Seq(U)
      BY <3>4, <3>6, SeqMonotonic
    <3> HIDE DEF U
    <3>8. Len(stream') = Len(stream) + Len(Packet(r, Len(made) + 1))
      BY <2>1, <3>3, <3>7, ConcatProperties
    <3> QED
      BY <1>1, <3>3, <3>8
  <2> QED
    BY <1>1, <2>2, <2>3, <2>4, <2>5 DEF StreamInv
<1>3. CASE Close \/ Shutdown
  <2>1. PICK n \in 0..Len(stream) : n >= arrived /\ stream' = SubSeq(stream, 1, n) /\ arrived' = n
    BY <1>1, <1>3 DEF Close, Shutdown
  <2>2. /\ sock' \in {"reset", "fin", "broken"} /\ UNCHANGED <<made, read>>
    BY <1>3 DEF Close, Shutdown
  <2>3. Framed(made, stream') /\ Len(stream') = n
    BY <1>1, <2>1, CutKeepsFrames
  <2> QED
    BY <1>1, <2>1, <2>2, <2>3 DEF StreamInv
<1>4. CASE Arrive
  BY <1>1, <1>4 DEF Arrive, client, StreamInv
<1>5. CASE Collect \/ Reset
  BY <1>1, <1>5 DEF Collect, Reset, client, network, StreamInv
<1>6. CASE Notify \/ (NotifyData /\ pc # "ended") \/ SendHeader \/ SendData
  <2>1. Write /\ UNCHANGED <<made, stream, arrived, read>>
    BY <1>6 DEF Notify, NotifyData, WriteNotice, SendHeader, SendData
  <2>2. sock' \in {"open", "fin", "doomed", "reset", "broken"} /\ (sock' = "open" => sock = "open")
    BY <2>1 DEF Write, StreamInv
  <2> QED
    BY <1>1, <2>1, <2>2 DEF StreamInv
<1>7. CASE ReadHeader
  <2>1. read \in Nat /\ read + 3 <= arrived /\ read' = read + 3
    BY <1>7, HeaderIsNext
  <2> QED
    BY <1>1, <1>7, <2>1 DEF ReadHeader, client, network, StreamInv
<1>8. CASE ReadPayload
  <2>1. read \in Nat /\ read + 2 <= arrived /\ read' = read + 2
    BY <1>8, PayloadIsNext
  <2> QED
    BY <1>1, <1>8, <2>1 DEF ReadPayload, client, network, StreamInv
<1>9. CASE UNCHANGED <<client, network, read>>
  BY <1>9 DEF client, network, StreamInv
<1>10. CASE EndOfFile \/ NotLoggedIn \/ LogIn \/ Refuse \/ Grant \/ Inform \/ Misuse
            \/ PassOver \/ Hangs \/ Release \/ CleanUp \/ Ended
  BY <1>9, <1>10 DEF EndOfFile, NotLoggedIn, LogIn, Refuse, Grant, Inform, Misuse, PassOver,
     Hangs, Release, CleanUp, Ended, Replies, Crashes, vars, client, network
<1>11. CASE NotifyData /\ pc = "ended"
  BY <1>1, <1>11 DEF NotifyData, StreamInv
<1> QED
  BY <1>2, <1>3, <1>4, <1>5, <1>6, <1>7, <1>8, <1>10, <1>11
     DEF Next, Client, Others, Service, ReadFails, PayloadFails

\* The place changes with the steps of the thread only.
LEMMA PlaceKept ==
  ASSUME StreamInv, PlaceInv, UNCHANGED <<read, pc, answers, inHdr>>,
         made' = made \/ (\E r \in Requests : made' = Append(made, r)),
         \A i \in 1..read : stream'[i] = stream[i]
  PROVE  PlaceInv'
<1>1. /\ made \in Seq(Requests) /\ Len(made) \in Nat /\ read \in Nat /\ read <= Len(stream)
      /\ Len(stream) \in Nat
  <2>1. made \in Seq(Requests) /\ arrived \in 0..Len(stream) /\ read \in 0..arrived
    BY DEF StreamInv
  <2>2. Len(made) \in Nat
    BY <2>1
  <2>3. Len(stream) \in Nat
    BY DEF StreamInv, Framed
  <2> QED
    BY <2>1, <2>2, <2>3
<1>2. Len(made') >= Len(made) /\ Len(made') \in Nat /\ \A i \in 1..Len(made) : made'[i] = made[i]
  <2>1. CASE made' = made
    BY <2>1, <1>1
  <2>2. ASSUME NEW r \in Requests, made' = Append(made, r)
        PROVE  Len(made') = Len(made) + 1 /\ \A i \in 1..Len(made) : made'[i] = made[i]
    BY <2>2, <1>1, AppendProperties
  <2> QED
    BY <1>1, <2>1, <2>2
<1>3. read > 0 => stream'[read] = stream[read]
  BY <1>1
<1>4. read > 0 => stream[read].of \in 1..Len(made)
  <2> SUFFICES ASSUME read > 0 PROVE stream[read].of \in 1..Len(made)
    OBVIOUS
  <2>1. read \in 1..Len(stream)
    BY <1>1
  <2> QED
    BY <2>1, NextUnit
<1>5. Turn \in Nat
  BY DEF PlaceInv, Turn
<1>6. (pc \in {"payload", "switch", "hung", "reply"})' =>
        /\ Turn' \in 1..Len(made')
        /\ inHdr' = [type |-> made'[Turn'].type, size |-> made'[Turn'].size, of |-> Turn']
  BY <1>1, <1>2 DEF PlaceInv, Turn
<1>7. (pc = "payload")' => /\ read' > 0 /\ stream'[read'] = Unit("time", Turn')
                           /\ made'[Turn'].size # 0
  BY <1>1, <1>2, <1>3 DEF PlaceInv, Turn
<1>8. (pc # "payload")' =>
        IF read' = 0 THEN NextRequest' = 1
        ELSE IsLast(made', stream'[read']) /\ stream'[read'].of + 1 = NextRequest'
  BY <1>1, <1>2, <1>3, <1>4, SMTT(30) DEF PlaceInv, Turn, NextRequest, IsLast
<1> QED
  BY <1>6, <1>7, <1>8 DEF PlaceInv

\* The thread stays at the request whose turn it is: it reads that request's
\* header, then its payload if there is one, and answers once (server.c:137-364).
LEMMA PlaceStep ==
  ASSUME StreamInv, PlaceInv, HeapInv, ReplyInv, Next, ~spoilt', ~spoilt
  PROVE  PlaceInv'
<1>1. /\ made \in Seq(Requests) /\ Framed(made, stream) /\ Len(stream) \in Nat
      /\ arrived \in 0..Len(stream) /\ read \in 0..arrived /\ Len(made) \in Nat
  BY DEF StreamInv, Framed
<1>2. answers \in Seq([of : Nat, what : {"ack", "nack", "none"}]) /\ Turn \in Nat \ {0}
  BY DEF PlaceInv, Turn
<1>3. CASE Make
  <2>1. PICK r \in Requests : /\ made' = Append(made, r)
                              /\ stream' = stream \o Packet(r, Len(made) + 1)
    BY <1>3 DEF Make
  <2>2. \A i \in 1..read : stream'[i] = stream[i]
    <3>1. \A i \in 1..read : i \in 1..Len(stream)
      BY <1>1
    <3> DEFINE V == [k : Kinds, of : 1..Len(made)]
               U == [k : Kinds, of : 1..Len(made) + 1]
    <3>2. Packet(r, Len(made) + 1) \in Seq(U)
      BY <1>1, PacketUnits
    <3>3. 1..Len(made) \subseteq 1..Len(made) + 1
      BY <1>1
    <3>4. V \subseteq U /\ stream \in Seq(V)
      BY <1>1, <3>3 DEF Framed
    <3> HIDE DEF U, V
    <3>5. stream \in Seq(U)
      BY <3>4, SeqMonotonic
    <3>6. Len(Packet(r, Len(made) + 1)) \in Nat
      BY <3>2
    <3> QED
      BY <1>1, <2>1, <3>1, <3>2, <3>5, <3>6, ConcatProperties
  <2>3. UNCHANGED <<read, pc, answers, inHdr>>
    BY <1>3 DEF Make, thread, history
  <2> QED
    BY <2>1, <2>2, <2>3, PlaceKept
<1>4. CASE Close \/ Shutdown
  <2>1. PICK n \in 0..Len(stream) : n >= arrived /\ stream' = SubSeq(stream, 1, n)
    BY <1>1, <1>4 DEF Close, Shutdown
  <2>2. \A i \in 1..read : i \in 1..n /\ i \in 1..Len(stream)
    BY <1>1, <2>1
  <2>3. \A i \in 1..read : stream'[i] = stream[i]
    BY <1>1, <2>1, <2>2
  <2>4. UNCHANGED <<made, read, pc, answers, inHdr>>
    BY <1>4 DEF Close, Shutdown, thread, history
  <2> QED
    BY <2>3, <2>4, PlaceKept
<1>5. CASE \/ Arrive \/ Collect \/ Reset \/ Notify \/ NotifyData \/ Misuse \/ Ended
           \/ (SendHeader /\ status' = "killed")
  <2>1. UNCHANGED <<made, stream, read, pc, answers, inHdr>>
    BY <1>5 DEF Arrive, Collect, Reset, Notify, NotifyData, SendHeader, Misuse, Crashes, Ended,
       vars, client, network, thread, history
  <2> QED
    BY <2>1, PlaceKept
<1>6. CASE ReadHeader
  <2>1. /\ read \in Nat /\ read' = read + 3 /\ Turn \in 1..Len(made)
        /\ inHdr' = [type |-> made[Turn].type, size |-> made[Turn].size, of |-> Turn]
        /\ stream[read + 3] = Unit("time", Turn)
    BY <1>6, HeaderIsNext
  <2>2. UNCHANGED <<made, stream, answers>>
        /\ pc' = IF inHdr'.size = 0 THEN "switch" ELSE "payload"
    BY <1>6 DEF ReadHeader, GoOn, client, network
  <2>3. Turn' = Turn
    BY <2>2 DEF Turn
  <2>4. CASE inHdr'.size = 0
    <3>1. IsLast(made', stream'[read']) /\ stream'[read'].of = Turn
      BY <2>1, <2>2, <2>4 DEF IsLast, Unit
    <3> QED
      BY <1>1, <1>2, <2>1, <2>2, <2>3, <2>4, <3>1 DEF PlaceInv, NextRequest
  <2>5. CASE inHdr'.size # 0
    BY <1>1, <1>2, <2>1, <2>2, <2>3, <2>5 DEF PlaceInv
  <2> QED
    BY <2>4, <2>5
<1>7. CASE ReadPayload
  <2>1. /\ read \in Nat /\ read' = read + 2 /\ stream[read + 2] = Unit("end", Turn)
    BY <1>7, PayloadIsNext
  <2>2. UNCHANGED <<made, stream, answers, inHdr>> /\ pc = "payload" /\ pc' = "switch"
    BY <1>7 DEF ReadPayload, GoOn, client, network, At
  <2>3. Turn' = Turn
    BY <2>2 DEF Turn
  <2>4. IsLast(made', stream'[read']) /\ stream'[read'].of = Turn
    BY <2>1, <2>2 DEF IsLast, Unit
  <2> QED
    BY <1>1, <1>2, <2>1, <2>2, <2>3, <2>4 DEF PlaceInv, NextRequest
<1>8. CASE EndOfFile \/ SendData \/ Release \/ CleanUp
  <2>1. /\ UNCHANGED <<made, stream, read, answers>>
        /\ {pc, pc'} \subseteq {"poll", "data", "release", "cleanup", "ended"}
    BY <1>8 DEF EndOfFile, SendData, Release, CleanUp, GoOn, client, network, At, history,
       ReplyInv
  <2>2. Turn' = Turn
    BY <2>1 DEF Turn
  <2> QED
    BY <1>2, <2>1, <2>2 DEF PlaceInv, NextRequest
<1>9. CASE NotLoggedIn \/ LogIn \/ Refuse \/ Grant \/ Inform
  <2>1. /\ UNCHANGED <<made, stream, read, answers, inHdr>>
        /\ pc = "switch" /\ pc' = "reply"
    BY <1>9 DEF NotLoggedIn, LogIn, Refuse, Grant, Inform, Replies, GoOn, client, network, At,
       history, Requested, Serving
  <2>2. Turn' = Turn
    BY <2>1 DEF Turn
  <2> QED
    BY <1>2, <2>1, <2>2 DEF PlaceInv, NextRequest
<1>10. CASE PassOver \/ (SendHeader /\ status' # "killed")
  <2>1. /\ UNCHANGED <<made, stream, read>>
        /\ pc \in {"switch", "reply"} /\ pc' \in {"data", "poll", "release"}
        /\ \E what \in {"ack", "nack", "none"} :
             answers' = Append(answers, [of |-> inHdr.of, what |-> what])
    BY <1>10 DEF PassOver, SendHeader, DealtWith, GoOn, client, network, At, ReplyInv, Serving
  <2>2. [of : Nat, what : {"ack", "nack", "none"}] # {} /\ inHdr.of = Turn
    BY <2>1 DEF PlaceInv
  <2>3. /\ answers' \in Seq([of : Nat, what : {"ack", "nack", "none"}])
        /\ Len(answers') = Len(answers) + 1
    BY <1>2, <2>1, <2>2, AppendProperties
  <2>4. Turn' = Turn + 1
    BY <2>3 DEF Turn
  <2> QED
    BY <1>2, <2>1, <2>3, <2>4 DEF PlaceInv, NextRequest
<1>11. CASE Hangs
  <2>1. /\ UNCHANGED <<made, stream, read, answers, inHdr>>
        /\ \/ pc = "switch" /\ pc' = "hung"
           \/ pc = "cleanup" /\ pc' = "hungInCleanup"
    BY <1>11 DEF Hangs, GoOn, client, network, thread, history, At, Requested, Serving
  <2>2. Turn' = Turn
    BY <2>1 DEF Turn
  <2> QED
    BY <1>2, <2>1, <2>2 DEF PlaceInv, NextRequest
<1> QED
  BY <1>3, <1>4, <1>5, <1>6, <1>7, <1>8, <1>9, <1>10, <1>11
     DEF Next, Client, Others, Service, ReadFails, PayloadFails

\* What the clients do leaves the payloads alone.
LEMMA HeapKept ==
  ASSUME HeapInv, UNCHANGED <<pc, inHdr, dPtr, heap, player, reply>>,
         status' \in {"running", "killed"}
  PROVE  HeapInv'
BY DEF HeapInv, InUse

\* A request is never served with a payload that is freed, or without one it needs.
LEMMA NothingIsMisused ==
  ASSUME StreamInv, PlaceInv, HeapInv
  PROVE  ~Misuse
<1> SUFFICES ASSUME Misuse PROVE FALSE
  OBVIOUS
<1>1. /\ pc = "switch"
      /\ ~Usable \/ (dPtr = NULL /\ ~Requested("LOGIN"))
      /\ inHdr.type \in {"INVITE", "MOVE"} \/ Requested("LOGIN")
  BY DEF Misuse, Serving, Requested, At
<1>2. CASE ~Usable
  <2>1. dPtr # NULL /\ heap[dPtr].freed /\ dPtr \in 1..Len(heap)
    BY <1>2 DEF Usable, HeapInv
  <2> QED
    BY <1>1, <2>1 DEF HeapInv, InUse
<1>3. CASE dPtr = NULL /\ ~Requested("LOGIN")
  <2>1. Turn \in 1..Len(made) /\ made \in Seq(Requests)
    BY <1>1 DEF PlaceInv, StreamInv
  <2>2. made[Turn] \in Requests
    BY <2>1
  <2>3. made[Turn].type \in {"INVITE", "MOVE"} /\ made[Turn].size = 0
    BY <1>1, <1>3 DEF PlaceInv, HeapInv
  <2> QED
    BY <2>2, <2>3, PayloadAssumption
<1> QED
  BY <1>1, <1>2, <1>3

\* Where the thread goes when it has written.
LEMMA SentOn ==
  ASSUME SendData \/ (SendHeader /\ status' # "killed")
  PROVE  /\ pc \in {"reply", "data"}
         /\ pc' = "data" \/ pc' = reply.then
         /\ UNCHANGED <<dPtr, heap, player, reply>>
<1>1. CASE SendData
  BY <1>1 DEF SendData, At, thread
<1>2. CASE SendHeader /\ status' # "killed"
  <2>1. pc' = IF reply.data THEN "data" ELSE reply.then
    BY <1>2 DEF SendHeader
  <2> QED
    BY <1>2, <2>1 DEF SendHeader, At, thread
<1> QED
  BY <1>1, <1>2

\* A write is the only call that ends the process.
LEMMA WriteKills ==
  ASSUME StreamInv, Write, status = "running"
  PROVE  status' \in {"running", "killed"}
BY DEF Write, StreamInv

\* Each payload is allocated by the read of its packet and freed behind its request,
\* except for those of requests before the login.
LEMMA HeapStep ==
  ASSUME StreamInv, PlaceInv, HeapInv, ReplyInv, Next, ~spoilt', ~spoilt
  PROVE  HeapInv'
<1> DEFINE Block == [freed : BOOLEAN, early : BOOLEAN]
<1>1. heap \in Seq(Block) /\ Len(heap) \in Nat /\ player \in BOOLEAN
  BY DEF HeapInv
<1>2. CASE \/ Make \/ Collect \/ Close \/ Arrive \/ Reset \/ Shutdown
           \/ Notify \/ NotifyData \/ Ended \/ (SendHeader /\ status' = "killed")
  <2>1. UNCHANGED <<pc, inHdr, dPtr, heap, player, reply>>
    <3>1. CASE \/ Make \/ Collect \/ Close \/ Arrive \/ Reset \/ Shutdown
               \/ Notify \/ NotifyData \/ Ended
      BY <3>1 DEF Make, Collect, Close, Arrive, Reset, Shutdown, Notify, NotifyData, Ended, vars,
         thread
    <3>2. CASE SendHeader /\ status' = "killed"
      BY <3>2 DEF SendHeader, thread
    <3> QED
      BY <1>2, <3>1, <3>2
  <2>2. status' \in {"running", "killed"}
    <3>1. CASE Make \/ Collect \/ Close \/ Arrive \/ Reset \/ Shutdown \/ Ended
      BY <3>1 DEF Make, Collect, Close, Arrive, Reset, Shutdown, Ended, vars, HeapInv
    <3>2. CASE Notify \/ NotifyData \/ SendHeader
      BY <3>2, WriteKills DEF Notify, NotifyData, WriteNotice, SendHeader, At, HeapInv
    <3> QED
      BY <1>2, <3>1, <3>2
  <2> QED
    BY <2>1, <2>2, HeapKept
<1>3. CASE ReadHeader
  <2>1. /\ pc = "poll" /\ pc' = IF inHdr'.size = 0 THEN "switch" ELSE "payload"
        /\ UNCHANGED <<player, status>>
        /\ IF inHdr'.size = 0 THEN dPtr' = NULL /\ heap' = heap
           ELSE /\ dPtr' = Len(heap) + 1
                /\ heap' = Append(heap, [freed |-> FALSE, early |-> ~player])
    BY <1>3 DEF ReadHeader, At, GoOn
  <2>2. \A b \in 1..Len(heap) : heap[b].freed \/ heap[b].early
    BY <2>1 DEF HeapInv, InUse
  <2>3. CASE inHdr'.size = 0
    <3>1. NULL \notin 1..Len(heap)
      BY NullAssumption
    <3> QED
      BY <1>1, <2>1, <2>2, <2>3, <3>1 DEF HeapInv, InUse
  <2>4. CASE inHdr'.size # 0
    <3> DEFINE b == [freed |-> FALSE, early |-> ~player]
    <3>1. b \in Block /\ b.freed = FALSE /\ b.early = ~player
      BY <1>1
    <3> HIDE DEF b, Block
    <3>2. /\ heap' \in Seq(Block) /\ Len(heap') = Len(heap) + 1
          /\ heap'[Len(heap) + 1] = b
          /\ \A i \in 1..Len(heap) : heap'[i] = heap[i]
      BY <1>1, <2>1, <2>4, <3>1, AppendProperties DEF b
    <3>3. dPtr' = Len(heap) + 1 /\ dPtr' # NULL /\ pc' = "payload" /\ dPtr' \in 1..Len(heap')
      BY <1>1, <2>1, <2>4, <3>2, NullAssumption
    <3>4. ASSUME NEW i \in 1..Len(heap')
          PROVE  IF heap'[i].freed THEN ~InUse(i)' ELSE InUse(i)' \/ heap'[i].early
      <4>1. CASE i = Len(heap) + 1
        BY <4>1, <3>1, <3>2, <3>3 DEF InUse
      <4>2. CASE i # Len(heap) + 1
        <5>1. i \in 1..Len(heap) /\ heap'[i] = heap[i] /\ i # dPtr'
          BY <4>2, <1>1, <3>2, <3>3
        <5> QED
          BY <2>2, <5>1 DEF InUse
      <4> QED
        BY <4>1, <4>2
    <3>5. heap'[dPtr'].early = ~player'
      BY <2>1, <3>1, <3>2, <3>3
    <3> QED
      BY <1>1, <2>1, <2>4, <3>2, <3>3, <3>4, <3>5 DEF HeapInv, Block
  <2> QED
    BY <2>3, <2>4
<1>4. CASE ReadPayload
  <2>1. heap' = heap
    BY <1>4, PayloadIsNext
  <2> QED
    BY <1>4, <2>1 DEF ReadPayload, GoOn, At, HeapInv, InUse
<1>5. CASE EndOfFile \/ CleanUp
  BY <1>5 DEF EndOfFile, CleanUp, GoOn, At, thread, HeapInv, InUse
<1>6. CASE NotLoggedIn
  BY <1>6 DEF NotLoggedIn, Replies, GoOn, At, HeapInv, InUse
<1>7. CASE LogIn \/ Refuse \/ Grant \/ Inform
  <2>1. /\ pc = "switch" /\ pc' = "reply" /\ reply'.then = "release"
        /\ UNCHANGED <<status, dPtr, heap>> /\ player' \in BOOLEAN
    <3>1. CASE LogIn
      <4>1. pc = "switch" /\ Replies("ack", FALSE, "release") /\ player' \in BOOLEAN
        BY <3>1 DEF LogIn, Requested, At
      <4> QED
        BY <4>1 DEF Replies, GoOn
    <3>2. CASE Refuse
      <4>1. pc = "switch" /\ Replies("nack", FALSE, "release") /\ player' = player
        BY <3>2 DEF Refuse, Serving, At
      <4> QED
        BY <4>1, <1>1 DEF Replies, GoOn
    <3>3. CASE Grant
      <4>1. pc = "switch" /\ Replies("ack", FALSE, "release") /\ player' = player
        BY <3>3 DEF Grant, Serving, At
      <4> QED
        BY <4>1, <1>1 DEF Replies, GoOn
    <3>4. CASE Inform
      <4>1. pc = "switch" /\ (\E data : Replies("ack", data, "release")) /\ player' = player
        BY <3>4 DEF Inform, Serving, At
      <4> QED
        BY <4>1, <1>1 DEF Replies, GoOn
    <3> QED
      BY <1>7, <3>1, <3>2, <3>3, <3>4
  <2> QED
    BY <2>1 DEF HeapInv, InUse
<1>8. CASE PassOver
  BY <1>8 DEF PassOver, Serving, GoOn, At, thread, HeapInv, InUse
<1>9. CASE SendData \/ (SendHeader /\ status' # "killed")
  <2>1. /\ pc \in {"reply", "data"}
        /\ pc' = "data" \/ pc' = reply.then
        /\ UNCHANGED <<dPtr, heap, player, reply>>
    BY <1>9, SentOn
  <2>2. reply.then \in {"poll", "release"}
    BY <2>1 DEF ReplyInv
  <2>3. status' \in {"running", "killed"}
    BY <1>9, WriteKills DEF SendHeader, SendData, At
  <2>4. CASE pc' = "poll"
    <3>1. \A b \in 1..Len(heap) : heap[b].freed \/ heap[b].early
      <4>1. (pc = "reply" /\ reply.then = "poll") \/ (pc = "data" /\ reply.then = "poll")
        BY <2>1, <2>4
      <4>2. \A b \in 1..Len(heap) : b # NULL
        BY NullAssumption
      <4> QED
        BY <4>1, <4>2 DEF HeapInv, InUse
    <3> QED
      BY <2>1, <2>3, <2>4, <3>1 DEF HeapInv, InUse
  <2>5. CASE pc' \in {"data", "release"}
    <3>1. \A b : InUse(b)' <=> InUse(b)
      BY <2>1, <2>5 DEF InUse
    <3> QED
      BY <2>1, <2>3, <2>5, <3>1 DEF HeapInv
  <2> QED
    BY <2>1, <2>2, <2>4, <2>5
<1>10. CASE Release
  <2>1. CASE dPtr = NULL
    <3>1. NULL \notin 1..Len(heap)
      BY <1>1, NullAssumption
    <3> QED
      BY <1>10, <2>1, <3>1 DEF Release, GoOn, At, HeapInv, InUse
  <2>2. CASE dPtr # NULL
    <3>1. dPtr \in 1..Len(heap) /\ pc = "release" /\ InUse(dPtr) /\ ~heap[dPtr].freed
      BY <1>10, <2>2 DEF Release, At, HeapInv, InUse
    <3>2. /\ heap' = [heap EXCEPT ![dPtr].freed = TRUE] /\ pc' = "poll"
          /\ UNCHANGED <<status, dPtr, player>>
      BY <1>10, <2>2, <3>1 DEF Release, GoOn, Freed, Usable
    <3>3. /\ heap' \in Seq(Block) /\ Len(heap') = Len(heap)
          /\ heap'[dPtr].freed
          /\ \A b \in 1..Len(heap) : b # dPtr => heap'[b] = heap[b]
      <4> DEFINE freed == [heap[dPtr] EXCEPT !.freed = TRUE]
      <4>1. freed \in Block /\ freed.freed = TRUE
        <5>1. \A b \in Block : /\ [b EXCEPT !.freed = TRUE] \in Block
                               /\ [b EXCEPT !.freed = TRUE].freed = TRUE
          OBVIOUS
        <5> HIDE DEF Block
        <5>2. heap[dPtr] \in Block
          BY <1>1, <3>1
        <5> QED
          BY <5>1, <5>2
      <4>2. heap' = [heap EXCEPT ![dPtr] = freed]
        BY <3>2
      <4> HIDE DEF freed, Block
      <4>3. /\ heap' \in Seq(Block) /\ Len(heap') = Len(heap)
            /\ \A b \in 1..Len(heap) : heap'[b] = IF b = dPtr THEN freed ELSE heap[b]
        BY <1>1, <3>1, <4>1, <4>2, ExceptSeq
      <4> QED
        BY <3>1, <4>1, <4>3
    <3> QED
      BY <1>1, <3>1, <3>2, <3>3 DEF HeapInv, InUse
  <2> QED
    BY <2>1, <2>2
<1>11. ~Misuse
  BY NothingIsMisused
<1>12. CASE Hangs
  <2>1. /\ UNCHANGED <<status, inHdr, dPtr, heap, player, reply>>
        /\ \/ pc = "switch" /\ pc' = "hung"
           \/ pc = "cleanup" /\ pc' = "hungInCleanup"
    BY <1>12 DEF Hangs, GoOn, thread, At, Requested, Serving
  <2>2. \A b : InUse(b)' <=> InUse(b)
    BY <2>1 DEF InUse
  <2> QED
    BY <2>1, <2>2 DEF HeapInv
<1> QED
  BY <1>2, <1>3, <1>4, <1>5, <1>6, <1>7, <1>8, <1>9, <1>10, <1>11, <1>12
     DEF Next, Client, Others, Service, ReadFails, PayloadFails

\* An answer that is ready is one the branch for the request's type sends, and the
\* login is noted before its answer is sent (server.c:165-176).
LEMMA ReplyStep ==
  ASSUME HeapInv, ReplyInv, Next
  PROVE  ReplyInv'
<1>1. CASE \/ Make \/ Collect \/ Close \/ Arrive \/ Reset \/ Shutdown
           \/ Notify \/ NotifyData \/ Ended \/ Misuse \/ (SendHeader /\ status' = "killed")
  <2>1. UNCHANGED <<pc, inHdr, player, reply>>
    BY <1>1 DEF Make, Collect, Close, Arrive, Reset, Shutdown, Notify, NotifyData, SendHeader,
       Misuse, Crashes, Ended, vars, client, network, thread, history
  <2> QED
    BY <2>1 DEF ReplyInv
<1>2. CASE \/ ReadHeader \/ ReadFails \/ EndOfFile \/ ReadPayload \/ PayloadFails
           \/ PassOver \/ Hangs \/ Release \/ CleanUp
  <2>1. pc' \notin {"reply", "data"}
    BY <1>2 DEF ReadHeader, ReadFails, EndOfFile, ReadPayload, PayloadFails, PassOver, Hangs,
       Release, CleanUp, GoOn, At
  <2> QED
    BY <2>1 DEF ReplyInv
<1>3. CASE SendData \/ (SendHeader /\ status' # "killed")
  <2>1. pc' \in {"data", "poll", "release"} /\ reply' = reply /\ pc \in {"reply", "data"}
    BY <1>3, SentOn DEF ReplyInv
  <2> QED
    BY <2>1 DEF ReplyInv
<1>4. CASE NotLoggedIn \/ LogIn \/ Refuse \/ Grant \/ Inform
  <2>1. CASE NotLoggedIn
    BY <2>1 DEF NotLoggedIn, Replies, GoOn, ReplyInv
  <2>2. CASE LogIn
    <3>1. inHdr.type = "LOGIN" /\ Replies("ack", FALSE, "release")
      BY <2>2 DEF LogIn, Requested
    <3> QED
      BY <3>1 DEF Replies, GoOn, ReplyInv
  <2>3. CASE Refuse
    <3>1. inHdr.type # "other" /\ Replies("nack", FALSE, "release")
      BY <2>3 DEF Refuse, Serving
    <3> QED
      BY <3>1 DEF Replies, GoOn, ReplyInv
  <2>4. CASE Grant \/ Inform
    <3>1. PICK data \in BOOLEAN : Replies("ack", data, "release")
      BY <2>4 DEF Grant, Inform
    <3>2. inHdr.type # "other" /\ player /\ player' = player
      BY <2>4 DEF Grant, Inform, Serving
    <3> QED
      BY <3>1, <3>2 DEF Replies, GoOn, ReplyInv
  <2> QED
    BY <1>4, <2>1, <2>2, <2>3, <2>4
<1> QED
  BY <1>1, <1>2, <1>3, <1>4 DEF Next, Client, Others, Service

\* A client whose requests have all been answered has nothing more to be read.
LEMMA AnsweredMeansRead ==
  ASSUME StreamInv, PlaceInv, Answered, sock = "open"
  PROVE  /\ read = Len(stream) /\ arrived = Len(stream)
         /\ pc \in Quiet /\ ~unread
<1>1. /\ Len(stream) \in Nat /\ arrived \in 0..Len(stream) /\ read \in 0..arrived
      /\ made \in Seq(Requests) /\ Complete(made, stream)
  <2>1. /\ made \in Seq(Requests) /\ arrived \in 0..Len(stream) /\ read \in 0..arrived
        /\ Complete(made, stream)
    BY DEF StreamInv
  <2>2. Len(stream) \in Nat
    BY DEF StreamInv, Framed
  <2> QED
    BY <2>1, <2>2
<1>2. Len(made) \in Nat /\ Turn = Len(made) + 1 /\ pc # "data" /\ ~unread
  <2>1. Len(made) \in Nat
    BY <1>1
  <2> QED
    BY <2>1 DEF Answered, Turn
<1>3. pc \notin {"payload", "switch", "hung", "reply", "data"} /\ NextRequest = Turn
  BY <1>2 DEF PlaceInv, NextRequest
<1>4. read = Len(stream)
  <2> SUFFICES ASSUME read < Len(stream) PROVE FALSE
    BY <1>1
  <2>1. read + 1 \in 1..Len(stream)
    BY <1>1
  <2>2. stream[read + 1] \in [k : Kinds, of : 1..Len(made)]
    BY <2>1, NextUnit
  <2>3. stream[read + 1] = Unit("type", Len(made) + 1)
    <3>1. CASE read = 0
      <4>1. stream[1] = Unit("type", 1)
        BY <2>1, <3>1, NextUnit
      <4> QED
        BY <4>1, <3>1, <1>2, <1>3 DEF PlaceInv
    <3>2. CASE read # 0
      <4>1. Follows(made, stream[read], stream[read + 1])
        BY <2>1, <3>2, <1>1, NextUnit
      <4>2. IsLast(made, stream[read]) /\ stream[read].of + 1 = Turn
        BY <3>2, <1>3 DEF PlaceInv
      <4> QED
        BY <4>1, <4>2, <1>2 DEF Follows
    <3> QED
      BY <3>1, <3>2
  <2> QED
    BY <1>2, <2>2, <2>3 DEF Unit
<1> QED
  BY <1>1, <1>2, <1>3, <1>4 DEF PlaceInv, Quiet

\* A client that closes when it has read every answer leaves nothing to be read, so
\* the thread writes nothing to the broken connection afterwards.
LEMMA PoliteStep ==
  ASSUME StreamInv, PlaceInv, HeapInv, ReplyInv, PoliteInv, Next, ~spoilt', ~spoilt
  PROVE  PoliteInv'
<1> SUFFICES ASSUME polite', ~late' PROVE PoliteInv'
  BY DEF PoliteInv
<1>1. /\ Len(stream) \in Nat /\ arrived \in 0..Len(stream) /\ read \in 0..arrived
  BY DEF StreamInv, Framed
<1>2. CASE Make \/ Collect
  BY <1>2 DEF Make, Collect, network, notices, PoliteInv
<1>3. CASE Close \/ Shutdown
  <2>1. polite /\ Answered /\ UNCHANGED <<read, pc, status, late>>
    BY <1>3 DEF Close, Shutdown, notices
  <2>2. read = Len(stream) /\ arrived = Len(stream) /\ pc \in Quiet
    BY <1>1, <2>1, AnsweredMeansRead DEF PoliteInv
  <2>3. sock' \in {"fin", "broken"}
    BY <1>3, <2>1 DEF Close, Shutdown, Answered
  <2>4. stream' = SubSeq(stream, 1, Len(stream))
    <3>1. CASE Close
      <4>1. arrived' \in arrived..Len(stream) /\ stream' = SubSeq(stream, 1, arrived')
        BY <3>1 DEF Close
      <4>2. arrived' = Len(stream)
        BY <4>1, <2>2, <1>1
      <4> QED
        BY <4>1, <4>2
    <3>2. CASE Shutdown
      BY <3>2, <2>2 DEF Shutdown
    <3> QED
      BY <3>1, <3>2, <1>3
  <2>5. Len(stream') = Len(stream)
    BY <1>1, <2>4, CutKeepsFrames DEF StreamInv
  <2> QED
    BY <2>1, <2>2, <2>3, <2>5 DEF PoliteInv
<1>4. CASE Arrive \/ Reset \/ Ended
  BY <1>4 DEF Arrive, Reset, Ended, vars, client, network, notices, PoliteInv
<1>5. CASE Notify \/ NotifyData
  <2>1. CASE NotifyData /\ pc = "ended"
    BY <2>1 DEF NotifyData, PoliteInv
  <2>2. CASE Notify \/ (NotifyData /\ pc # "ended")
    <3>1. WriteNotice /\ polite /\ UNCHANGED <<read, pc, stream>>
      BY <2>2 DEF Notify, NotifyData
    <3>2. ~late /\ sock = "open"
      BY <3>1 DEF WriteNotice
    <3>3. sock' = "open" /\ status' = status
      BY <3>1, <3>2 DEF WriteNotice, Write
    <3> QED
      BY <3>1, <3>2, <3>3 DEF PoliteInv
  <2> QED
    BY <1>5, <2>1, <2>2
<1>6. CASE SendHeader \/ SendData
  <2>1. polite /\ pc \in {"reply", "data"} /\ UNCHANGED <<read, stream, late>>
    BY <1>6 DEF SendHeader, SendData, At, notices
  <2>2. sock = "open"
    BY <2>1 DEF PoliteInv, Quiet
  <2>3. sock' = "open" /\ status' = status
    BY <1>6, <2>2 DEF SendHeader, SendData, Write
  <2> QED
    BY <2>1, <2>3 DEF PoliteInv
<1>7. CASE ReadHeader \/ ReadPayload
  <2>1. polite /\ sock = "open" /\ UNCHANGED <<sock, status, late>>
    <3>1. arrived - read > 0
      BY <1>7 DEF ReadHeader, ReadPayload, Readable
    <3>2. polite /\ UNCHANGED <<sock, status, late>>
      BY <1>7 DEF ReadHeader, ReadPayload, client, network, GoOn
    <3> QED
      BY <3>1, <3>2, <1>1 DEF PoliteInv
  <2> QED
    BY <2>1 DEF PoliteInv
<1>8. CASE EndOfFile \/ CleanUp \/ Release \/ (Hangs /\ pc = "cleanup")
  <2>1. /\ polite /\ UNCHANGED <<read, stream, sock, late>> /\ status' = status
        /\ pc' \in Quiet
    <3>1. CASE EndOfFile \/ CleanUp \/ (Hangs /\ pc = "cleanup")
      BY <3>1 DEF EndOfFile, CleanUp, Hangs, GoOn, At, Requested, Serving, client, network, Quiet
    <3>2. CASE Release
      <4>1. Usable
        BY <3>2 DEF Release, At, Usable, HeapInv, InUse
      <4> QED
        BY <3>2, <4>1 DEF Release, GoOn, client, network, Quiet
    <3> QED
      BY <3>1, <3>2, <1>8
  <2> QED
    BY <2>1 DEF PoliteInv
<1>9. CASE \/ NotLoggedIn \/ LogIn \/ Refuse \/ Grant \/ Inform \/ PassOver
           \/ (Hangs /\ pc # "cleanup")
  <2>1. polite /\ pc = "switch" /\ UNCHANGED <<sock, status, late>>
    BY <1>9 DEF NotLoggedIn, LogIn, Refuse, Grant, Inform, PassOver, Hangs, Replies, Requested,
       Serving, At, GoOn, client, network
  <2> QED
    BY <2>1 DEF PoliteInv, Quiet
<1>10. ~Misuse
  BY NothingIsMisused
<1> QED
  BY <1>2, <1>3, <1>4, <1>5, <1>6, <1>7, <1>8, <1>9, <1>10
     DEF Next, Client, Others, Service, ReadFails, PayloadFails

-------------------------------------------------------------------------------
(***************************************************************************)
(* The properties.                                                         *)
(***************************************************************************)

\* Every step keeps the whole invariant, or is the one that cuts a read short.
LEMMA SafeStep == SafeInv /\ [Next]_vars => SafeInv'
<1> SUFFICES ASSUME SafeInv, [Next]_vars, ~spoilt'
             PROVE  (StreamInv /\ PlaceInv /\ HeapInv /\ ReplyInv /\ PoliteInv)'
  BY SpoiltForGood DEF SafeInv
<1>1. ~spoilt /\ StreamInv /\ PlaceInv /\ HeapInv /\ ReplyInv /\ PoliteInv
  BY SpoiltForGood DEF SafeInv
<1>2. CASE Next
  BY <1>1, <1>2, StreamStep, PlaceStep, HeapStep, ReplyStep, PoliteStep
<1>3. CASE UNCHANGED vars
  BY <1>1, <1>3 DEF vars, StreamInv, PlaceInv, Turn, NextRequest, HeapInv, InUse, ReplyInv,
     PoliteInv
<1> QED
  BY <1>2, <1>3

\* Until a read is cut short the service loop and proto_recv_packet() stay in step with
\* the client: stream, position, payloads, answers and polite ends are as they should be.
THEOREM ServiceIsSafe == Spec => []SafeInv
BY InitSafe, SafeStep, PTL DEF Spec

\* A payload is freed once its request has been dealt with, and not again, however many
\* requests there are, before the login and after it.
THEOREM EveryPayloadIsFreedOnce == Spec => []PayloadsAreFreedOnce
<1>1. SafeInv => PayloadsAreFreedOnce
  BY DEF SafeInv, HeapInv, StreamInv, PayloadsAreFreedOnce
<1> QED
  BY <1>1, ServiceIsSafe, PTL

\* A client that has read its answers before it closes, or the server shuts it down,
\* does not end the server, unless a notice is written to it after that.
THEOREM PoliteClientsAreHarmless == Spec => []PoliteClientsDoNoHarm
<1>1. SafeInv => PoliteClientsDoNoHarm
  BY DEF SafeInv, PoliteInv, PoliteClientsDoNoHarm
<1> QED
  BY <1>1, ServiceIsSafe, PTL

-------------------------------------------------------------------------------
(***************************************************************************)
(* The contract is kept.                                                   *)
(***************************************************************************)

\* What the contract sees.
Asked == [n \in DOMAIN made |-> made[n].type]

\* A new connection has asked nothing, is not logged in and has no answers.
LEMMA ContractInit == Init => Contract!Init
<1> SUFFICES ASSUME Init PROVE Contract!Init
  OBVIOUS
<1>1. Asked = <<>>
  <2>1. made = <<>> /\ DOMAIN made = 1..0
    BY DEF Init
  <2> QED
    BY <2>1 DEF Asked
<1>2. answers = <<>> /\ LoggedIn = FALSE /\ spoilt = FALSE
  BY DEF Init, LoggedIn
<1> QED
  BY <1>1, <1>2 DEF Contract!Init, Asked, LoggedIn

\* A request is made.
LEMMA AskedGrows ==
  ASSUME NEW r \in Requests, made \in Seq(Requests), made' = Append(made, r)
  PROVE  Asked' = Append(Asked, r.type)
<1>1. /\ Len(made) \in Nat /\ DOMAIN made = 1..Len(made)
      /\ made' \in Seq(Requests) /\ Len(made') = Len(made) + 1
      /\ made'[Len(made) + 1] = r
      /\ \A i \in 1..Len(made) : made'[i] = made[i]
  <2>1. Len(made) \in Nat /\ DOMAIN made = 1..Len(made)
    OBVIOUS
  <2> QED
    BY <2>1, AppendProperties
<1>2. DOMAIN made' = 1..Len(made) + 1
  <2>1. DOMAIN made' = 1..Len(made')
    BY <1>1
  <2> QED
    BY <2>1, <1>1
<1> DEFINE T == {q.type : q \in Requests}
<1>3. Asked \in Seq(T) /\ Len(Asked) = Len(made)
  <2>1. \A i \in 1..Len(made) : made[i].type \in T
    <3>1. \A i \in 1..Len(made) : made[i] \in Requests
      OBVIOUS
    <3> QED
      BY <3>1
  <2>2. Asked = [i \in 1..Len(made) |-> made[i].type]
    BY <1>1 DEF Asked
  <2> HIDE DEF T
  <2>3. Asked \in [1..Len(made) -> T]
    BY <2>1, <2>2
  <2> QED
    BY <1>1, <2>3
<1>4. r.type \in T
  OBVIOUS
<1> HIDE DEF T
<1>5. /\ Append(Asked, r.type) \in Seq(T) /\ Len(Append(Asked, r.type)) = Len(made) + 1
      /\ Append(Asked, r.type)[Len(made) + 1] = r.type
      /\ \A i \in 1..Len(made) : Append(Asked, r.type)[i] = Asked[i]
  BY <1>3, <1>4, AppendProperties
<1>6. Append(Asked, r.type) = [i \in 1..Len(made) + 1 |-> Append(Asked, r.type)[i]]
  BY <1>5
<1>7. \A i \in 1..Len(made) + 1 : Append(Asked, r.type)[i] = made'[i].type
  <2> SUFFICES ASSUME NEW i \in 1..Len(made) + 1
               PROVE  Append(Asked, r.type)[i] = made'[i].type
    OBVIOUS
  <2>1. CASE i = Len(made) + 1
    BY <2>1, <1>1, <1>5
  <2>2. CASE i # Len(made) + 1
    <3>1. i \in 1..Len(made)
      BY <2>2, <1>1
    <3> QED
      BY <3>1, <1>1, <1>5 DEF Asked
  <2> QED
    BY <2>1, <2>2
<1>8. Asked' = [i \in 1..Len(made) + 1 |-> made'[i].type]
  BY <1>2 DEF Asked
<1> QED
  BY <1>6, <1>7, <1>8

\* The answer that is sent is one the contract allows to the request whose turn it is.
LEMMA AnswerIsAllowed ==
  ASSUME StreamInv, PlaceInv, HeapInv, ReplyInv, ~spoilt, SendHeader, status' # "killed"
  PROVE  Contract!Next \/ FalseAck
<1>1. /\ pc = "reply" /\ UNCHANGED <<made, inHdr, player, reply, spoilt>> /\ pc' # "reply"
      /\ answers' = Append(answers, [of |-> inHdr.of, what |-> reply.what])
  <2>1. pc = "reply" /\ UNCHANGED <<made, inHdr, player, reply, spoilt>>
    BY DEF SendHeader, At, thread
  <2>2. pc' = IF reply.data THEN "data" ELSE reply.then
    BY DEF SendHeader
  <2>3. pc' # "reply"
    BY <2>1, <2>2 DEF ReplyInv
  <2> QED
    BY <2>1, <2>3 DEF SendHeader, DealtWith
<1>2. /\ Turn \in 1..Len(made) /\ inHdr.of = Turn /\ inHdr.type = made[Turn].type
      /\ made \in Seq(Requests)
  BY <1>1 DEF PlaceInv, StreamInv
<1>3. Turn \in DOMAIN Asked /\ Asked[Turn] = inHdr.type /\ Asked' = Asked
  BY <1>1, <1>2 DEF Asked
<1>4. inHdr.type \in Types
  <2>1. made[Turn] \in Requests
    BY <1>2
  <2> QED
    BY <2>1, <1>2, RequestsAssumption
<1>5. Contract!Turn = Turn
  BY DEF Contract!Turn, Turn
<1>6. Contract!Answer(reply.what)
  BY <1>1, <1>2, <1>3, <1>5 DEF Contract!Answer, Asked
<1>7. LoggedIn' = player /\ player \in BOOLEAN
  BY <1>1 DEF LoggedIn, LoginIsUnanswered, HeapInv
<1>8. CASE reply.what = "nack"
  <2>1. LoggedIn' = LoggedIn
    BY <1>7, <1>8 DEF LoggedIn, LoginIsUnanswered
  <2>2. Contract!Asks(Types)
    BY <1>3, <1>4, <1>5 DEF Contract!Asks, Asked
  <2>3. ~(LoggedIn /\ Contract!Asks({"other"}))
    BY <1>1, <1>3, <1>5, <1>8 DEF Contract!Asks, Asked, LoggedIn, ReplyInv
  <2>4. Contract!Refuse
    BY <1>6, <1>8, <2>1, <2>2, <2>3 DEF Contract!Refuse, LoggedIn
  <2> QED
    BY <2>4 DEF Contract!Next
<1>9. CASE reply.what = "ack" /\ inHdr.type = "LOGIN"
  <2>1. ~LoggedIn /\ LoggedIn' = player /\ player \in BOOLEAN
    BY <1>1, <1>7, <1>9 DEF LoggedIn, LoginIsUnanswered
  <2>2. Contract!Asks({"LOGIN"})
    BY <1>3, <1>5, <1>9 DEF Contract!Asks, Asked
  <2>3. CASE player
    <3>1. Contract!LogIn
      BY <1>6, <1>9, <2>1, <2>2, <2>3 DEF Contract!LogIn, LoggedIn
    <3> QED
      BY <3>1 DEF Contract!Next
  <2>4. CASE ~player
    BY <1>6, <1>9, <2>1, <2>2, <2>4 DEF FalseAck
  <2> QED
    BY <2>1, <2>3, <2>4
<1>10. CASE reply.what = "ack" /\ inHdr.type # "LOGIN"
  <2>1. player /\ inHdr.type # "other"
    BY <1>1, <1>10 DEF ReplyInv
  <2>2. LoggedIn /\ LoggedIn' = LoggedIn
    BY <1>7, <1>10, <2>1 DEF LoggedIn, LoginIsUnanswered
  <2>3. Contract!Asks(Types \ {"LOGIN", "other"})
    BY <1>3, <1>4, <1>5, <1>10, <2>1 DEF Contract!Asks, Asked
  <2>4. Contract!Grant
    BY <1>6, <1>10, <2>2, <2>3 DEF Contract!Grant, LoggedIn
  <2> QED
    BY <2>4 DEF Contract!Next
<1> QED
  BY <1>1, <1>8, <1>9, <1>10 DEF ReplyInv

\* Every step of a connection is one of the contract, a false ACK, or leaves what the
\* contract speaks of alone.
LEMMA ContractStep ==
  SafeInv /\ [Next]_vars => [Contract!Next \/ FalseAck]_(Contract!contractVars)
<1> SUFFICES ASSUME SafeInv, [Next]_vars
             PROVE  Contract!Next \/ FalseAck \/ UNCHANGED Contract!contractVars
  OBVIOUS
<1>1. CASE spoilt
  <2>1. spoilt /\ spoilt'
    BY <1>1, SpoiltForGood DEF SafeInv
  <2> QED
    BY <2>1 DEF Contract!Next, Contract!Anything
<1>2. ASSUME ~spoilt, UNCHANGED <<made, answers, spoilt>>, LoggedIn' = LoggedIn
      PROVE  UNCHANGED Contract!contractVars
  <2>1. Asked' = Asked
    BY <1>2 DEF Asked
  <2> QED
    BY <1>2, <2>1 DEF Contract!contractVars, Asked, LoggedIn
<1>3. ASSUME ~spoilt, UNCHANGED <<made, answers>>, LoggedIn' = LoggedIn, spoilt' = TRUE
      PROVE  Contract!Next
  <2>1. Asked' = Asked
    BY <1>3 DEF Asked
  <2>2. Contract!Spoil
    BY <1>3, <2>1 DEF Contract!Spoil, Asked, LoggedIn
  <2> QED
    BY <2>2 DEF Contract!Next
<1>4. CASE ~spoilt /\ UNCHANGED vars
  <2>1. UNCHANGED <<made, answers, spoilt>> /\ LoggedIn' = LoggedIn
    BY <1>4 DEF vars, LoggedIn, LoginIsUnanswered
  <2> QED
    BY <1>2, <1>4, <2>1
<1>5. CASE ~spoilt /\ Next
  <2>1. StreamInv /\ PlaceInv /\ HeapInv /\ ReplyInv
    BY <1>5 DEF SafeInv
  <2>2. CASE Make
    <3>1. PICK r \in Requests : made' = Append(made, r)
      BY <2>2 DEF Make
    <3>2. UNCHANGED <<answers, spoilt, pc, inHdr, reply, player>> /\ made \in Seq(Requests)
      BY <2>1, <2>2 DEF Make, thread, history, StreamInv
    <3>3. Asked' = Append(Asked, r.type) /\ LoggedIn' = LoggedIn
      BY <3>1, <3>2, AskedGrows DEF LoggedIn, LoginIsUnanswered
    <3>4. r.type \in Types
      BY RequestsAssumption
    <3>5. Contract!Make(r.type)
      BY <3>2, <3>3 DEF Contract!Make, Asked, LoggedIn
    <3> QED
      BY <3>4, <3>5 DEF Contract!Next
  <2>3. CASE \/ Collect \/ Close \/ Arrive \/ Reset \/ Shutdown \/ Notify \/ NotifyData
             \/ Ended \/ Hangs \/ (SendHeader /\ status' = "killed")
    <3>1. /\ UNCHANGED <<made, answers, spoilt, inHdr, player, reply>>
          /\ pc' = pc \/ {pc, pc'} \cap {"reply"} = {}
      <4>1. CASE Collect \/ Close \/ Arrive \/ Reset \/ Shutdown \/ Notify \/ NotifyData \/ Ended
        BY <4>1 DEF Collect, Close, Arrive, Reset, Shutdown, Notify, NotifyData, Ended, vars,
           thread, history, client
      <4>3. CASE Hangs
        BY <4>3 DEF Hangs, GoOn, At, Requested, Serving, thread, history, client
      <4>2. CASE SendHeader /\ status' = "killed"
        BY <4>2 DEF SendHeader, thread
      <4> QED
        BY <2>3, <4>1, <4>2, <4>3
    <3>2. LoggedIn' = LoggedIn
      BY <3>1 DEF LoggedIn, LoginIsUnanswered
    <3> QED
      BY <1>2, <1>5, <3>1, <3>2
  <2>4. CASE \/ ReadHeader \/ ReadFails \/ EndOfFile \/ ReadPayload \/ PayloadFails
             \/ SendData \/ Release \/ CleanUp
    <3>1. UNCHANGED <<made, answers, player>> /\ {pc, pc'} \cap {"reply"} = {}
      <4>1. CASE ReadHeader \/ ReadFails \/ EndOfFile \/ ReadPayload \/ PayloadFails \/ CleanUp
        BY <4>1 DEF ReadHeader, ReadFails, EndOfFile, ReadPayload, PayloadFails, CleanUp, At,
           GoOn, client, thread, history
      <4>2. CASE SendData
        BY <4>2, <2>1 DEF SendData, At, thread, history, ReplyInv
      <4>3. CASE Release
        BY <4>3 DEF Release, At, GoOn, client, history
      <4> QED
        BY <2>4, <4>1, <4>2, <4>3
    <3>2. LoggedIn' = LoggedIn
      BY <3>1 DEF LoggedIn, LoginIsUnanswered
    <3>3. CASE spoilt'
      <4>1. spoilt' = TRUE
        <5>1. CASE ReadHeader \/ ReadPayload
          BY <5>1, <3>3, <1>5 DEF ReadHeader, ReadPayload
        <5>2. CASE ReadFails \/ PayloadFails
          BY <5>2 DEF ReadFails, PayloadFails
        <5>3. CASE EndOfFile \/ SendData \/ Release \/ CleanUp
          BY <5>3, <3>3, <1>5 DEF EndOfFile, SendData, Release, CleanUp, history
        <5> QED
          BY <2>4, <5>1, <5>2, <5>3
      <4> QED
        BY <1>3, <1>5, <3>1, <3>2, <4>1
    <3>4. CASE ~spoilt'
      <4>1. spoilt' = spoilt
        BY <3>4, <1>5, SpoiltForGood DEF SafeInv
      <4> QED
        BY <1>2, <1>5, <3>1, <3>2, <4>1
    <3> QED
      BY <3>3, <3>4
  <2>5. CASE NotLoggedIn \/ LogIn \/ Refuse \/ Grant \/ Inform
    <3>1. UNCHANGED <<made, answers, spoilt>> /\ pc = "switch" /\ pc' = "reply"
      BY <2>5 DEF NotLoggedIn, LogIn, Refuse, Grant, Inform, Replies, GoOn, At, Requested,
         Serving, client, history
    <3>2. LoggedIn' = LoggedIn
      <4>1. CASE NotLoggedIn \/ Refuse \/ Grant \/ Inform
        <5>1. player' = player /\ inHdr' = inHdr
          BY <4>1 DEF NotLoggedIn, Refuse, Grant, Inform, Replies
        <5>2. ~(inHdr.type = "LOGIN" /\ reply'.what = "ack") \/ player = FALSE
          <6>1. CASE NotLoggedIn
            BY <6>1, <2>1 DEF NotLoggedIn, HeapInv
          <6>2. CASE Refuse
            BY <6>2 DEF Refuse, Replies
          <6>3. CASE Grant \/ Inform
            BY <6>3 DEF Grant, Inform, Serving
          <6> QED
            BY <4>1, <6>1, <6>2, <6>3
        <5> QED
          BY <3>1, <5>1, <5>2 DEF LoggedIn, LoginIsUnanswered
      <4>2. CASE LogIn
        <5>1. ~player /\ LoginIsUnanswered'
          BY <4>2, <3>1 DEF LogIn, Requested, Replies, LoginIsUnanswered
        <5> QED
          BY <5>1 DEF LoggedIn
      <4> QED
        BY <2>5, <4>1, <4>2
    <3> QED
      BY <1>2, <1>5, <3>1, <3>2
  <2>6. CASE PassOver
    <3>1. /\ pc = "switch" /\ pc' = "release" /\ player /\ inHdr.type = "other"
          /\ UNCHANGED <<made, player, spoilt>>
          /\ answers' = Append(answers, [of |-> inHdr.of, what |-> "none"])
      BY <2>6, <1>5 DEF PassOver, Serving, At, GoOn, DealtWith, client, thread
    <3>2. /\ Turn \in 1..Len(made) /\ inHdr.of = Turn /\ made[Turn].type = "other"
          /\ made \in Seq(Requests)
      BY <2>1, <3>1 DEF PlaceInv, StreamInv
    <3>3. Turn \in DOMAIN Asked /\ Asked[Turn] = "other" /\ Asked' = Asked
      BY <3>1, <3>2 DEF Asked
    <3>4. LoggedIn /\ LoggedIn' = LoggedIn
      BY <3>1 DEF LoggedIn, LoginIsUnanswered
    <3>5. Contract!Turn = Turn
      BY DEF Contract!Turn, Turn
    <3>6. Contract!PassOver
      BY <3>1, <3>2, <3>3, <3>4, <3>5 DEF Contract!PassOver, Contract!Asks, Contract!Answer,
         Asked, LoggedIn
    <3> QED
      BY <3>6 DEF Contract!Next
  <2>7. CASE SendHeader /\ status' # "killed"
    BY <1>5, <2>1, <2>7, AnswerIsAllowed
  <2>8. ~Misuse
    BY <2>1, NothingIsMisused
  <2> QED
    BY <1>5, <2>2, <2>3, <2>4, <2>5, <2>6, <2>7, <2>8 DEF Next, Client, Others, Service
<1> QED
  BY <1>1, <1>4, <1>5

\* The requests are dealt with in their order, each once, with the answer the contract
\* allows; none but a login is granted before one has succeeded.  The one departure is
\* the ACK of a login that failed.
THEOREM ServiceKeepsItsContract == Spec => ImplementsServiceContract
<1>1. Init => Contract!Init
  BY ContractInit
<1>2. SafeInv /\ [Next]_vars => [Contract!Next \/ FalseAck]_(Contract!contractVars)
  BY ContractStep
<1> QED
  BY <1>1, <1>2, ServiceIsSafe, PTL DEF Spec, ImplementsServiceContract
===============================================================================
