------------------------------ MODULE WsProxyProofs ------------------------------
(***************************************************************************)
(* The relay is a pipe in each direction, for every size of the buffers    *)
(* and of what is sent.  The peers number their units, so a stretch of the *)
(* stream is known by the number it begins after; the proof follows the    *)
(* stretches from the sender, through the program and the sockets, to the  *)
(* receiver.                                                               *)
(***************************************************************************)
EXTENDS WsProxy, SequenceTheorems, TLAPS

(* s is the stretch of the stream that follows the a-th unit.              *)
From(a, s) == s \in Seq(Units) /\ \A i \in 1 .. Len(s) : s[i] = a + i

Kinds == {"data", "ping", "pong", "close"}
Frames == [kind : Kinds, data : Seq(Units)]

(* The data of the frames are adjacent stretches, from a to b; off[i] is   *)
(* where the i-th begins.  Each unit is in one of them.                    *)
Stretches(frames, off, a, b) ==
  /\ off \in [1 .. (Len(frames) + 1) -> Nat]
  /\ off[1] = a /\ off[Len(frames) + 1] = b
  /\ \A i \in 1 .. Len(frames) : /\ From(off[i], frames[i].data)
                                 /\ off[i + 1] = off[i] + Len(frames[i].data)
                                 /\ off[i + 1] <= b
  /\ \A p \in (a + 1) .. b :
       \E i \in 1 .. Len(frames) : off[i] < p /\ p <= off[i + 1]

Adjacent(frames, a, b) == \E off : Stretches(frames, off, a, b)
--------------------------------------------------------------------------------
LEMMA Shortest ==
  ASSUME NEW a \in Nat
  PROVE  From(a, <<>>) /\ Len(<<>>) = 0
BY EmptySeq DEF From

LEMMA Determined ==
  ASSUME NEW a \in Nat, NEW s, NEW t, From(a, s), From(a, t), Len(s) = Len(t)
  PROVE  s = t
BY SeqEqual DEF From

LEMMA Cuts ==
  ASSUME NEW a \in Nat, NEW s, From(a, s), NEW n \in 0 .. Len(s)
  PROVE  /\ From(a, SubSeq(s, 1, n)) /\ Len(SubSeq(s, 1, n)) = n
         /\ From(a + n, SubSeq(s, n + 1, Len(s)))
         /\ Len(SubSeq(s, n + 1, Len(s))) = Len(s) - n
<1>1. Len(s) \in Nat /\ \A i \in 1 .. Len(s) : s[i] \in Units
  BY LenProperties, ElementOfSeq DEF From
<1>2. /\ SubSeq(s, 1, n) \in Seq(Units) /\ Len(SubSeq(s, 1, n)) = n
      /\ \A i \in 1 .. n : SubSeq(s, 1, n)[i] = s[i]
  <2>1. \A i \in 1 .. n : s[i] \in Units
    BY <1>1
  <2> QED
    BY <1>1, <2>1, SubSeqProperties
<1>3. /\ SubSeq(s, n + 1, Len(s)) \in Seq(Units) /\ Len(SubSeq(s, n + 1, Len(s))) = Len(s) - n
      /\ \A i \in 1 .. (Len(s) - n) : SubSeq(s, n + 1, Len(s))[i] = s[n + i]
  <2>1. \A i \in (n + 1) .. Len(s) : s[i] \in Units
    BY <1>1
  <2>2. n + 1 \in Int /\ Len(s) \in Int
    BY <1>1
  <2>3. /\ SubSeq(s, n + 1, Len(s)) \in Seq(Units)
        /\ Len(SubSeq(s, n + 1, Len(s)))
             = IF n + 1 <= Len(s) THEN Len(s) - (n + 1) + 1 ELSE 0
        /\ \A i \in 1 .. (Len(s) - (n + 1) + 1) :
             SubSeq(s, n + 1, Len(s))[i] = s[(n + 1) + i - 1]
    BY <2>1, <2>2, SubSeqProperties
  <2> QED
    BY <1>1, <2>3
<1>4. \A i \in 1 .. (Len(s) - n) : s[n + i] = (a + n) + i
  BY <1>1 DEF From
<1> QED
  BY <1>1, <1>2, <1>3, <1>4 DEF From

LEMMA Joins ==
  ASSUME NEW a \in Nat, NEW s, NEW t, From(a, s), From(a + Len(s), t)
  PROVE  From(a, s \o t) /\ Len(s \o t) = Len(s) + Len(t)
BY LenProperties, ConcatProperties DEF From

LEMMA Grows ==
  ASSUME NEW a \in Nat, NEW s, From(a, s), NEW u \in Units, u = a + Len(s) + 1
  PROVE  From(a, Append(s, u)) /\ Len(Append(s, u)) = Len(s) + 1
BY LenProperties, AppendProperties DEF From

LEMMA Shrinks ==
  ASSUME NEW a \in Nat, NEW s, From(a, s), s # <<>>
  PROVE  /\ Head(s) \in Units /\ Head(s) = a + 1
         /\ From(a + 1, Tail(s)) /\ Len(Tail(s)) = Len(s) - 1 /\ Len(s) \in Nat \ {0}
<1>1. Len(s) \in Nat \ {0}
  BY EmptySeq DEF From
<1>2. Head(s) = s[1]
  BY DEF From
<1>3. /\ Head(s) \in Units /\ Tail(s) \in Seq(Units) /\ Len(Tail(s)) = Len(s) - 1
      /\ \A i \in 1 .. Len(Tail(s)) : Tail(s)[i] = s[i + 1]
  BY HeadTailProperties DEF From
<1>4. s[1] = a + 1 /\ \A i \in 1 .. (Len(s) - 1) : s[i + 1] = (a + 1) + i
  BY <1>1 DEF From
<1> QED
  BY <1>1, <1>2, <1>3, <1>4 DEF From

LEMMA Follows ==
  ASSUME NEW s, NEW t, From(0, s), From(Len(s), t)
  PROVE  From(0, s \o t) /\ Len(s \o t) = Len(s) + Len(t)
<1>1. 0 + Len(s) = Len(s)
  BY LenProperties DEF From
<1>2. From(0 + Len(s), t)
  BY <1>1
<1> QED
  BY <1>2, Joins

(* What has arrived of a stream is a beginning of it.                      *)
LEMMA Arrived ==
  ASSUME NEW s, NEW t, From(0, s), From(0, t), Len(t) <= Len(s)
  PROVE  Len(t) \in Nat /\ Len(s) \in Nat /\ t = SubSeq(s, 1, Len(t))
<1>1. Len(t) \in 0 .. Len(s) /\ Len(s) \in Nat
  BY LenProperties DEF From
<1>2. From(0, SubSeq(s, 1, Len(t))) /\ Len(SubSeq(s, 1, Len(t))) = Len(t)
  BY <1>1, Cuts
<1>3. PICK p : p = SubSeq(s, 1, Len(t))
  OBVIOUS
<1>4. From(0, p) /\ Len(p) = Len(t)
  BY <1>2, <1>3
<1>5. t = p
  BY <1>4, Determined
<1> QED
  BY <1>1, <1>3, <1>5
--------------------------------------------------------------------------------
LEMMA NoFrames ==
  ASSUME NEW a \in Nat
  PROVE  Adjacent(<<>>, a, a)
<1>1. Stretches(<<>>, [i \in 1 .. 1 |-> a], a, a)
  BY EmptySeq DEF Stretches
<1> QED
  BY <1>1 DEF Adjacent

LEMMA Together ==
  ASSUME NEW a, NEW b, Adjacent(<<>>, a, b)
  PROVE  a = b
<1>1. Len(<<>>) = 0
  BY EmptySeq
<1> QED
  BY <1>1 DEF Adjacent, Stretches

(* The first frame is taken.                                               *)
LEMMA TakesFrame ==
  ASSUME NEW f \in Seq(Frames), f # <<>>, NEW a \in Nat, NEW b \in Nat, Adjacent(f, a, b)
  PROVE  /\ From(a, Head(f).data) /\ Len(Head(f).data) \in Nat
         /\ a + Len(Head(f).data) <= b
         /\ Adjacent(Tail(f), a + Len(Head(f).data), b)
<1>1. PICK off : Stretches(f, off, a, b)
  BY DEF Adjacent
<1>2. /\ Len(f) \in Nat \ {0} /\ Head(f) = f[1] /\ Len(Tail(f)) = Len(f) - 1
      /\ \A i \in 1 .. Len(Tail(f)) : Tail(f)[i] = f[i + 1]
  <2>1. Len(f) \in Nat \ {0}
    BY EmptySeq
  <2>2. Head(f) = f[1]
    OBVIOUS
  <2> QED
    BY <2>1, <2>2, HeadTailProperties
<1>3. From(a, Head(f).data) /\ off[2] = a + Len(Head(f).data) /\ off[2] <= b
  <2>1. 1 \in 1 .. Len(f) /\ 1 + 1 = 2 /\ off[1] = a
    BY <1>1, <1>2 DEF Stretches
  <2>2. /\ From(off[1], f[1].data) /\ off[1 + 1] = off[1] + Len(f[1].data)
        /\ off[1 + 1] <= b
    BY <1>1, <2>1 DEF Stretches
  <2> QED
    BY <1>2, <2>1, <2>2
<1>4. Len(Head(f).data) \in Nat
  BY <1>3, LenProperties DEF From
<1> DEFINE o == [i \in 1 .. Len(f) |-> off[i + 1]]
<1>5. Stretches(Tail(f), o, a + Len(Head(f).data), b)
  <2>1. o \in [1 .. (Len(Tail(f)) + 1) -> Nat]
    BY <1>1, <1>2 DEF Stretches
  <2>2. o[1] = a + Len(Head(f).data) /\ o[Len(Tail(f)) + 1] = b
    BY <1>1, <1>2, <1>3 DEF Stretches
  <2>3. ASSUME NEW i \in 1 .. Len(Tail(f))
        PROVE  /\ From(o[i], Tail(f)[i].data)
               /\ o[i + 1] = o[i] + Len(Tail(f)[i].data)
               /\ o[i + 1] <= b
    <3>1. i + 1 \in 1 .. Len(f) /\ Tail(f)[i] = f[i + 1]
      BY <1>2
    <3> QED
      BY <1>1, <1>2, <3>1 DEF Stretches
  <2>4. ASSUME NEW p \in (a + Len(Head(f).data) + 1) .. b
        PROVE  \E i \in 1 .. Len(Tail(f)) : o[i] < p /\ p <= o[i + 1]
    <3>1. p \in (a + 1) .. b
      BY <1>4
    <3>2. PICK j \in 1 .. Len(f) : off[j] < p /\ p <= off[j + 1]
      BY <1>1, <3>1 DEF Stretches
    <3>3. j # 1
      <4>1. ~(p <= off[1 + 1])
        BY <1>3, <1>4
      <4> QED
        BY <3>2, <4>1
    <3>4. /\ j - 1 \in 1 .. Len(Tail(f)) /\ j - 1 \in 1 .. Len(f) /\ (j - 1) + 1 = j
          /\ j \in 1 .. Len(f)
      BY <1>2, <3>3
    <3>5. o[j - 1] = off[j] /\ o[(j - 1) + 1] = off[j + 1]
      BY <3>4
    <3> QED
      BY <3>2, <3>4, <3>5
  <2> QED
    BY <2>1, <2>2, <2>3, <2>4 DEF Stretches
<1> QED
  BY <1>3, <1>4, <1>5 DEF Adjacent

(* A frame is added.                                                       *)
LEMMA AddsFrame ==
  ASSUME NEW f \in Seq(Frames), NEW g \in Frames, NEW a \in Nat, NEW b \in Nat,
         Adjacent(f, a, b), From(b, g.data)
  PROVE  /\ Append(f, g) \in Seq(Frames)
         /\ Len(g.data) \in Nat
         /\ Adjacent(Append(f, g), a, b + Len(g.data))
<1>1. PICK off : Stretches(f, off, a, b)
  BY DEF Adjacent
<1>2. /\ Append(f, g) \in Seq(Frames) /\ Len(f) \in Nat /\ Len(Append(f, g)) = Len(f) + 1
      /\ \A i \in 1 .. Len(f) : Append(f, g)[i] = f[i]
      /\ Append(f, g)[Len(f) + 1] = g
  BY LenProperties, AppendProperties
<1>3. Len(g.data) \in Nat
  BY LenProperties DEF From
<1> DEFINE n == Len(f)
           o == [i \in 1 .. (n + 2) |-> IF i = n + 2 THEN b + Len(g.data) ELSE off[i]]
<1>4. Stretches(Append(f, g), o, a, b + Len(g.data))
  <2>1. o \in [1 .. (n + 2) -> Nat]
    BY <1>1, <1>2, <1>3 DEF Stretches
  <2>2. o[1] = a /\ o[n + 2] = b + Len(g.data)
    BY <1>1, <1>2 DEF Stretches
  <2>3. ASSUME NEW i \in 1 .. n
        PROVE  /\ From(o[i], f[i].data) /\ o[i + 1] = o[i] + Len(f[i].data)
               /\ o[i + 1] <= b + Len(g.data)
    <3>1. i \in 1 .. (n + 1) /\ i + 1 \in 1 .. (n + 1) /\ i # n + 2 /\ i + 1 # n + 2
      BY <1>2
    <3>2. o[i] = off[i] /\ o[i + 1] = off[i + 1] /\ off[i + 1] \in Nat
      <4>1. off \in [1 .. (n + 1) -> Nat]
        BY <1>1 DEF Stretches
      <4> QED
        BY <1>2, <3>1, <4>1
    <3>3. /\ From(off[i], f[i].data) /\ off[i + 1] = off[i] + Len(f[i].data)
          /\ off[i + 1] <= b
      BY <1>1 DEF Stretches
    <3> QED
      BY <1>3, <3>2, <3>3
  <2>4. From(o[n + 1], g.data) /\ o[n + 2] = o[n + 1] + Len(g.data)
    BY <1>1, <1>2, <1>3 DEF Stretches
  <2> HIDE DEF o
  <2>5. ASSUME NEW i \in 1 .. (n + 1)
        PROVE  /\ From(o[i], Append(f, g)[i].data)
               /\ o[i + 1] = o[i] + Len(Append(f, g)[i].data)
               /\ o[i + 1] <= b + Len(g.data)
    <3>1. CASE i \in 1 .. n
      BY <1>2, <2>3, <3>1
    <3>2. CASE i = n + 1
      BY <1>2, <1>3, <2>2, <2>4, <3>2
    <3> QED
      BY <1>2, <3>1, <3>2
  <2>6. ASSUME NEW p \in (a + 1) .. (b + Len(g.data))
        PROVE  \E i \in 1 .. (n + 1) : o[i] < p /\ p <= o[i + 1]
    <3>1. CASE p <= b
      <4>1. p \in (a + 1) .. b
        BY <1>3, <3>1
      <4>2. PICK i \in 1 .. n : off[i] < p /\ p <= off[i + 1]
        BY <1>1, <4>1 DEF Stretches
      <4>3. /\ i \in 1 .. (n + 1) /\ i + 1 \in 1 .. (n + 1)
            /\ i \in 1 .. (n + 2) /\ i + 1 \in 1 .. (n + 2)
            /\ i # n + 2 /\ i + 1 # n + 2
        BY <1>2
      <4>4. o[i] = off[i] /\ o[i + 1] = off[i + 1]
        BY <4>3 DEF o
      <4> QED
        BY <4>2, <4>3, <4>4
    <3>2. CASE p > b
      <4>1. n + 1 \in 1 .. (n + 1) /\ n + 1 \in 1 .. (n + 2) /\ n + 1 # n + 2
            /\ (n + 1) + 1 = n + 2
        BY <1>2
      <4>2. o[n + 1] = b /\ o[n + 2] = b + Len(g.data)
        BY <1>1, <2>2, <4>1 DEF Stretches, o
      <4> QED
        BY <1>3, <3>2, <4>1, <4>2
    <3> QED
      BY <1>3, <3>1, <3>2
  <2> QED
    BY <1>2, <2>1, <2>2, <2>5, <2>6 DEF Stretches
<1> QED
  BY <1>2, <1>3, <1>4 DEF Adjacent
--------------------------------------------------------------------------------
(***************************************************************************)
(* The invariant.                                                          *)
(***************************************************************************)
UpPlaces == {"read", "lock", "send", "lockClose", "close", "done", "over"}
DownPlaces == {"next", "write", "lockPong", "pong", "lockClose", "close", "over"}

WsType == [closes : SUBSET {"sent", "received"}, broken : BOOLEAN,
              out : Seq(Frames), in : Seq(Frames), pings : 0 .. MaxPings]
ToTcpType == [sent : Seq(Units), closed : BOOLEAN, got : Seq(Units), end : Ends]

TypeInv ==
  /\ up \in [at : UpPlaces, hand : Seq(Units)]
  /\ down \in [at : DownPlaces, hand : Seq(Units)]
  /\ lock \in {"free", "up", "down"} /\ result \in {"none", "ok", "err"}
  /\ ws \in WsType
  /\ tcp \in [in : Seq(Units), out : Seq(Units), end : {"open", "fin", "reset"}]
  /\ toWs \in [sent : Seq(Units), got : Seq(Units), end : Ends]
  /\ toTcp \in ToTcpType

BoundsInv ==
  Len(up.hand) <= BufSize /\ Len(ws.out) <= WireCap /\ Len(tcp.out) <= WireCap

(* A Close is the last frame each way.                                     *)
CloseInv ==
  /\ \A i \in 1 .. Len(ws.out) : ws.out[i].kind = "close" =>
       i = Len(ws.out) /\ ws.out[i].data = <<>> /\ "sent" \in ws.closes
  /\ \A i \in 1 .. Len(ws.in) :
       /\ ws.in[i].kind = "data" <=> ws.in[i].data # <<>>
       /\ ws.in[i].kind = "close" => i = Len(ws.in) /\ toTcp.closed

(* The writer is used by its owner, and not after a Close.                 *)
LockInv ==
  /\ up.at = "send" => lock = "up" /\ "sent" \notin ws.closes
  /\ up.at = "close" => lock = "up"
  /\ down.at = "pong" => lock = "down" /\ "sent" \notin ws.closes
  /\ down.at = "close" => lock = "down"
  /\ "received" \in ws.closes => toTcp.closed
  /\ ~Running => up = [at |-> "over", hand |-> <<>>] /\ down = [at |-> "over", hand |-> <<>>]

(* The TCP stream is over and all of it is on its way.                     *)
AllSent ==
  up.at \in {"lockClose", "close"} \/ ("sent" \in ws.closes /\ ~toTcp.closed)

(* Up to the m-th unit the stream has arrived or is in frames; what follows*)
(* is in the buffer, then in the socket.                                   *)
UpTo(m) ==
  /\ Adjacent(ws.out, Len(toWs.got), m) /\ m <= Len(toWs.sent)
  /\ Running => From(m, up.hand) /\ m + Len(up.hand) <= Len(toWs.sent)
  /\ Running /\ tcp.end # "reset" =>
       /\ From(m + Len(up.hand), tcp.in)
       /\ m + Len(up.hand) + Len(tcp.in) = Len(toWs.sent)
  /\ AllSent => m = Len(toWs.sent)

UpInv ==
  /\ From(0, toWs.sent) /\ From(0, toWs.got)
  /\ tcp.end = "reset" => tcp.in = <<>>
  /\ AllSent => tcp.end # "open"
  /\ up.at \notin {"lock", "send"} => up.hand = <<>>
  /\ ws.broken => ws.out = <<>>
  /\ toWs.end # "open" => ws.out = <<>> /\ (ws.broken \/ "sent" \in ws.closes)
  /\ ~ws.broken => \E m \in Nat : UpTo(m)

(* The same for the other direction, where the stream is complete once the *)
(* Close has been taken.                                                   *)
DownAt(n) ==
  /\ n = Len(toTcp.got) + Len(tcp.out)
  /\ From(Len(toTcp.got), tcp.out)
  /\ n + Len(down.hand) <= Len(toTcp.sent)
  /\ Running => /\ From(n, down.hand)
                /\ Adjacent(ws.in, n + Len(down.hand), Len(toTcp.sent))
  /\ result = "ok" => n = Len(toTcp.sent) /\ toTcp.closed

DownInv ==
  /\ From(0, toTcp.sent) /\ From(0, toTcp.got)
  /\ down.at = "write" <=> down.hand # <<>>
  /\ down.at \in {"lockClose", "close"} => ws.in = <<>> /\ toTcp.closed
  /\ tcp.end = "reset" => tcp.out = <<>> /\ toTcp.end # "open"
  /\ toTcp.end # "open" => tcp.out = <<>> /\ (~Running \/ tcp.end = "reset")
  /\ tcp.end # "reset" => \E n \in Nat : DownAt(n)

IInv == TypeInv /\ BoundsInv /\ CloseInv /\ LockInv /\ UpInv /\ DownInv
--------------------------------------------------------------------------------
LEMMA Lengths ==
  ASSUME TypeInv
  PROVE  /\ {up.hand, down.hand, tcp.in, tcp.out, toWs.sent, toWs.got, toTcp.sent, toTcp.got}
              \subseteq Seq(Units)
         /\ Len(up.hand) \in Nat /\ Len(down.hand) \in Nat
         /\ Len(tcp.in) \in Nat /\ Len(tcp.out) \in Nat
         /\ Len(toWs.sent) \in Nat /\ Len(toWs.got) \in Nat
         /\ Len(toTcp.sent) \in Nat /\ Len(toTcp.got) \in Nat
         /\ ws.out \in Seq(Frames) /\ ws.in \in Seq(Frames)
         /\ Len(ws.out) \in Nat /\ Len(ws.in) \in Nat
<1>1. \A S : \A s \in Seq(S) : Len(s) \in Nat
  BY LenProperties
<1>2. /\ {up.hand, down.hand, tcp.in, tcp.out, toWs.sent, toWs.got, toTcp.sent, toTcp.got}
           \subseteq Seq(Units)
      /\ ws.out \in Seq(Frames) /\ ws.in \in Seq(Frames)
  BY DEF TypeInv, WsType, ToTcpType
<1> QED
  BY <1>1, <1>2

LEMMA InitInv == Init => IInv
<1> SUFFICES ASSUME Init PROVE IInv
  OBVIOUS
<1> USE ProxyAssumption DEF ProxyAssumption, Init, Running
<1>1. <<>> \in Seq(Units) /\ <<>> \in Seq(Frames) /\ Len(<<>>) = 0
  BY EmptySeq
<1>2. TypeInv
  BY <1>1 DEF TypeInv, WsType, ToTcpType, UpPlaces, DownPlaces, Ends
<1>3. BoundsInv /\ CloseInv /\ LockInv
  BY <1>1 DEF BoundsInv, CloseInv, LockInv
<1>4. From(0, <<>>) /\ Adjacent(<<>>, 0, 0)
  BY Shortest, NoFrames
<1>5. UpInv
  <2>1. UpTo(0)
    BY <1>1, <1>4 DEF UpTo, AllSent
  <2> QED
    BY <1>4, <2>1 DEF UpInv, AllSent
<1>6. DownInv
  <2>1. DownAt(0)
    BY <1>1, <1>4 DEF DownAt
  <2> QED
    BY <1>1, <1>4, <2>1 DEF DownInv
<1> QED
  BY <1>2, <1>3, <1>5, <1>6 DEF IInv
--------------------------------------------------------------------------------
(***************************************************************************)
(* Steps that leave the stream to the WebSocket where it is, and those     *)
(* that only add a control frame.                                          *)
(***************************************************************************)
LEMMA UpMoves ==
  ASSUME UpInv, toWs' = toWs, tcp'.in = tcp.in, tcp'.end = tcp.end,
         ws'.out = ws.out, ws'.broken = ws.broken,
         "sent" \in ws.closes => "sent" \in ws'.closes,
         \/ result' = result /\ up'.hand = up.hand
         \/ result' # "none" /\ up'.hand = <<>>,
         up'.at \notin {"lock", "send"} => up'.hand = <<>>,
         AllSent' => AllSent
  PROVE  UpInv'
<1>1. ASSUME NEW m \in Nat, UpTo(m) PROVE UpTo(m)'
  BY <1>1 DEF UpTo, Running
<1> QED
  BY <1>1 DEF UpInv

LEMMA UpAddsControl ==
  ASSUME UpInv, TypeInv, toWs' = toWs, tcp'.in = tcp.in, tcp'.end = tcp.end,
         NEW kind \in Kinds, ws'.out = Append(ws.out, Control(kind)),
         ~ws.broken, ws'.broken = ws.broken, "sent" \notin ws.closes,
         \/ result' = result /\ up'.hand = up.hand
         \/ result' # "none" /\ up'.hand = <<>>,
         up'.at \notin {"lock", "send"} => up'.hand = <<>>,
         AllSent' => AllSent
  PROVE  UpInv'
<1>1. ASSUME NEW m \in Nat, UpTo(m) PROVE UpTo(m)'
  <2>1. /\ ws.out \in Seq(Frames) /\ Control(kind) \in Frames /\ Control(kind).data = <<>>
        /\ Len(toWs.got) \in Nat /\ m + 0 = m
    BY EmptySeq, LenProperties DEF TypeInv, WsType, ToTcpType, Frames, Control, Frame
  <2>2. Adjacent(Append(ws.out, Control(kind)), Len(toWs.got), m)
    <3>1. From(m, Control(kind).data) /\ Len(Control(kind).data) = 0
      BY <2>1, Shortest
    <3>2. Adjacent(ws.out, Len(toWs.got), m)
      BY <1>1 DEF UpTo
    <3>3. Adjacent(Append(ws.out, Control(kind)), Len(toWs.got), m + 0)
      BY <2>1, <3>1, <3>2, AddsFrame
    <3> QED
      BY <2>1, <3>3
  <2> QED
    BY <1>1, <2>2 DEF UpTo, Running
<1> QED
  BY <1>1 DEF UpInv

(* Steps that leave the other stream where it is.                          *)
LEMMA DownMoves ==
  ASSUME DownInv, toTcp' = toTcp, tcp'.out = tcp.out, ws'.in = ws.in, result' = result,
         tcp'.end = "reset" <=> tcp.end = "reset",
         down'.hand = down.hand, down'.at = "write" <=> down.at = "write",
         down'.at \in {"lockClose", "close"} => down.at \in {"lockClose", "close"}
  PROVE  DownInv'
<1>1. ASSUME NEW n \in Nat, DownAt(n) PROVE DownAt(n)'
  BY <1>1 DEF DownAt, Running
<1> QED
  BY <1>1 DEF DownInv, Running

(* The relay fails.                                                        *)
LEMMA Failure ==
  ASSUME IInv, Running, Return("err"), UNCHANGED <<ws, tcp, toWs, toTcp>>
  PROVE  IInv'
<1> USE DEF Return
<1>0. Len(<<>>) = 0 /\ <<>> \in Seq(Units)
  BY EmptySeq
<1>1. TypeInv' /\ BoundsInv'
  BY <1>0, ProxyAssumption
  DEF IInv, TypeInv, WsType, ToTcpType, BoundsInv, UpPlaces, DownPlaces, ProxyAssumption
<1>2. CloseInv' /\ LockInv'
  BY DEF IInv, CloseInv, LockInv
<1>3. UpInv'
  BY UpMoves DEF IInv, AllSent
<1>4. DownInv'
  <2>1. ASSUME NEW n \in Nat, DownAt(n) PROVE DownAt(n)'
    <3>1. n <= Len(toTcp.sent)
      <4>1. n + Len(down.hand) <= Len(toTcp.sent)
        BY <2>1 DEF DownAt
      <4> QED
        BY <4>1, Lengths DEF IInv
    <3>2. Len(down'.hand) = 0 /\ n + 0 = n
      BY <1>0
    <3> QED
      BY <2>1, <3>1, <3>2 DEF DownAt, Running
  <2> QED
    BY <2>1 DEF IInv, DownInv, Running
<1> QED
  BY <1>1, <1>2, <1>3, <1>4 DEF IInv
--------------------------------------------------------------------------------
(* What the WebSocket peer sends in one message.                           *)
LEMMA NextUnits ==
  ASSUME TypeInv, NEW n \in 1 .. 2, Len(toTcp.sent) + n <= MaxUnits,
         NEW data, data = [i \in 1 .. n |-> Len(toTcp.sent) + i]
  PROVE  data \in Seq(Units) /\ data # <<>> /\ Len(data) = n /\ From(Len(toTcp.sent), data)
<1>1. Len(toTcp.sent) \in Nat
  BY Lengths
<1>2. data \in [1 .. n -> Units]
  BY <1>1, ProxyAssumption DEF Units, ProxyAssumption
<1>3. data \in Seq(Units)
  BY <1>2, SeqDef
<1>4. Len(data) = n
  BY <1>2, <1>3, LenProperties
<1>5. data # <<>>
  BY <1>4, EmptySeq
<1> QED
  BY <1>3, <1>4, <1>5 DEF From

LEMMA FramesAreFrames ==
  /\ \A kind \in Kinds : Control(kind) \in Frames /\ Control(kind).kind = kind
                         /\ Control(kind).data = <<>>
  /\ \A data \in Seq(Units) : Frame("data", data) \in Frames
                              /\ Frame("data", data).kind = "data"
                              /\ Frame("data", data).data = data
BY EmptySeq DEF Control, Frame, Frames, Kinds

(* Where a Close may go, and what send() and close() add.                  *)
LEMMA Closes ==
  ASSUME TypeInv, BoundsInv, SendClose
  PROVE  \/ ws' = ws /\ (ws.broken \/ "sent" \in ws.closes)
         \/ /\ ~ws.broken /\ "sent" \notin ws.closes
            /\ ws' = [ws EXCEPT !.out = Append(ws.out, Control("close")),
                                !.closes = ws.closes \cup {"sent"}]
            /\ Append(ws.out, Control("close")) \in Seq(Frames)
            /\ Len(Append(ws.out, Control("close"))) <= WireCap
<1>1. Control("close") \in Frames /\ ws.out \in Seq(Frames) /\ Len(ws.out) \in Nat
  BY FramesAreFrames, Lengths DEF Kinds
<1>2. /\ Append(ws.out, Control("close")) \in Seq(Frames)
      /\ Len(Append(ws.out, Control("close"))) = Len(ws.out) + 1
  BY <1>1, AppendProperties
<1> QED
  BY <1>1, <1>2, ProxyAssumption DEF SendClose, ProxyAssumption

LEMMA CloseTypes ==
  ASSUME TypeInv, BoundsInv, SendClose
  PROVE  /\ ws' \in WsType
         /\ Len(ws'.out) <= WireCap
         /\ "received" \in ws'.closes <=> "received" \in ws.closes
<1>1. CASE ws' = ws
  BY <1>1 DEF TypeInv, WsType, ToTcpType, BoundsInv
<1>2. CASE /\ ws' = [ws EXCEPT !.out = Append(ws.out, Control("close")),
                               !.closes = ws.closes \cup {"sent"}]
           /\ Append(ws.out, Control("close")) \in Seq(Frames)
           /\ Len(Append(ws.out, Control("close"))) <= WireCap
  BY <1>2 DEF TypeInv, WsType, ToTcpType
<1> QED
  BY <1>1, <1>2, Closes

LEMMA Sends ==
  ASSUME TypeInv, BoundsInv, NEW frame \in Frames, Send(frame)
  PROVE  /\ ~ws.broken /\ ws' = [ws EXCEPT !.out = Append(ws.out, frame)]
         /\ Append(ws.out, frame) \in Seq(Frames)
         /\ Len(Append(ws.out, frame)) <= WireCap
<1>1. ws.out \in Seq(Frames) /\ Len(ws.out) \in Nat
  BY Lengths
<1>2. /\ Append(ws.out, frame) \in Seq(Frames)
      /\ Len(Append(ws.out, frame)) = Len(ws.out) + 1
  BY <1>1, AppendProperties
<1> QED
  BY <1>1, <1>2, ProxyAssumption DEF Send, ProxyAssumption

LEMMA TypeStep == IInv /\ Next => TypeInv' /\ BoundsInv'
<1> SUFFICES ASSUME IInv, Next PROVE TypeInv' /\ BoundsInv'
  OBVIOUS
<1> USE DEF IInv
<1>0. /\ <<>> \in Seq(Units) /\ Len(<<>>) = 0 /\ Len(<<>>) <= BufSize /\ Len(<<>>) <= WireCap
      /\ <<>> \in Seq(Frames)
  BY EmptySeq, ProxyAssumption DEF ProxyAssumption
<1>1. CASE UpRead
  <2>1. PICK n \in 1 .. Len(tcp.in) :
          /\ n <= BufSize
          /\ up' = [at |-> "lock", hand |-> SubSeq(tcp.in, 1, n)]
          /\ tcp' = [tcp EXCEPT !.in = SubSeq(tcp.in, n + 1, Len(tcp.in))]
    BY <1>1 DEF UpRead
  <2>2. tcp.in \in Seq(Units) /\ Len(tcp.in) \in Nat
    BY Lengths
  <2>3. \A i \in 1 .. Len(tcp.in) : tcp.in[i] \in Units
    BY <2>2, ElementOfSeq
  <2>4. SubSeq(tcp.in, 1, n) \in Seq(Units) /\ Len(SubSeq(tcp.in, 1, n)) = n
    <3>1. \A i \in 1 .. n : tcp.in[i] \in Units
      BY <2>2, <2>3
    <3> QED
      BY <2>2, <3>1, SubSeqProperties
  <2>5. SubSeq(tcp.in, n + 1, Len(tcp.in)) \in Seq(Units)
    <3>1. \A i \in (n + 1) .. Len(tcp.in) : tcp.in[i] \in Units
      BY <2>2, <2>3
    <3> QED
      BY <2>2, <3>1, SubSeqProperties
  <2> QED
    BY <1>1, <2>1, <2>4, <2>5 DEF UpRead, TypeInv, WsType, ToTcpType, BoundsInv, UpPlaces
<1>2. CASE UpReadEof \/ UpLock \/ DownLock
  <2>1. /\ UNCHANGED <<result, tcp, toWs, toTcp, ws>> /\ lock' \in {lock, "up", "down"}
        /\ up' \in [at : UpPlaces, hand : Seq(Units)] /\ up'.hand = up.hand
        /\ down' \in [at : DownPlaces, hand : Seq(Units)]
    <3>1. CASE UpReadEof
      BY <3>1 DEF UpReadEof, TypeInv, WsType, ToTcpType, UpPlaces
    <3>2. CASE UpLock
      BY <3>2 DEF UpLock, Lock, TypeInv, WsType, ToTcpType, UpPlaces
    <3>3. CASE DownLock
      BY <3>3 DEF DownLock, Lock, TypeInv, WsType, ToTcpType, DownPlaces
    <3> QED
      BY <1>2, <3>1, <3>2, <3>3
  <2> QED
    BY <2>1 DEF TypeInv, WsType, ToTcpType, BoundsInv
<1>3. CASE UpSend
  <2>1. Send(Frame("data", up.hand)) /\ Frame("data", up.hand) \in Frames
    BY <1>3, FramesAreFrames DEF UpSend, TypeInv, WsType, ToTcpType
  <2> QED
    BY <1>0, <1>3, <2>1, Sends DEF UpSend, TypeInv, WsType, ToTcpType, BoundsInv, UpPlaces
<1>4. CASE UpClose
  <2>1. /\ ws' \in WsType
        /\ Len(ws'.out) <= WireCap
    BY <1>4, CloseTypes DEF UpClose
  <2> QED
    BY <1>4, <2>1 DEF UpClose, TypeInv, WsType, ToTcpType, BoundsInv, UpPlaces
<1>5. CASE UpFails \/ DownFails
  <2>1. Running
    BY <1>5 DEF UpFails, DownFails, LockInv
  <2> QED
    BY <1>5, <2>1, Failure DEF UpFails, DownFails
<1>6. CASE DownNext
  <2>1. /\ ws.in \in Seq(Frames) /\ Head(ws.in) \in Frames /\ Tail(ws.in) \in Seq(Frames)
    BY <1>6, Lengths, HeadTailProperties DEF DownNext
  <2>2. /\ ws'.in = Tail(ws.in) /\ ws'.out = ws.out /\ ws' \in WsType
        /\ down' \in [at : DownPlaces, hand : Seq(Units)]
    <3>1. CASE /\ down' = [at |-> "write", hand |-> Head(ws.in).data]
               /\ ws' = [ws EXCEPT !.in = Tail(ws.in)]
      BY <2>1, <3>1 DEF TypeInv, WsType, DownPlaces, Frames
    <3>2. CASE /\ down' = [down EXCEPT !.at = "lockPong"]
               /\ ws' = [ws EXCEPT !.in = Tail(ws.in)]
      BY <2>1, <3>2 DEF TypeInv, WsType, DownPlaces
    <3>3. CASE /\ down' = [down EXCEPT !.at = "lockClose"]
               /\ ws' = [ws EXCEPT !.in = Tail(ws.in),
                                  !.closes = ws.closes \cup {"received"}]
      BY <2>1, <3>3 DEF TypeInv, WsType, DownPlaces
    <3> QED
      BY <1>6, <3>1, <3>2, <3>3 DEF DownNext
  <2> QED
    BY <1>6, <2>2 DEF DownNext, TypeInv, BoundsInv
<1>7. CASE DownWrite
  <2>1. /\ down.hand # <<>> /\ down.hand \in Seq(Units)
        /\ tcp.out \in Seq(Units) /\ Len(tcp.out) \in Nat /\ Len(tcp.out) < WireCap
    BY <1>7, Lengths DEF DownWrite, CanWrite, DownInv
  <2>2. Head(down.hand) \in Units /\ Tail(down.hand) \in Seq(Units)
    BY <2>1, HeadTailProperties
  <2>3. /\ Append(tcp.out, Head(down.hand)) \in Seq(Units)
        /\ Len(Append(tcp.out, Head(down.hand))) <= WireCap
    BY <2>1, <2>2, AppendProperties, ProxyAssumption DEF ProxyAssumption
  <2> QED
    BY <1>7, <2>2, <2>3 DEF DownWrite, TypeInv, WsType, ToTcpType, BoundsInv, DownPlaces
<1>8. CASE DownPong
  <2>1. Send(Control("pong")) /\ Control("pong") \in Frames
    BY <1>8, FramesAreFrames DEF DownPong, Kinds
  <2> QED
    BY <1>8, <2>1, Sends DEF DownPong, TypeInv, WsType, ToTcpType, BoundsInv, DownPlaces
<1>9. CASE DownClose
  <2>1. /\ ws' \in WsType
        /\ Len(ws'.out) <= WireCap
    BY <1>9, CloseTypes DEF DownClose
  <2> QED
    BY <1>0, <1>9, <2>1
    DEF DownClose, Return, TypeInv, WsType, ToTcpType, BoundsInv, UpPlaces, DownPlaces
<1>10. CASE TcpPeerSends
  <2>1. Len(toWs.sent) + 1 \in Units /\ toWs.sent \in Seq(Units) /\ tcp.in \in Seq(Units)
    BY <1>10, Lengths, ProxyAssumption DEF TcpPeerSends, Units, ProxyAssumption
  <2>2. /\ Append(toWs.sent, Len(toWs.sent) + 1) \in Seq(Units)
        /\ Append(tcp.in, Len(toWs.sent) + 1) \in Seq(Units)
    BY <2>1, AppendProperties
  <2> QED
    BY <1>10, <2>2 DEF TcpPeerSends, relay, TypeInv, WsType, ToTcpType, BoundsInv
<1>11. CASE TcpPeerEnds
  BY <1>11 DEF TcpPeerEnds, relay, TypeInv, WsType, ToTcpType, BoundsInv
<1>17. CASE TcpReset
  <2>1. toTcp' \in ToTcpType
    BY <1>17 DEF TcpReset, Cut, TypeInv, WsType, ToTcpType, Ends
  <2> QED
    BY <1>0, <1>17, <2>1 DEF TcpReset, relay, TypeInv, WsType, ToTcpType, BoundsInv
<1>12. CASE TcpPeerReads
  <2>1. tcp.out \in Seq(Units) /\ toTcp.got \in Seq(Units) /\ tcp.out # <<>>
    BY <1>12, Lengths DEF TcpPeerReads
  <2>2. /\ Head(tcp.out) \in Units /\ Tail(tcp.out) \in Seq(Units)
        /\ Len(Tail(tcp.out)) = Len(tcp.out) - 1
    BY <2>1, HeadTailProperties
  <2>3. Append(toTcp.got, Head(tcp.out)) \in Seq(Units)
    BY <2>1, <2>2, AppendProperties
  <2>4. Len(Tail(tcp.out)) <= WireCap
    BY <2>2, Lengths, ProxyAssumption DEF BoundsInv, ProxyAssumption
  <2> QED
    BY <1>12, <2>2, <2>3, <2>4 DEF TcpPeerReads, relay, TypeInv, WsType, ToTcpType, BoundsInv
<1>13. CASE TcpPeerSeesEnd
  BY <1>13 DEF TcpPeerSeesEnd, relay, TypeInv, WsType, ToTcpType, BoundsInv, Ends
<1>14. CASE WsPeerSends
  <2>1. ws.in \in Seq(Frames) /\ toTcp.sent \in Seq(Units) /\ Len(toTcp.sent) \in Nat
    BY Lengths
  <2>2. ASSUME NEW n \in 1 .. 2, Len(toTcp.sent) + n <= MaxUnits
        PROVE  LET data == [i \in 1 .. n |-> Len(toTcp.sent) + i] IN
               /\ data \in Seq(Units) /\ toTcp.sent \o data \in Seq(Units)
               /\ Append(ws.in, Frame("data", data)) \in Seq(Frames)
    <3> DEFINE data == [i \in 1 .. n |-> Len(toTcp.sent) + i]
    <3>1. data \in Seq(Units)
      BY <2>2, NextUnits
    <3> HIDE DEF data
    <3>2. toTcp.sent \o data \in Seq(Units)
      BY <2>1, <3>1, ConcatProperties
    <3>3. Append(ws.in, Frame("data", data)) \in Seq(Frames)
      BY <2>1, <3>1, FramesAreFrames, AppendProperties
    <3> QED
      BY <3>1, <3>2, <3>3 DEF data
  <2>3. /\ Append(ws.in, Control("ping")) \in Seq(Frames)
        /\ Append(ws.in, Control("close")) \in Seq(Frames)
    BY <2>1, FramesAreFrames, AppendProperties DEF Kinds
  <2>4. ws' \in WsType /\ ws'.out = ws.out /\ toTcp' \in ToTcpType
    <3>1. ASSUME NEW n \in 1 .. 2, Len(toTcp.sent) + n <= MaxUnits,
                 NEW data \in Seq(Units), toTcp.sent \o data \in Seq(Units),
                 Append(ws.in, Frame("data", data)) \in Seq(Frames),
                 toTcp' = [toTcp EXCEPT !.sent = toTcp.sent \o data],
                 ws' = [ws EXCEPT !.in = Append(ws.in, Frame("data", data))]
          PROVE  ws' \in WsType /\ ws'.out = ws.out /\ toTcp' \in ToTcpType
      BY <3>1 DEF TypeInv, WsType, ToTcpType
    <3>2. ASSUME ws.pings < MaxPings, toTcp' = toTcp,
                 ws' = [ws EXCEPT !.in = Append(ws.in, Control("ping")),
                                  !.pings = ws.pings + 1]
          PROVE  ws' \in WsType /\ ws'.out = ws.out /\ toTcp' \in ToTcpType
      <4>1. ws.pings + 1 \in 0 .. MaxPings
        BY <3>2, ProxyAssumption DEF TypeInv, WsType, ProxyAssumption
      <4> QED
        BY <2>3, <3>2, <4>1 DEF TypeInv, WsType
    <3>3. ASSUME toTcp' = [toTcp EXCEPT !.closed = TRUE],
                 ws' = [ws EXCEPT !.in = Append(ws.in, Control("close"))]
          PROVE  ws' \in WsType /\ ws'.out = ws.out /\ toTcp' \in ToTcpType
      BY <2>3, <3>3 DEF TypeInv, WsType, ToTcpType
    <3> QED
      BY <1>14, <2>2, <3>1, <3>2, <3>3 DEF WsPeerSends
  <2> QED
    BY <1>14, <2>4 DEF WsPeerSends, relay, TypeInv, WsType, ToTcpType, BoundsInv
<1>15. CASE WsPeerReads
  <2>1. ws.out \in Seq(Frames) /\ ws.out # <<>> /\ toWs.got \in Seq(Units)
    BY <1>15, Lengths DEF WsPeerReads
  <2>2. /\ Head(ws.out) \in Frames /\ Tail(ws.out) \in Seq(Frames)
        /\ Len(Tail(ws.out)) = Len(ws.out) - 1
    BY <2>1, HeadTailProperties
  <2>3. toWs.got \o Head(ws.out).data \in Seq(Units)
    BY <2>1, <2>2, ConcatProperties DEF Frames
  <2>4. Len(Tail(ws.out)) <= WireCap
    BY <2>2, Lengths, ProxyAssumption DEF BoundsInv, ProxyAssumption
  <2> QED
    BY <1>15, <2>2, <2>3, <2>4
    DEF WsPeerReads, relay, TypeInv, WsType, ToTcpType, BoundsInv, Ends
<1>16. CASE WsBreaks
  BY <1>0, <1>16 DEF WsBreaks, Cut, relay, TypeInv, WsType, ToTcpType, BoundsInv, Ends
<1> QED
  BY <1>1, <1>2, <1>3, <1>4, <1>5, <1>6, <1>7, <1>8, <1>9, <1>10, <1>11, <1>12, <1>13,
     <1>14, <1>15, <1>16, <1>17 DEF Next, Up, Down, Peers
--------------------------------------------------------------------------------
LEMMA LockStep == IInv /\ Next => LockInv'
<1> SUFFICES ASSUME IInv, Next PROVE LockInv'
  OBVIOUS
<1> USE DEF IInv, Running
<1>1. CASE UpRead \/ UpReadEof \/ UpLock
  BY <1>1 DEF UpRead, UpReadEof, UpLock, Lock, Refused, LockInv, TypeInv, WsType
<1>2. CASE UpSend
  <2>1. "sent" \in ws'.closes <=> "sent" \in ws.closes
    BY <1>2 DEF UpSend, Send, TypeInv, WsType
  <2>2. "received" \in ws'.closes <=> "received" \in ws.closes
    BY <1>2 DEF UpSend, Send, TypeInv, WsType
  <2> QED
    BY <1>2, <2>1, <2>2 DEF UpSend, LockInv, TypeInv
<1>3. CASE UpClose
  <2>1. "received" \in ws'.closes <=> "received" \in ws.closes
    BY <1>3, CloseTypes DEF UpClose
  <2> QED
    BY <1>3, <2>1 DEF UpClose, LockInv, TypeInv
<1>4. CASE UpFails \/ DownFails
  <2>1. Running
    BY <1>4 DEF UpFails, DownFails, LockInv
  <2> QED
    BY <1>4, <2>1, Failure DEF UpFails, DownFails
<1>5. CASE DownNext
  <2>1. /\ Head(ws.in) = ws.in[1] /\ 1 \in 1 .. Len(ws.in)
    <3>1. ws.in \in Seq(Frames) /\ ws.in # <<>>
      BY <1>5, Lengths DEF DownNext
    <3> QED
      BY <3>1, EmptySeq
  <2>2. \/ ws'.closes = ws.closes
        \/ toTcp.closed /\ ws'.closes = ws.closes \cup {"received"}
    BY <1>5, <2>1 DEF DownNext, CloseInv, TypeInv, WsType
  <2> QED
    BY <1>5, <2>2 DEF DownNext, LockInv, TypeInv
<1>6. CASE DownWrite \/ DownLock
  BY <1>6 DEF DownWrite, CanWrite, DownLock, Lock, Refused, LockInv, TypeInv, WsType
<1>7. CASE DownPong
  BY <1>7 DEF DownPong, Send, LockInv, TypeInv, WsType
<1>8. CASE DownClose
  <2>1. "received" \in ws'.closes <=> "received" \in ws.closes
    BY <1>8, CloseTypes DEF DownClose
  <2> QED
    BY <1>8, <2>1 DEF DownClose, Return, LockInv
<1>9. CASE TcpPeerSends \/ TcpPeerEnds \/ TcpPeerReads \/ WsPeerReads
  BY <1>9 DEF TcpPeerSends, TcpPeerEnds, TcpPeerReads, WsPeerReads, relay, LockInv, TypeInv,
              ToTcpType, WsType
<1>10. CASE TcpReset \/ TcpPeerSeesEnd \/ WsBreaks
  BY <1>10 DEF TcpReset, TcpPeerSeesEnd, WsBreaks, Cut, relay, LockInv, TypeInv, ToTcpType,
               WsType
<1>11. CASE WsPeerSends
  <2>1. ws'.closes = ws.closes /\ (toTcp.closed => toTcp'.closed)
    BY <1>11 DEF WsPeerSends, TypeInv, ToTcpType, WsType
  <2> QED
    BY <1>11, <2>1 DEF WsPeerSends, relay, LockInv
<1> QED
  BY <1>1, <1>2, <1>3, <1>4, <1>5, <1>6, <1>7, <1>8, <1>9, <1>10, <1>11
  DEF Next, Up, Down, Peers

(* One frame more or one less at the ends of the WebSocket.                *)
LEMMA CloseStep == IInv /\ Next => CloseInv'
<1> SUFFICES ASSUME IInv, Next PROVE CloseInv'
  OBVIOUS
<1> USE DEF IInv
<1>0. ws.out \in Seq(Frames) /\ ws.in \in Seq(Frames)
  BY Lengths
<1>a. ASSUME ws'.out = ws.out, "sent" \in ws.closes => "sent" \in ws'.closes,
             ws'.in = ws.in, toTcp.closed => toTcp'.closed
      PROVE  CloseInv'
  BY <1>a DEF CloseInv
<1>b. ASSUME NEW frame \in Frames, ws'.out = Append(ws.out, frame), "sent" \notin ws.closes,
             frame.kind = "close" => frame.data = <<>> /\ "sent" \in ws'.closes,
             ws'.in = ws.in, toTcp.closed => toTcp'.closed
      PROVE  CloseInv'
  <2>1. /\ Len(ws'.out) = Len(ws.out) + 1 /\ Len(ws.out) \in Nat
        /\ \A i \in 1 .. Len(ws.out) : ws'.out[i] = ws.out[i]
        /\ ws'.out[Len(ws.out) + 1] = frame
    BY <1>0, <1>b, AppendProperties, LenProperties
  <2>2. \A i \in 1 .. Len(ws'.out) : i \in 1 .. Len(ws.out) \/ i = Len(ws.out) + 1
    BY <2>1
  <2> QED
    BY <1>b, <2>1, <2>2 DEF CloseInv
<1>1. CASE UpRead \/ UpReadEof \/ UpLock \/ DownWrite \/ DownLock
  BY <1>1, <1>a DEF UpRead, UpReadEof, UpLock, DownWrite, DownLock, Lock
<1>2. CASE UpSend
  <2>1. Frame("data", up.hand) \in Frames /\ Frame("data", up.hand).kind = "data"
    BY FramesAreFrames DEF TypeInv
  <2>2. ws'.out = Append(ws.out, Frame("data", up.hand)) /\ ws'.in = ws.in
    BY <1>2 DEF UpSend, Send, TypeInv, WsType
  <2> QED
    BY <1>2, <1>b, <2>1, <2>2 DEF UpSend, LockInv
<1>3. CASE UpClose \/ DownClose
  <2>1. SendClose /\ toTcp' = toTcp
    BY <1>3 DEF UpClose, DownClose
  <2>2. CASE ws' = ws
    BY <1>a, <2>1, <2>2
  <2>3. CASE /\ "sent" \notin ws.closes
             /\ ws' = [ws EXCEPT !.out = Append(ws.out, Control("close")),
                                 !.closes = ws.closes \cup {"sent"}]
    <3>1. ws'.out = Append(ws.out, Control("close")) /\ ws'.in = ws.in /\ "sent" \in ws'.closes
      BY <2>3 DEF TypeInv, WsType
    <3> QED
      BY <1>b, <2>1, <2>3, <3>1, FramesAreFrames DEF Kinds
  <2> QED
    BY <2>1, <2>2, <2>3, Closes
<1>4. CASE UpFails \/ DownFails
  BY <1>4, <1>a DEF UpFails, DownFails
<1>5. CASE DownPong
  <2>1. Control("pong") \in Frames /\ Control("pong").kind = "pong"
    BY FramesAreFrames DEF Kinds
  <2>2. ws'.out = Append(ws.out, Control("pong")) /\ ws'.in = ws.in
    BY <1>5 DEF DownPong, Send, TypeInv, WsType
  <2> QED
    BY <1>5, <1>b, <2>1, <2>2 DEF DownPong, LockInv
<1>6. CASE DownNext
  <2>1. /\ ws'.in = Tail(ws.in) /\ ws'.out = ws.out /\ toTcp' = toTcp
        /\ "sent" \in ws.closes => "sent" \in ws'.closes
    <3>1. CASE ws' = [ws EXCEPT !.in = Tail(ws.in)]
      BY <1>6, <3>1 DEF DownNext, TypeInv, WsType
    <3>2. CASE ws' = [ws EXCEPT !.in = Tail(ws.in), !.closes = ws.closes \cup {"received"}]
      BY <1>6, <3>2 DEF DownNext, TypeInv, WsType
    <3> QED
      BY <1>6, <3>1, <3>2 DEF DownNext
  <2>2. /\ Len(Tail(ws.in)) = Len(ws.in) - 1 /\ Len(ws.in) \in Nat
        /\ \A i \in 1 .. Len(Tail(ws.in)) : Tail(ws.in)[i] = ws.in[i + 1]
    BY <1>0, <1>6, HeadTailProperties, Lengths DEF DownNext
  <2>3. \A i \in 1 .. Len(Tail(ws.in)) : i + 1 \in 1 .. Len(ws.in)
    BY <2>2
  <2> QED
    BY <2>1, <2>2, <2>3 DEF CloseInv
<1>7. CASE TcpPeerSends \/ TcpPeerEnds \/ TcpPeerReads \/ TcpReset \/ TcpPeerSeesEnd
  BY <1>7, <1>a DEF TcpPeerSends, TcpPeerEnds, TcpPeerReads, TcpReset, TcpPeerSeesEnd, Cut,
                    TypeInv, ToTcpType
<1>8. CASE WsPeerReads
  <2>1. ws'.out = Tail(ws.out) /\ ws'.in = ws.in /\ ws'.closes = ws.closes /\ toTcp' = toTcp
    BY <1>8 DEF WsPeerReads, TypeInv, WsType
  <2>2. /\ Len(Tail(ws.out)) = Len(ws.out) - 1 /\ Len(ws.out) \in Nat
        /\ \A i \in 1 .. Len(Tail(ws.out)) : Tail(ws.out)[i] = ws.out[i + 1]
    BY <1>0, <1>8, HeadTailProperties, Lengths DEF WsPeerReads
  <2>3. \A i \in 1 .. Len(Tail(ws.out)) : i + 1 \in 1 .. Len(ws.out)
    BY <2>2
  <2> QED
    BY <2>1, <2>2, <2>3 DEF CloseInv
<1>9. CASE WsBreaks
  <2>1. ws'.out = <<>> /\ ws'.in = ws.in /\ ws'.closes = ws.closes /\ toTcp' = toTcp
    BY <1>9 DEF WsBreaks, TypeInv, WsType
  <2> QED
    BY <2>1, EmptySeq DEF CloseInv
<1>10. CASE WsPeerSends
  <2>1. /\ ~toTcp.closed /\ ws'.out = ws.out /\ ws'.closes = ws.closes
        /\ \E frame \in Frames : /\ ws'.in = Append(ws.in, frame)
                                 /\ frame.kind = "data" <=> frame.data # <<>>
                                 /\ frame.kind = "close" => toTcp'.closed
    <3>1. ~toTcp.closed /\ ws'.out = ws.out /\ ws'.closes = ws.closes
      BY <1>10 DEF WsPeerSends, TypeInv, WsType
    <3>2. \/ \E data \in Seq(Units) \ {<<>>} : ws'.in = Append(ws.in, Frame("data", data))
          \/ ws'.in = Append(ws.in, Control("ping"))
          \/ ws'.in = Append(ws.in, Control("close")) /\ toTcp'.closed
      <4>1. ASSUME NEW n \in 1 .. 2, NEW data, data = [i \in 1 .. n |-> Len(toTcp.sent) + i],
                   Len(toTcp.sent) + n <= MaxUnits
            PROVE  data \in Seq(Units) \ {<<>>}
        BY <4>1, NextUnits
      <4> QED
        BY <1>10, <4>1 DEF WsPeerSends, TypeInv, WsType, ToTcpType
    <3>3. CASE \E data \in Seq(Units) \ {<<>>} : ws'.in = Append(ws.in, Frame("data", data))
      BY <3>1, <3>3, FramesAreFrames
    <3>4. CASE ws'.in = Append(ws.in, Control("ping"))
      BY <3>1, <3>4, FramesAreFrames DEF Kinds
    <3>5. CASE ws'.in = Append(ws.in, Control("close")) /\ toTcp'.closed
      BY <3>1, <3>5, FramesAreFrames DEF Kinds
    <3> QED
      BY <3>2, <3>3, <3>4, <3>5
  <2>2. PICK frame \in Frames : /\ ws'.in = Append(ws.in, frame)
                                /\ frame.kind = "data" <=> frame.data # <<>>
                                /\ frame.kind = "close" => toTcp'.closed
    BY <2>1
  <2>3. /\ Len(ws'.in) = Len(ws.in) + 1 /\ Len(ws.in) \in Nat
        /\ \A i \in 1 .. Len(ws.in) : ws'.in[i] = ws.in[i]
        /\ ws'.in[Len(ws.in) + 1] = frame
    BY <1>0, <2>2, AppendProperties, LenProperties
  <2>4. \A i \in 1 .. Len(ws'.in) : i \in 1 .. Len(ws.in) \/ i = Len(ws.in) + 1
    BY <2>3
  <2> QED
    BY <2>1, <2>2, <2>3, <2>4 DEF CloseInv
<1> QED
  BY <1>1, <1>2, <1>3, <1>4, <1>5, <1>6, <1>7, <1>8, <1>9, <1>10 DEF Next, Up, Down, Peers
--------------------------------------------------------------------------------
LEMMA UpStep == IInv /\ Next => UpInv'
<1> SUFFICES ASSUME IInv, Next PROVE UpInv'
  OBVIOUS
<1> USE DEF IInv
<1>0. Len(<<>>) = 0 /\ \A m \in Nat : m + 0 = m
  BY EmptySeq
<1>1. CASE UpRead
  <2>a. PICK n \in 1 .. Len(tcp.in) :
          /\ up' = [at |-> "lock", hand |-> SubSeq(tcp.in, 1, n)]
          /\ tcp' = [tcp EXCEPT !.in = SubSeq(tcp.in, n + 1, Len(tcp.in))]
    BY <1>1 DEF UpRead
  <2>1. /\ up'.at = "lock" /\ up'.hand = SubSeq(tcp.in, 1, n)
        /\ tcp'.in = SubSeq(tcp.in, n + 1, Len(tcp.in)) /\ tcp'.end = tcp.end
    BY <2>a DEF TypeInv
  <2>2. /\ tcp.end # "reset" /\ Running /\ up.hand = <<>>
        /\ ws' = ws /\ toWs' = toWs /\ result' = result /\ toTcp' = toTcp
    BY <1>1 DEF UpRead, UpInv, LockInv
  <2>3. ASSUME NEW m \in Nat, UpTo(m) PROVE UpTo(m)'
    <3>1. /\ From(m, tcp.in) /\ m + Len(tcp.in) = Len(toWs.sent)
          /\ Len(tcp.in) \in Nat
      BY <1>0, <2>2, <2>3, Lengths DEF UpTo
    <3>2. /\ From(m, up'.hand) /\ Len(up'.hand) = n
          /\ From(m + n, tcp'.in) /\ Len(tcp'.in) = Len(tcp.in) - n
      BY <2>1, <3>1, Cuts
    <3>3. AllSent' => AllSent
      BY <2>1, <2>2 DEF AllSent
    <3>4. /\ m + Len(up'.hand) <= Len(toWs.sent)
          /\ From(m + Len(up'.hand), tcp'.in)
          /\ m + Len(up'.hand) + Len(tcp'.in) = Len(toWs.sent)
      <4>1. m + n <= Len(toWs.sent) /\ (m + n) + (Len(tcp.in) - n) = Len(toWs.sent)
        <5>1. PICK l \in Nat, t \in Nat : l = Len(tcp.in) /\ t = Len(toWs.sent)
          BY <3>1, Lengths
        <5>2. m + l = t /\ n \in 1 .. l
          BY <3>1, <5>1
        <5>3. m + n <= t /\ (m + n) + (l - n) = t
          BY <5>2
        <5> QED
          BY <5>1, <5>3
      <4> QED
        BY <3>2, <4>1
    <3> QED
      BY <2>1, <2>2, <2>3, <3>2, <3>3, <3>4 DEF UpTo, Running
  <2> QED
    BY <2>1, <2>2, <2>3 DEF UpInv, AllSent
<1>2. CASE UpReadEof
  <2>1. /\ up.at = "read" /\ up'.at = "lockClose" /\ up'.hand = <<>> /\ up.hand = <<>>
        /\ tcp.in = <<>> /\ tcp.end = "fin" /\ Running
        /\ UNCHANGED <<ws, tcp, toWs, result, toTcp>>
    BY <1>2 DEF UpReadEof, UpInv, LockInv, TypeInv
  <2>2. ASSUME NEW m \in Nat, UpTo(m) PROVE UpTo(m)'
    BY <1>0, <2>1, <2>2 DEF UpTo, Running
  <2> QED
    BY <2>1, <2>2 DEF UpInv
<1>3. CASE UpLock
  <2>1. /\ UNCHANGED <<ws, tcp, toWs, result, toTcp>> /\ up'.hand = up.hand
        /\ AllSent' => AllSent
        /\ up'.at \notin {"lock", "send"} => up.at \notin {"lock", "send"}
    BY <1>3 DEF UpLock, Lock, AllSent, TypeInv
  <2> QED
    BY <2>1, UpMoves DEF UpInv
<1>4. CASE UpSend
  <2>1. /\ ~ws.broken /\ ws' = [ws EXCEPT !.out = Append(ws.out, Frame("data", up.hand))]
        /\ Frame("data", up.hand) \in Frames /\ Frame("data", up.hand).data = up.hand
    BY <1>4, Sends, FramesAreFrames DEF UpSend, TypeInv
  <2>2. /\ ws'.out = Append(ws.out, Frame("data", up.hand)) /\ ~ws'.broken
        /\ ws'.closes = ws.closes
    BY <2>1 DEF TypeInv, WsType
  <2>3. /\ UNCHANGED <<tcp, toWs, result, toTcp>> /\ up' = [at |-> "read", hand |-> <<>>]
        /\ Running /\ ~AllSent /\ ~AllSent' /\ "sent" \notin ws.closes
    BY <1>4, <2>2 DEF UpSend, LockInv, AllSent
  <2>4. PICK m \in Nat : UpTo(m)
    BY <2>1 DEF UpInv
  <2>6. PICK k \in Nat : k = m + Len(up.hand)
    BY Lengths
  <2>5. UpTo(k)'
    <3>1. From(m, up.hand) /\ Adjacent(ws.out, Len(toWs.got), m)
      BY <2>3, <2>4 DEF UpTo
    <3>2. Adjacent(ws'.out, Len(toWs.got), k)
      BY <2>1, <2>2, <2>6, <3>1, AddsFrame, Lengths
    <3>3. k + Len(up'.hand) = k /\ From(k, up'.hand)
      BY <1>0, <2>3, Shortest
    <3>4. /\ k <= Len(toWs.sent)
          /\ tcp.end # "reset" => From(k, tcp.in) /\ k + Len(tcp.in) = Len(toWs.sent)
      BY <2>3, <2>4, <2>6 DEF UpTo
    <3> QED
      BY <2>3, <3>2, <3>3, <3>4 DEF UpTo, Running
  <2>7. \E j \in Nat : UpTo(j)'
    BY <2>5, <2>6
  <2>8. up'.hand = <<>> /\ toWs'.end = "open"
    BY <2>1, <2>3 DEF UpInv
  <2> QED
    BY <2>2, <2>3, <2>7, <2>8 DEF UpInv
<1>5. CASE UpClose
  <2>1. /\ SendClose /\ UNCHANGED <<tcp, toWs, result, toTcp>> /\ up'.hand = up.hand
        /\ up'.at = "done" /\ AllSent /\ up'.hand = <<>>
    BY <1>5 DEF UpClose, AllSent, TypeInv, UpInv
  <2>2. CASE ws' = ws
    BY <2>1, <2>2, UpMoves
  <2>3. CASE /\ ~ws.broken /\ "sent" \notin ws.closes
             /\ ws' = [ws EXCEPT !.out = Append(ws.out, Control("close")),
                                 !.closes = ws.closes \cup {"sent"}]
    <3>1. ws'.out = Append(ws.out, Control("close")) /\ ws'.broken = ws.broken
      BY <2>3 DEF TypeInv, WsType
    <3> QED
      BY <2>1, <2>3, <3>1, UpAddsControl DEF Kinds
  <2> QED
    BY <2>1, <2>2, <2>3, Closes
<1>6. CASE UpFails \/ DownFails
  <2>1. Running
    BY <1>6 DEF UpFails, DownFails, LockInv
  <2> QED
    BY <1>6, <2>1, Failure DEF UpFails, DownFails
<1>7. CASE DownNext \/ DownWrite \/ DownLock
  <2>1. /\ UNCHANGED <<up, toWs, result, toTcp>>
        /\ tcp'.in = tcp.in /\ tcp'.end = tcp.end
        /\ ws'.out = ws.out /\ ws'.broken = ws.broken
        /\ "sent" \in ws'.closes <=> "sent" \in ws.closes
    <3>1. CASE DownNext
      <4>1. CASE ws' = [ws EXCEPT !.in = Tail(ws.in)]
        BY <3>1, <4>1 DEF DownNext, TypeInv, WsType
      <4>2. CASE ws' = [ws EXCEPT !.in = Tail(ws.in), !.closes = ws.closes \cup {"received"}]
        BY <3>1, <4>2 DEF DownNext, TypeInv, WsType
      <4> QED
        BY <3>1, <4>1, <4>2 DEF DownNext
    <3>2. CASE DownWrite
      BY <3>2 DEF DownWrite, TypeInv
    <3>3. CASE DownLock
      BY <3>3 DEF DownLock, Lock
    <3> QED
      BY <1>7, <3>1, <3>2, <3>3
  <2> QED
    BY <2>1, UpMoves DEF UpInv, AllSent
<1>8. CASE DownPong
  <2>1. /\ ~ws.broken /\ ws' = [ws EXCEPT !.out = Append(ws.out, Control("pong"))]
        /\ Control("pong") \in Frames
    BY <1>8, Sends, FramesAreFrames DEF DownPong, Kinds
  <2>2. /\ ws'.out = Append(ws.out, Control("pong")) /\ ws'.broken = ws.broken
        /\ ws'.closes = ws.closes
    BY <2>1 DEF TypeInv, WsType
  <2> QED
    BY <1>8, <2>1, <2>2, UpAddsControl DEF DownPong, LockInv, AllSent, UpInv, Kinds
<1>9. CASE DownClose
  <2>1. /\ SendClose /\ UNCHANGED <<tcp, toWs, toTcp>> /\ toTcp.closed
        /\ up' = [at |-> "over", hand |-> <<>>] /\ result' # "none" /\ ~AllSent'
    BY <1>9 DEF DownClose, Return, LockInv, AllSent, DownInv
  <2>2. CASE ws' = ws
    BY <2>1, <2>2, UpMoves
  <2>3. CASE /\ ~ws.broken /\ "sent" \notin ws.closes
             /\ ws' = [ws EXCEPT !.out = Append(ws.out, Control("close")),
                                 !.closes = ws.closes \cup {"sent"}]
    <3>1. ws'.out = Append(ws.out, Control("close")) /\ ws'.broken = ws.broken
      BY <2>3 DEF TypeInv, WsType
    <3> QED
      BY <2>1, <2>3, <3>1, UpAddsControl DEF Kinds
  <2> QED
    BY <2>1, <2>2, <2>3, Closes
<1>10. CASE TcpPeerSends
  <2> DEFINE unit == Len(toWs.sent) + 1
  <2>a. unit \in Units
    BY <1>10, Lengths, ProxyAssumption DEF TcpPeerSends, Units, ProxyAssumption
  <2>b. /\ toWs' = [toWs EXCEPT !.sent = Append(toWs.sent, unit)]
        /\ tcp' = [tcp EXCEPT !.in = Append(tcp.in, unit)]
        /\ tcp.end = "open" /\ UNCHANGED <<up, result, ws, toTcp>>
    BY <1>10 DEF TcpPeerSends, relay
  <2> HIDE DEF unit
  <2>1. /\ tcp.end = "open" /\ unit \in Units
        /\ toWs'.sent = Append(toWs.sent, unit) /\ toWs'.got = toWs.got
        /\ toWs'.end = toWs.end
        /\ tcp'.in = Append(tcp.in, unit) /\ tcp'.end = tcp.end
        /\ UNCHANGED <<up, result, ws, toTcp>>
    BY <2>a, <2>b DEF TypeInv
  <2>2. /\ From(0, toWs'.sent) /\ Len(toWs'.sent) = Len(toWs.sent) + 1
        /\ Len(toWs.sent) \in Nat
    <3>1. From(0, toWs.sent) /\ unit = 0 + Len(toWs.sent) + 1
      BY Lengths DEF UpInv, unit
    <3> QED
      BY <2>1, <3>1, Grows, Lengths
  <2>3. ASSUME NEW m \in Nat, UpTo(m) PROVE UpTo(m)'
    <3>1. Running => From(m + Len(up.hand), tcp'.in) /\ Len(tcp'.in) = Len(tcp.in) + 1
      <4>1. SUFFICES ASSUME Running
                     PROVE  From(m + Len(up.hand), tcp'.in) /\ Len(tcp'.in) = Len(tcp.in) + 1
        OBVIOUS
      <4>2. /\ From(m + Len(up.hand), tcp.in) /\ unit = (m + Len(up.hand)) + Len(tcp.in) + 1
            /\ m + Len(up.hand) \in Nat
        <5>1. /\ From(m + Len(up.hand), tcp.in)
              /\ m + Len(up.hand) + Len(tcp.in) = Len(toWs.sent)
          BY <2>1, <2>3, <4>1 DEF UpTo
        <5>2. Len(toWs.sent) \in Nat /\ Len(up.hand) \in Nat /\ Len(tcp.in) \in Nat
          BY Lengths
        <5>3. PICK h \in Nat, l \in Nat, t \in Nat :
                h = Len(up.hand) /\ l = Len(tcp.in) /\ t = Len(toWs.sent)
          BY <5>2
        <5>4. m + h + l = t
          BY <5>1, <5>3
        <5>5. unit = t + 1
          BY <5>3 DEF unit
        <5>6. unit = (m + h) + l + 1 /\ m + h \in Nat
          BY <5>4, <5>5
        <5> QED
          BY <5>1, <5>3, <5>6
      <4> QED
        BY <2>1, <4>2, Grows
    <3>2. ~AllSent'
      BY <2>1 DEF UpInv, AllSent
    <3>3. Running => m + Len(up.hand) + Len(tcp'.in) = Len(toWs'.sent)
      <4>1. Running => m + Len(up.hand) + Len(tcp.in) = Len(toWs.sent)
        BY <2>1, <2>3 DEF UpTo
      <4>2. Len(toWs.sent) \in Nat /\ Len(up.hand) \in Nat /\ Len(tcp.in) \in Nat
        BY Lengths
      <4>3. PICK h \in Nat, l \in Nat, t \in Nat :
              h = Len(up.hand) /\ l = Len(tcp.in) /\ t = Len(toWs.sent)
        BY <4>2
      <4>4. Running => m + h + l = t
        BY <4>1, <4>3
      <4>5. Running => m + h + (l + 1) = t + 1
        BY <4>4
      <4> QED
        BY <2>2, <3>1, <4>3, <4>5
    <3>4. m <= Len(toWs'.sent) /\ (Running => m + Len(up.hand) <= Len(toWs'.sent))
      <4>1. m <= Len(toWs.sent) /\ (Running => m + Len(up.hand) <= Len(toWs.sent))
        BY <2>3 DEF UpTo
      <4> QED
        BY <2>2, <4>1, Lengths
    <3> QED
      BY <2>1, <2>3, <3>1, <3>2, <3>3, <3>4 DEF UpTo, Running
  <2> QED
    BY <2>1, <2>2, <2>3 DEF UpInv, AllSent
<1>11. CASE TcpPeerEnds
  <2>1. /\ tcp.end = "open" /\ tcp'.end = "fin" /\ tcp'.in = tcp.in
        /\ UNCHANGED <<up, result, ws, toTcp, toWs>>
    BY <1>11 DEF TcpPeerEnds, relay, TypeInv
  <2>2. ASSUME NEW m \in Nat, UpTo(m) PROVE UpTo(m)'
    BY <2>1, <2>2 DEF UpTo, Running, AllSent
  <2> QED
    BY <2>1, <2>2 DEF UpInv, AllSent
<1>12. CASE TcpReset
  <2>1. /\ tcp'.end = "reset" /\ tcp'.in = <<>> /\ toTcp'.closed = toTcp.closed
        /\ UNCHANGED <<up, result, ws, toWs>>
    BY <1>12 DEF TcpReset, Cut, relay, TypeInv, ToTcpType
  <2>2. ASSUME NEW m \in Nat, UpTo(m) PROVE UpTo(m)'
    BY <2>1, <2>2 DEF UpTo, Running, AllSent
  <2> QED
    BY <2>1, <2>2 DEF UpInv, AllSent
<1>13. CASE TcpPeerReads \/ TcpPeerSeesEnd \/ WsPeerSends
  <2>1. /\ UNCHANGED <<up, toWs, result>> /\ tcp'.in = tcp.in /\ tcp'.end = tcp.end
        /\ ws'.out = ws.out /\ ws'.broken = ws.broken /\ ws'.closes = ws.closes
        /\ toTcp.closed => toTcp'.closed
    <3>1. CASE TcpPeerReads \/ TcpPeerSeesEnd
      BY <3>1 DEF TcpPeerReads, TcpPeerSeesEnd, relay, TypeInv, ToTcpType
    <3>2. CASE WsPeerSends
      BY <3>2 DEF WsPeerSends, relay, TypeInv, WsType
    <3> QED
      BY <1>13, <3>1, <3>2
  <2> QED
    BY <2>1, UpMoves DEF UpInv, AllSent
<1>14. CASE WsPeerReads
  <2> DEFINE frame == Head(ws.out)
  <2>1. /\ ws.out # <<>> /\ ~ws.broken /\ ws.out \in Seq(Frames)
        /\ ws'.out = Tail(ws.out) /\ ws'.broken = ws.broken /\ ws'.closes = ws.closes
        /\ toWs'.sent = toWs.sent /\ toWs'.got = toWs.got \o frame.data
        /\ UNCHANGED <<up, result, tcp, toTcp>>
    BY <1>14, Lengths DEF WsPeerReads, relay, TypeInv, WsType, UpInv
  <2>2. PICK m \in Nat : UpTo(m)
    BY <2>1 DEF UpInv
  <2>3. /\ From(Len(toWs.got), frame.data) /\ Len(frame.data) \in Nat
        /\ Adjacent(ws'.out, Len(toWs.got) + Len(frame.data), m)
    BY <2>1, <2>2, TakesFrame, Lengths DEF UpTo
  <2>4. From(0, toWs'.got) /\ Len(toWs'.got) = Len(toWs.got) + Len(frame.data)
    <3>1. From(0, toWs.got) /\ From(0 + Len(toWs.got), frame.data)
      BY <2>3, Lengths DEF UpInv
    <3> QED
      BY <2>1, <3>1, Joins
  <2>5. UpTo(m)'
    BY <2>1, <2>2, <2>3, <2>4 DEF UpTo, Running, AllSent
  <2>6. toWs'.end # "open" => ws'.out = <<>> /\ "sent" \in ws'.closes
    <3>1. toWs.end = "open"
      BY <2>1 DEF UpInv
    <3>2. toWs'.end # "open" => ws.out[1].kind = "close"
      BY <1>14, <2>1, <3>1 DEF WsPeerReads, TypeInv
    <3>3. 1 \in 1 .. Len(ws.out) /\ Len(ws'.out) = Len(ws.out) - 1 /\ Len(ws.out) \in Nat
          /\ ws'.out \in Seq(Frames)
      BY <2>1, EmptySeq, HeadTailProperties
    <3>4. ws.out[1].kind = "close" => 1 = Len(ws.out) /\ "sent" \in ws.closes
      BY <3>3 DEF CloseInv
    <3>5. 1 = Len(ws.out) => ws'.out = <<>>
      <4>1. Len(ws'.out) = 0 => ws'.out = <<>>
        BY <3>3, EmptySeq
      <4> QED
        BY <3>3, <4>1
    <3> QED
      BY <2>1, <3>2, <3>4, <3>5
  <2> QED
    BY <2>1, <2>4, <2>5, <2>6 DEF UpInv, AllSent
<1>15. CASE WsBreaks
  <2>1. /\ ws'.broken /\ ws'.out = <<>> /\ ws'.closes = ws.closes
        /\ toWs'.sent = toWs.sent /\ toWs'.got = toWs.got
        /\ UNCHANGED <<up, result, tcp, toTcp>>
    BY <1>15 DEF WsBreaks, Cut, relay, TypeInv, WsType
  <2> QED
    BY <2>1 DEF UpInv, AllSent
<1> QED
  BY <1>1, <1>2, <1>3, <1>4, <1>5, <1>6, <1>7, <1>8, <1>9, <1>10, <1>11, <1>12, <1>13,
     <1>14, <1>15 DEF Next, Up, Down, Peers
--------------------------------------------------------------------------------
(* A frame is taken by ws_to_tcp.                                          *)
LEMMA NextFrame ==
  ASSUME IInv, DownNext
  PROVE  DownInv'
<1> DEFINE frame == Head(ws.in)
<1> USE DEF IInv
<1>1. /\ ws.in \in Seq(Frames) /\ ws.in # <<>> /\ frame = ws.in[1]
      /\ Len(Tail(ws.in)) = Len(ws.in) - 1 /\ Len(ws.in) \in Nat \ {0}
      /\ \A i \in 1 .. Len(Tail(ws.in)) : Tail(ws.in)[i] = ws.in[i + 1]
  <2>1. ws.in \in Seq(Frames) /\ ws.in # <<>>
    BY Lengths DEF DownNext
  <2>2. Len(ws.in) \in Nat \ {0}
    BY <2>1, EmptySeq
  <2> QED
    BY <2>1, <2>2, HeadTailProperties
<1>2. /\ frame.kind = "data" <=> frame.data # <<>>
      /\ frame.kind = "close" => Tail(ws.in) = <<>> /\ toTcp.closed
  <2>1. 1 \in 1 .. Len(ws.in)
    BY <1>1
  <2>2. /\ frame.kind = "data" <=> frame.data # <<>>
        /\ frame.kind = "close" => 1 = Len(ws.in) /\ toTcp.closed
    BY <1>1, <2>1 DEF CloseInv
  <2>3. Tail(ws.in) \in Seq(Frames) /\ (Len(Tail(ws.in)) = 0 => Tail(ws.in) = <<>>)
    BY <1>1, HeadTailProperties, EmptySeq
  <2> QED
    BY <1>1, <2>2, <2>3
<1>3. /\ UNCHANGED <<result, tcp, toTcp>> /\ Running /\ down.at = "next" /\ down.hand = <<>>
      /\ ws'.in = Tail(ws.in)
      /\ \/ frame.kind = "data" /\ down'.at = "write" /\ down'.hand = frame.data
         \/ frame.kind = "ping" /\ down'.at = "lockPong" /\ down'.hand = <<>>
         \/ frame.kind = "close" /\ down'.at = "lockClose" /\ down'.hand = <<>>
  <2>1. UNCHANGED <<result, tcp, toTcp>> /\ Running /\ down.at = "next" /\ down.hand = <<>>
    BY DEF DownNext, LockInv, DownInv
  <2>2. CASE /\ frame.kind = "data" /\ down' = [at |-> "write", hand |-> frame.data]
             /\ ws' = [ws EXCEPT !.in = Tail(ws.in)]
    BY <2>1, <2>2 DEF TypeInv, WsType
  <2>3. CASE /\ frame.kind = "ping" /\ down' = [down EXCEPT !.at = "lockPong"]
             /\ ws' = [ws EXCEPT !.in = Tail(ws.in)]
    BY <2>1, <2>3 DEF TypeInv, WsType
  <2>4. CASE /\ frame.kind = "close" /\ down' = [down EXCEPT !.at = "lockClose"]
             /\ ws' = [ws EXCEPT !.in = Tail(ws.in),
                                !.closes = ws.closes \cup {"received"}]
    BY <2>1, <2>4 DEF TypeInv, WsType
  <2> QED
    BY <2>2, <2>3, <2>4 DEF DownNext
<1>4. down'.hand = frame.data
  BY <1>2, <1>3
<1>5. ASSUME NEW n \in Nat, DownAt(n) PROVE DownAt(n)'
  <2>1. Adjacent(ws.in, n, Len(toTcp.sent)) /\ n <= Len(toTcp.sent)
    <3>1. n + Len(down.hand) = n
      BY <1>3, EmptySeq
    <3> QED
      BY <1>3, <1>5, <3>1 DEF DownAt
  <2>2. /\ From(n, frame.data) /\ n + Len(frame.data) <= Len(toTcp.sent)
        /\ Adjacent(Tail(ws.in), n + Len(frame.data), Len(toTcp.sent))
    BY <1>1, <2>1, TakesFrame, Lengths
  <2> QED
    BY <1>3, <1>4, <1>5, <2>2 DEF DownAt, Running
<1> HIDE DEF frame
<1> QED
  BY <1>2, <1>3, <1>4, <1>5 DEF DownInv, Running

(* The WebSocket peer adds a frame.                                        *)
LEMMA AddedFrame ==
  ASSUME IInv, ~toTcp.closed, NEW frame \in Frames, From(Len(toTcp.sent), frame.data),
         toTcp'.sent = toTcp.sent \o frame.data, toTcp'.got = toTcp.got,
         toTcp'.end = toTcp.end,
         ws'.in = Append(ws.in, frame), UNCHANGED <<relay, tcp>>
  PROVE  DownInv'
<1> USE DEF IInv, relay
<1>1. /\ From(0, toTcp'.sent) /\ Len(toTcp'.sent) = Len(toTcp.sent) + Len(frame.data)
      /\ Len(frame.data) \in Nat /\ Len(toTcp.sent) \in Nat
  <2>1. From(0, toTcp.sent) /\ From(0 + Len(toTcp.sent), frame.data)
    BY Lengths DEF DownInv
  <2>2. Len(frame.data) \in Nat /\ Len(toTcp.sent) \in Nat
    BY Lengths, LenProperties DEF From
  <2> QED
    BY <2>1, <2>2, Joins
<1>2. ASSUME NEW n \in Nat, DownAt(n) PROVE DownAt(n)'
  <2>1. n + Len(down.hand) <= Len(toTcp'.sent)
    <3>1. PICK h \in Nat, t \in Nat, d \in Nat :
            h = Len(down.hand) /\ t = Len(toTcp.sent) /\ d = Len(frame.data)
      BY <1>1, Lengths
    <3>2. n + h <= t
      BY <1>2, <3>1 DEF DownAt
    <3>3. n + h <= t + d
      BY <3>2
    <3> QED
      BY <1>1, <3>1, <3>3
  <2>2. Running => Adjacent(ws'.in, n + Len(down.hand), Len(toTcp'.sent))
    <3> SUFFICES ASSUME Running
                 PROVE  Adjacent(ws'.in, n + Len(down.hand), Len(toTcp'.sent))
      OBVIOUS
    <3>1. /\ Adjacent(ws.in, n + Len(down.hand), Len(toTcp.sent))
          /\ n + Len(down.hand) \in Nat
      <4>1. Len(down.hand) \in Nat
        BY Lengths
      <4>2. n + Len(down.hand) \in Nat
        BY <4>1
      <4> QED
        BY <1>2, <4>2 DEF DownAt
    <3> QED
      BY <1>1, <3>1, AddsFrame, Lengths
  <2>3. result # "ok"
    BY <1>2 DEF DownAt
  <2> QED
    BY <1>2, <2>1, <2>2, <2>3 DEF DownAt, Running
<1> QED
  BY <1>1, <1>2 DEF DownInv, Running

LEMMA DownStep == IInv /\ Next => DownInv'
<1> SUFFICES ASSUME IInv, Next PROVE DownInv'
  OBVIOUS
<1> USE DEF IInv
<1>0. Len(<<>>) = 0 /\ \A m \in Nat : m + 0 = m
  BY EmptySeq
<1>1. CASE UpRead \/ UpReadEof \/ UpLock \/ TcpPeerSends \/ TcpPeerEnds
  BY <1>1, DownMoves
  DEF UpRead, UpReadEof, UpLock, Lock, TcpPeerSends, TcpPeerEnds, relay, TypeInv
<1>2. CASE UpSend \/ DownPong \/ WsPeerReads \/ WsBreaks
  BY <1>2, DownMoves
  DEF UpSend, DownPong, WsPeerReads, WsBreaks, Send, relay, TypeInv, WsType
<1>3. CASE UpClose
  <2>1. ws'.in = ws.in
    <3>1. CASE ws' = ws
      BY <3>1
    <3>2. CASE ws' = [ws EXCEPT !.out = Append(ws.out, Control("close")),
                                !.closes = ws.closes \cup {"sent"}]
      BY <3>2 DEF TypeInv, WsType
    <3> QED
      BY <1>3, <3>1, <3>2, Closes DEF UpClose
  <2> QED
    BY <1>3, <2>1, DownMoves DEF UpClose
<1>4. CASE DownLock
  BY <1>4, DownMoves DEF DownLock, Lock, TypeInv
<1>5. CASE UpFails \/ DownFails
  <2>1. Running
    BY <1>5 DEF UpFails, DownFails, LockInv
  <2> QED
    BY <1>5, <2>1, Failure DEF UpFails, DownFails
<1>6. CASE DownNext
  BY <1>6, NextFrame
<1>7. CASE DownWrite
  <2>1. /\ tcp.end # "reset" /\ down.at = "write" /\ down.hand # <<>> /\ Running
        /\ UNCHANGED <<result, ws, toTcp>> /\ tcp'.end = tcp.end
        /\ tcp'.out = Append(tcp.out, Head(down.hand)) /\ down'.hand = Tail(down.hand)
        /\ down'.at = IF Len(down.hand) = 1 THEN "next" ELSE "write"
    BY <1>7 DEF DownWrite, CanWrite, DownInv, LockInv, TypeInv
  <2>2. PICK n \in Nat : DownAt(n)
    BY <2>1 DEF DownInv
  <2>3. PICK g \in Nat, o \in Nat, h \in Nat, t \in Nat :
          /\ g = Len(toTcp.got) /\ o = Len(tcp.out) /\ h = Len(down.hand)
          /\ t = Len(toTcp.sent)
    BY Lengths
  <2>4. /\ n = g + o /\ From(g, tcp.out) /\ n + h <= t /\ From(n, down.hand)
        /\ Adjacent(ws.in, n + h, t)
    BY <2>1, <2>2, <2>3 DEF DownAt
  <2>5. /\ Head(down.hand) \in Units /\ Head(down.hand) = n + 1
        /\ From(n + 1, Tail(down.hand)) /\ Len(Tail(down.hand)) = h - 1 /\ h \in Nat \ {0}
    BY <2>1, <2>3, <2>4, Shrinks
  <2>6. From(g, tcp'.out) /\ Len(tcp'.out) = o + 1
    <3>1. PICK u \in Units : u = Head(down.hand)
      BY <2>5
    <3>2. u = g + Len(tcp.out) + 1
      BY <2>3, <2>4, <2>5, <3>1
    <3>3. /\ From(g, Append(tcp.out, u))
          /\ Len(Append(tcp.out, u)) = Len(tcp.out) + 1
      BY <2>4, <3>2, Grows
    <3> QED
      BY <2>1, <2>3, <3>1, <3>3
  <2>7. (n + 1) + Len(down'.hand) = n + h /\ n + 1 = g + Len(tcp'.out)
    <3>1. (n + 1) + (h - 1) = n + h /\ n + 1 = g + (o + 1)
      BY <2>4
    <3> QED
      BY <2>1, <2>5, <2>6, <3>1
  <2>8. DownAt(n + 1)'
    BY <2>1, <2>3, <2>4, <2>5, <2>6, <2>7 DEF DownAt, Running
  <2>9. down'.at = "write" <=> down'.hand # <<>>
    <3>1. down'.hand \in Seq(Units)
      BY <2>1, <2>5 DEF From
    <3>2. down'.hand = <<>> <=> Len(down'.hand) = 0
      BY <3>1, EmptySeq
    <3> QED
      BY <2>1, <2>3, <2>5, <3>2
  <2>10. toTcp.end = "open"
    BY <2>1 DEF DownInv
  <2> QED
    BY <2>1, <2>8, <2>9, <2>10 DEF DownInv, Running
<1>8. CASE DownClose
  <2>1. /\ ws.in = <<>> /\ toTcp.closed /\ Running /\ down.hand = <<>>
        /\ UNCHANGED <<tcp, toTcp>> /\ result' = "ok"
        /\ down' = [at |-> "over", hand |-> <<>>]
    BY <1>8 DEF DownClose, Return, DownInv, LockInv
  <2>2. ws'.in = ws.in
    BY <1>8, Closes DEF DownClose, TypeInv, WsType
  <2>3. ASSUME NEW n \in Nat, DownAt(n) PROVE DownAt(n)'
    <3>1. Adjacent(<<>>, n, Len(toTcp.sent)) /\ n + Len(down'.hand) = n
      BY <1>0, <2>1, <2>3 DEF DownAt
    <3>2. n = Len(toTcp.sent)
      BY <3>1, Together
    <3>3. n + Len(down'.hand) <= Len(toTcp.sent)
      <4>1. n <= n
        OBVIOUS
      <4> QED
        BY <3>1, <3>2, <4>1
    <3> QED
      BY <2>1, <2>3, <3>2, <3>3 DEF DownAt, Running
  <2> QED
    BY <2>1, <2>2, <2>3 DEF DownInv, Running
<1>9. CASE TcpReset
  <2>1. /\ tcp'.end = "reset" /\ tcp'.out = <<>> /\ toTcp'.end # "open"
        /\ toTcp'.sent = toTcp.sent /\ toTcp'.got = toTcp.got /\ toTcp'.closed = toTcp.closed
        /\ UNCHANGED <<down, result, ws>>
    BY <1>9 DEF TcpReset, Cut, relay, TypeInv, ToTcpType
  <2> QED
    BY <2>1 DEF DownInv
<1>10. CASE TcpPeerReads
  <2>1. /\ tcp.out # <<>> /\ tcp.end # "reset" /\ tcp'.end = tcp.end
        /\ tcp'.out = Tail(tcp.out) /\ toTcp'.got = Append(toTcp.got, Head(tcp.out))
        /\ toTcp'.sent = toTcp.sent /\ toTcp'.closed = toTcp.closed /\ toTcp'.end = toTcp.end
        /\ UNCHANGED <<down, result, ws>> /\ toTcp.end = "open"
    BY <1>10 DEF TcpPeerReads, relay, TypeInv, ToTcpType, DownInv
  <2>2. PICK n \in Nat : DownAt(n)
    BY <2>1 DEF DownInv
  <2>3. PICK g \in Nat, o \in Nat : g = Len(toTcp.got) /\ o = Len(tcp.out)
    BY Lengths
  <2>4. n = g + o /\ From(g, tcp.out) /\ From(0, toTcp.got)
    BY <2>2, <2>3 DEF DownAt, DownInv
  <2>5. /\ Head(tcp.out) \in Units /\ Head(tcp.out) = g + 1
        /\ From(g + 1, tcp'.out) /\ Len(tcp'.out) = o - 1
    BY <2>1, <2>3, <2>4, Shrinks
  <2>6. From(0, toTcp'.got) /\ Len(toTcp'.got) = g + 1
    <3>1. PICK u \in Units : u = Head(tcp.out)
      BY <2>5
    <3>2. u = 0 + Len(toTcp.got) + 1
      BY <2>3, <2>5, <3>1
    <3>3. /\ From(0, Append(toTcp.got, u))
          /\ Len(Append(toTcp.got, u)) = Len(toTcp.got) + 1
      BY <2>4, <3>2, Grows
    <3> QED
      BY <2>1, <2>3, <3>1, <3>3
  <2>7. n = Len(toTcp'.got) + Len(tcp'.out)
    BY <2>4, <2>5, <2>6
  <2>8. DownAt(n)'
    BY <2>1, <2>2, <2>5, <2>6, <2>7 DEF DownAt, Running
  <2> QED
    BY <2>1, <2>6, <2>8 DEF DownInv, Running
<1>11. CASE TcpPeerSeesEnd
  <2>1. /\ ~Running /\ tcp.out = <<>> /\ toTcp.end = "open"
        /\ toTcp'.sent = toTcp.sent /\ toTcp'.got = toTcp.got /\ toTcp'.closed = toTcp.closed
        /\ toTcp'.end # "open" /\ UNCHANGED <<down, result, ws, tcp>>
    BY <1>11 DEF TcpPeerSeesEnd, relay, TypeInv, ToTcpType
  <2>2. ASSUME NEW n \in Nat, DownAt(n) PROVE DownAt(n)'
    BY <2>1, <2>2 DEF DownAt, Running
  <2> QED
    BY <2>1, <2>2 DEF DownInv, Running
<1>12. CASE WsPeerSends
  <2> USE DEF ToTcpType, WsType
  <2>1. ~toTcp.closed /\ UNCHANGED <<relay, tcp>>
    BY <1>12 DEF WsPeerSends
  <2>2. toTcp.sent \o <<>> = toTcp.sent /\ From(Len(toTcp.sent), <<>>)
    BY Lengths, ConcatEmptySeq, Shortest
  <2>3. ASSUME NEW data, From(Len(toTcp.sent), data), data \in Seq(Units),
               toTcp' = [toTcp EXCEPT !.sent = toTcp.sent \o data],
               ws' = [ws EXCEPT !.in = Append(ws.in, Frame("data", data))]
        PROVE  DownInv'
    <3>1. /\ toTcp'.sent = toTcp.sent \o data /\ toTcp'.got = toTcp.got
          /\ toTcp'.end = toTcp.end /\ ws'.in = Append(ws.in, Frame("data", data))
      BY <2>3 DEF TypeInv
    <3> QED
      BY <2>1, <2>3, <3>1, AddedFrame, FramesAreFrames
  <2>4. CASE /\ toTcp' = toTcp
             /\ ws' = [ws EXCEPT !.in = Append(ws.in, Control("ping")), !.pings = ws.pings + 1]
    <3>1. Control("ping") \in Frames /\ Control("ping").data = <<>>
      BY FramesAreFrames DEF Kinds
    <3>2. ws'.in = Append(ws.in, Control("ping"))
      BY <2>4 DEF TypeInv
    <3> QED
      BY <2>1, <2>2, <2>4, <3>1, <3>2, AddedFrame
  <2>5. CASE /\ toTcp' = [toTcp EXCEPT !.closed = TRUE]
             /\ ws' = [ws EXCEPT !.in = Append(ws.in, Control("close"))]
    <3>1. Control("close") \in Frames /\ Control("close").data = <<>>
      BY FramesAreFrames DEF Kinds
    <3>2. /\ ws'.in = Append(ws.in, Control("close")) /\ toTcp'.sent = toTcp.sent
          /\ toTcp'.got = toTcp.got /\ toTcp'.end = toTcp.end
      BY <2>5 DEF TypeInv
    <3> QED
      BY <2>1, <2>2, <3>1, <3>2, AddedFrame
  <2>6. ASSUME NEW n \in 1 .. 2, NEW data, data = [i \in 1 .. n |-> Len(toTcp.sent) + i],
               Len(toTcp.sent) + n <= MaxUnits
        PROVE  From(Len(toTcp.sent), data) /\ data \in Seq(Units)
    BY <2>6, NextUnits
  <2> QED
    BY <1>12, <2>3, <2>4, <2>5, <2>6 DEF WsPeerSends
<1> QED
  BY <1>1, <1>2, <1>3, <1>4, <1>5, <1>6, <1>7, <1>8, <1>9, <1>10, <1>11, <1>12
  DEF Next, Up, Down, Peers
--------------------------------------------------------------------------------
LEMMA StepInv == IInv /\ [Next]_vars => IInv'
<1> SUFFICES ASSUME IInv, [Next]_vars PROVE IInv'
  OBVIOUS
<1>1. CASE Next
  BY <1>1, TypeStep, LockStep, CloseStep, UpStep, DownStep DEF IInv
<1>2. CASE UNCHANGED vars
  <2>1. UpInv'
    <3>1. \A m \in Nat : UpTo(m) => UpTo(m)'
      BY <1>2 DEF vars, UpTo, AllSent, Running
    <3> QED
      BY <1>2, <3>1 DEF vars, IInv, UpInv, AllSent
  <2>2. DownInv'
    <3>1. \A n \in Nat : DownAt(n) => DownAt(n)'
      BY <1>2 DEF vars, DownAt, Running
    <3> QED
      BY <1>2, <3>1 DEF vars, IInv, DownInv, Running
  <2> QED
    BY <1>2, <2>1, <2>2 DEF vars, IInv, TypeInv, BoundsInv, CloseInv, LockInv, Running
<1> QED
  BY <1>1, <1>2

LEMMA Invariance == Spec => []IInv
BY InitInv, StepInv, PTL DEF Spec

(* No buffer grows beyond its limit, and every variable stays in range.    *)
THEOREM TypeCorrect == Spec => []TypeOK
<1>1. IInv => TypeOK
  BY DEF IInv, TypeInv, BoundsInv, TypeOK, WsType, ToTcpType, UpPlaces, DownPlaces, Ends
<1> QED
  BY <1>1, Invariance, PTL
--------------------------------------------------------------------------------
(***************************************************************************)
(* How the relay ends.  A Close each way is remembered by the direction    *)
(* that saw to it, and a pong is due to a ping.                            *)
(***************************************************************************)
ClosesInv ==
  Running => /\ "sent" \in ws.closes => up.at = "done"
             /\ "received" \in ws.closes => down.at \in {"lockClose", "close"}

PingsInv ==
  /\ down.at \in {"lockPong", "pong"} => ws.pings > 0
  /\ \A i \in 1 .. Len(ws.in) : ws.in[i].kind = "ping" => ws.pings > 0

Written == Len(toTcp.got) + Len(tcp.out)

LossInv ==
  ~Running /\ ~ws.broken /\ tcp.end # "reset" =>
    \/ toTcp.closed /\ Written = Len(toTcp.sent)
    \/ LatePing

EndInv == ClosesInv /\ PingsInv /\ LossInv

LEMMA InitEnd == Init => EndInv
BY EmptySeq DEF Init, EndInv, ClosesInv, PingsInv, LossInv, Running

(* Nothing is left to write once the Close has been taken.                 *)
LEMMA AllTaken ==
  ASSUME IInv, Running, tcp.end # "reset", down.at \in {"lockClose", "close"}
  PROVE  toTcp.closed /\ Written = Len(toTcp.sent)
<1>1. PICK n \in Nat : DownAt(n)
  BY DEF IInv, DownInv
<1>2. ws.in = <<>> /\ down.hand = <<>> /\ toTcp.closed /\ Len(<<>>) = 0
  BY EmptySeq DEF IInv, DownInv
<1>3. n = Written /\ Adjacent(<<>>, n + Len(down.hand), Len(toTcp.sent))
  BY <1>1, <1>2 DEF DownAt, Written
<1>4. n + Len(down.hand) = Len(toTcp.sent) /\ Len(down.hand) = 0
  BY <1>2, <1>3, Together
<1> QED
  BY <1>2, <1>3, <1>4

(* Steps that neither take a frame in nor close nor end the relay.         *)
LEMMA EndKept ==
  ASSUME EndInv, result' = result, ws'.closes = ws.closes, ws'.in = ws.in,
         ws'.pings = ws.pings, ws.broken => ws'.broken,
         tcp.end = "reset" => tcp'.end = "reset",
         toTcp.closed => toTcp'.closed, Len(toTcp'.sent) = Len(toTcp.sent),
         ~Running /\ tcp'.end # "reset" => Written' = Written,
         up.at = "done" => up'.at = "done",
         down.at \in {"lockClose", "close"} => down'.at \in {"lockClose", "close"},
         down'.at \in {"lockPong", "pong"} => down.at \in {"lockPong", "pong"}
  PROVE  EndInv'
BY DEF EndInv, ClosesInv, PingsInv, LossInv, LatePing, Running

LEMMA EndStep == IInv /\ EndInv /\ Next => EndInv'
<1> SUFFICES ASSUME IInv, EndInv, Next PROVE EndInv'
  OBVIOUS
<1> USE DEF IInv
<1>1. CASE UpRead \/ UpReadEof \/ UpLock
  <2>1. /\ result' = result /\ ws' = ws /\ tcp'.end = tcp.end /\ tcp'.out = tcp.out
        /\ toTcp' = toTcp /\ down' = down /\ up.at # "done"
    BY <1>1 DEF UpRead, UpReadEof, UpLock, Lock, TypeInv
  <2> QED
    BY <2>1, EndKept DEF Written
<1>2. CASE UpSend
  <2>1. /\ result' = result /\ tcp' = tcp /\ toTcp' = toTcp /\ down' = down
        /\ up.at # "done" /\ ws'.closes = ws.closes /\ ws'.in = ws.in
        /\ ws'.pings = ws.pings /\ ws'.broken = ws.broken
    BY <1>2 DEF UpSend, Send, TypeInv, WsType
  <2> QED
    BY <2>1, EndKept DEF Written
<1>3. CASE UpClose
  <2>1. /\ Running /\ result' = result /\ down' = down /\ up'.at = "done"
    BY <1>3 DEF UpClose, LockInv, TypeInv
  <2>2. /\ ws'.in = ws.in /\ ws'.pings = ws.pings
        /\ "received" \in ws'.closes <=> "received" \in ws.closes
    <3>1. CASE ws' = ws
      BY <3>1
    <3>2. CASE ws' = [ws EXCEPT !.out = Append(ws.out, Control("close")),
                                !.closes = ws.closes \cup {"sent"}]
      BY <3>2 DEF TypeInv, WsType
    <3> QED
      BY <1>3, <3>1, <3>2, Closes DEF UpClose
  <2> QED
    BY <2>1, <2>2 DEF EndInv, ClosesInv, PingsInv, LossInv, Running
<1>4. CASE UpFails
  <2>1. /\ Running /\ down'.at = "over" /\ ~Running' /\ UNCHANGED <<ws, tcp, toTcp>>
    BY <1>4 DEF UpFails, Return, LockInv, Running
  <2>2. ASSUME ~ws.broken, tcp.end # "reset"
        PROVE  "received" \in ws.closes
    <3>1. \/ ws.closes # {} /\ up.at = "lock"
          \/ ws.closes = {"received"}
      BY <1>4, <2>2 DEF UpFails, Refused
    <3>2. up.at = "lock" => "sent" \notin ws.closes
      BY <2>1 DEF EndInv, ClosesInv
    <3>3. PICK closes \in SUBSET {"sent", "received"} : closes = ws.closes
      BY DEF TypeInv, WsType
    <3>4. CASE closes # {} /\ "sent" \notin closes
      BY <3>3, <3>4
    <3> QED
      BY <3>1, <3>2, <3>3, <3>4
  <2>3. LossInv'
    <3>1. ~ws.broken /\ tcp.end # "reset" => toTcp.closed /\ Written = Len(toTcp.sent)
      BY <2>1, <2>2, AllTaken DEF EndInv, ClosesInv
    <3> QED
      BY <2>1, <3>1 DEF LossInv, Written
  <2> QED
    BY <2>1, <2>3 DEF EndInv, ClosesInv, PingsInv
<1>5. CASE DownNext
  <2>1. /\ ws.in \in Seq(Frames) /\ ws.in # <<>> /\ Head(ws.in) = ws.in[1]
        /\ Len(ws.in) \in Nat \ {0} /\ 1 \in 1 .. Len(ws.in)
        /\ Len(Tail(ws.in)) = Len(ws.in) - 1
        /\ \A i \in 1 .. Len(Tail(ws.in)) : Tail(ws.in)[i] = ws.in[i + 1]
    <3>1. ws.in \in Seq(Frames) /\ ws.in # <<>>
      BY <1>5, Lengths DEF DownNext
    <3>2. Len(ws.in) \in Nat \ {0} /\ Head(ws.in) = ws.in[1]
      BY <3>1, EmptySeq
    <3> QED
      BY <3>1, <3>2, HeadTailProperties
  <2>2. /\ Running /\ Running' /\ up' = up /\ ws'.pings = ws.pings /\ ws'.in = Tail(ws.in)
        /\ \/ ws'.closes = ws.closes /\ down'.at = "write"
           \/ ws'.closes = ws.closes /\ down'.at = "lockPong" /\ ws.in[1].kind = "ping"
           \/ down'.at = "lockClose" /\ ws'.closes = ws.closes \cup {"received"}
    <3>1. Running /\ Running' /\ up' = up
      BY <1>5 DEF DownNext, LockInv, Running
    <3>2. CASE /\ Head(ws.in).kind = "data"
               /\ down' = [at |-> "write", hand |-> Head(ws.in).data]
               /\ ws' = [ws EXCEPT !.in = Tail(ws.in)]
      BY <3>1, <3>2 DEF TypeInv, WsType
    <3>3. CASE /\ Head(ws.in).kind = "ping" /\ down' = [down EXCEPT !.at = "lockPong"]
               /\ ws' = [ws EXCEPT !.in = Tail(ws.in)]
      BY <2>1, <3>1, <3>3 DEF TypeInv, WsType
    <3>4. CASE /\ Head(ws.in).kind = "close" /\ down' = [down EXCEPT !.at = "lockClose"]
               /\ ws' = [ws EXCEPT !.in = Tail(ws.in),
                                  !.closes = ws.closes \cup {"received"}]
      BY <3>1, <3>4 DEF TypeInv, WsType
    <3> QED
      BY <1>5, <3>2, <3>3, <3>4 DEF DownNext
  <2>3. ClosesInv'
    <3>1. "received" \notin ws.closes
      BY <1>5, <2>2 DEF DownNext, EndInv, ClosesInv
    <3> QED
      BY <2>2, <3>1 DEF EndInv, ClosesInv
  <2>4. PingsInv'
    <3>1. \A i \in 1 .. Len(ws'.in) : i + 1 \in 1 .. Len(ws.in) /\ ws'.in[i] = ws.in[i + 1]
      BY <2>1, <2>2
    <3>2. \A i \in 1 .. Len(ws'.in) : ws'.in[i].kind = "ping" => ws'.pings > 0
      BY <2>2, <3>1 DEF EndInv, PingsInv
    <3>3. down'.at \in {"lockPong", "pong"} => ws'.pings > 0
      BY <2>1, <2>2 DEF EndInv, PingsInv
    <3> QED
      BY <3>2, <3>3 DEF PingsInv
  <2> QED
    BY <2>2, <2>3, <2>4 DEF EndInv, LossInv
<1>6. CASE DownWrite \/ DownLock
  <2>1. /\ Running /\ result' = result /\ ws' = ws /\ tcp'.end = tcp.end /\ toTcp' = toTcp
        /\ up' = up
    BY <1>6 DEF DownWrite, CanWrite, DownLock, Lock, LockInv, TypeInv
  <2>2. /\ down.at \in {"lockClose", "close"} => down'.at \in {"lockClose", "close"}
        /\ down'.at \in {"lockPong", "pong"} => down.at \in {"lockPong", "pong"}
    BY <1>6 DEF DownWrite, CanWrite, DownLock, TypeInv
  <2> QED
    BY <2>1, <2>2, EndKept
<1>7. CASE DownPong
  <2>1. /\ Running /\ result' = result /\ tcp' = tcp /\ toTcp' = toTcp /\ up' = up
        /\ down.at = "pong" /\ down'.at = "next"
        /\ ws'.closes = ws.closes /\ ws'.in = ws.in
        /\ ws'.pings = ws.pings /\ ws'.broken = ws.broken
    BY <1>7 DEF DownPong, Send, LockInv, TypeInv, WsType
  <2> QED
    BY <2>1, EndKept
<1>8. CASE DownClose
  <2>1. /\ Running /\ ~Running' /\ down'.at = "over" /\ UNCHANGED <<tcp, toTcp>>
        /\ down.at = "close"
    BY <1>8 DEF DownClose, Return, LockInv, Running
  <2>2. ws'.in = ws.in /\ ws'.pings = ws.pings
    BY <1>8 DEF DownClose, SendClose, TypeInv, WsType
  <2>3. LossInv'
    BY <2>1, AllTaken DEF LossInv, Written
  <2> QED
    BY <2>1, <2>2, <2>3 DEF EndInv, ClosesInv, PingsInv
<1>9. CASE DownFails
  <2>1. /\ Running /\ down'.at = "over" /\ ~Running' /\ UNCHANGED <<ws, tcp, toTcp>>
    BY <1>9 DEF DownFails, Return, LockInv, Running
  <2>2. ASSUME ~ws.broken, tcp.end # "reset"
        PROVE  LatePing
    <3>1. ws.closes # {} /\ down.at = "lockPong"
      BY <1>9, <2>2 DEF DownFails, Refused
    <3>2. "received" \notin ws.closes /\ ws.pings > 0
      BY <2>1, <3>1 DEF EndInv, ClosesInv, PingsInv
    <3>3. ws.closes \subseteq {"sent", "received"}
      BY DEF TypeInv, WsType
    <3>4. ws.closes = {"sent"}
      BY <3>1, <3>2, <3>3
    <3> QED
      BY <3>2, <3>4 DEF LatePing
  <2> QED
    BY <2>1, <2>2 DEF EndInv, ClosesInv, PingsInv, LossInv, LatePing
<1>10. CASE TcpPeerSends \/ TcpPeerEnds \/ TcpPeerSeesEnd
  <2>1. /\ result' = result /\ ws' = ws /\ up' = up /\ down' = down
        /\ tcp.end = "reset" => tcp'.end = "reset"
        /\ tcp'.out = tcp.out /\ toTcp'.got = toTcp.got /\ toTcp'.sent = toTcp.sent
        /\ toTcp'.closed = toTcp.closed
    BY <1>10 DEF TcpPeerSends, TcpPeerEnds, TcpPeerSeesEnd, relay, TypeInv, ToTcpType
  <2> QED
    BY <2>1, EndKept DEF Written
<1>11. CASE TcpReset
  <2>1. /\ result' = result /\ ws' = ws /\ up' = up /\ down' = down /\ tcp'.end = "reset"
        /\ toTcp'.sent = toTcp.sent /\ toTcp'.closed = toTcp.closed
    BY <1>11 DEF TcpReset, Cut, relay, TypeInv, ToTcpType
  <2> QED
    BY <2>1, EndKept
<1>12. CASE WsPeerReads \/ WsBreaks
  <2>1. /\ result' = result /\ up' = up /\ down' = down /\ tcp' = tcp /\ toTcp' = toTcp
        /\ ws'.closes = ws.closes /\ ws'.in = ws.in /\ ws'.pings = ws.pings
        /\ ws.broken => ws'.broken
    BY <1>12 DEF WsPeerReads, WsBreaks, relay, TypeInv, WsType
  <2> QED
    BY <2>1, EndKept DEF Written
<1>13. CASE TcpPeerReads
  <2>1. /\ result' = result /\ up' = up /\ down' = down /\ ws' = ws /\ tcp'.end = tcp.end
        /\ toTcp'.sent = toTcp.sent /\ toTcp'.closed = toTcp.closed
        /\ toTcp'.got = Append(toTcp.got, Head(tcp.out)) /\ tcp'.out = Tail(tcp.out)
        /\ tcp.out # <<>>
    BY <1>13 DEF TcpPeerReads, relay, TypeInv, ToTcpType
  <2>2. Written' = Written
    <3>1. tcp.out \in Seq(Units) /\ toTcp.got \in Seq(Units) /\ Len(tcp.out) \in Nat \ {0}
      BY <2>1, Lengths, EmptySeq
    <3>2. Len(tcp'.out) = Len(tcp.out) - 1
      BY <2>1, <3>1, HeadTailProperties
    <3>3. Head(tcp.out) \in Units
      BY <2>1, <3>1, HeadTailProperties
    <3>4. Len(toTcp'.got) = Len(toTcp.got) + 1 /\ Len(toTcp.got) \in Nat
      BY <2>1, <3>1, <3>3, AppendProperties, LenProperties
    <3>5. PICK o \in Nat \ {0}, g \in Nat : o = Len(tcp.out) /\ g = Len(toTcp.got)
      BY <3>1, <3>4
    <3>6. (g + 1) + (o - 1) = g + o
      OBVIOUS
    <3> QED
      BY <3>2, <3>4, <3>5, <3>6 DEF Written
  <2> QED
    BY <2>1, <2>2, EndKept
<1>14. CASE WsPeerSends
  <2>1. /\ result' = result /\ up' = up /\ down' = down /\ tcp' = tcp /\ ~toTcp.closed
        /\ ws.pings \in Nat
    BY <1>14, ProxyAssumption DEF WsPeerSends, relay, TypeInv, WsType, ProxyAssumption
  <2> DEFINE Added(frame) == /\ ws'.closes = ws.closes /\ ws'.broken = ws.broken
                             /\ ws'.in = Append(ws.in, frame)
                             /\ \/ ws'.pings = ws.pings /\ frame.kind # "ping"
                                \/ ws'.pings = ws.pings + 1
  <2>2. PICK frame \in Frames : Added(frame)
    <3>1. ASSUME NEW data \in Seq(Units),
                 ws' = [ws EXCEPT !.in = Append(ws.in, Frame("data", data))]
          PROVE  \E frame \in Frames : Added(frame)
      <4>1. Added(Frame("data", data)) /\ Frame("data", data) \in Frames
        BY <3>1, FramesAreFrames DEF TypeInv, WsType
      <4> QED
        BY <4>1
    <3>2. CASE ws' = [ws EXCEPT !.in = Append(ws.in, Control("ping")), !.pings = ws.pings + 1]
      <4>1. Added(Control("ping")) /\ Control("ping") \in Frames
        BY <3>2, FramesAreFrames DEF TypeInv, WsType, Kinds
      <4> QED
        BY <4>1
    <3>3. CASE ws' = [ws EXCEPT !.in = Append(ws.in, Control("close"))]
      <4>1. Added(Control("close")) /\ Control("close") \in Frames
        BY <3>3, FramesAreFrames DEF TypeInv, WsType, Kinds
      <4> QED
        BY <4>1
    <3>4. ASSUME NEW n \in 1 .. 2, NEW data, data = [i \in 1 .. n |-> Len(toTcp.sent) + i],
                 Len(toTcp.sent) + n <= MaxUnits
          PROVE  data \in Seq(Units)
      BY <3>4, NextUnits
    <3> HIDE DEF Added
    <3> QED
      BY <1>14, <3>1, <3>2, <3>3, <3>4 DEF WsPeerSends
  <2>3. /\ ws.in \in Seq(Frames) /\ Len(ws.in) \in Nat /\ Len(ws'.in) = Len(ws.in) + 1
        /\ \A i \in 1 .. Len(ws.in) : ws'.in[i] = ws.in[i]
        /\ ws'.in[Len(ws.in) + 1] = frame
    BY <2>2, Lengths, AppendProperties
  <2>4. PingsInv'
    <3>1. ASSUME NEW i \in 1 .. Len(ws'.in), ws'.in[i].kind = "ping"
          PROVE  ws'.pings > 0
      <4>1. CASE i \in 1 .. Len(ws.in)
        <5>1. ws.pings > 0
          BY <2>3, <3>1, <4>1 DEF EndInv, PingsInv
        <5> QED
          BY <2>1, <2>2, <5>1
      <4>2. CASE i = Len(ws.in) + 1
        BY <2>1, <2>2, <2>3, <3>1, <4>2
      <4> QED
        BY <2>3, <4>1, <4>2
    <3> QED
      BY <2>1, <2>2, <3>1 DEF EndInv, PingsInv
  <2>5. LatePing => LatePing'
    BY <2>1, <2>2 DEF LatePing
  <2> QED
    BY <2>1, <2>2, <2>4, <2>5 DEF EndInv, ClosesInv, LossInv, Running
<1> QED
  BY <1>1, <1>2, <1>3, <1>4, <1>5, <1>6, <1>7, <1>8, <1>9, <1>10, <1>11, <1>12, <1>13, <1>14
  DEF Next, Up, Down, Peers

LEMMA EndInvariance == Spec => [](IInv /\ EndInv)
<1>1. IInv /\ EndInv /\ [Next]_vars => EndInv'
  <2>1. ASSUME EndInv, UNCHANGED vars PROVE EndInv'
    BY <2>1 DEF vars, EndInv, ClosesInv, PingsInv, LossInv, LatePing, Written, Running
  <2> QED
    BY <2>1, EndStep
<1> QED
  BY <1>1, InitEnd, Invariance, PTL DEF Spec

(* A unit of the frames is on the wire.                                    *)
LEMMA InAFrame ==
  ASSUME TypeInv, NEW a \in Nat, NEW b \in Nat, Adjacent(ws.out, a, b),
         NEW n \in (a + 1) .. b
  PROVE  OnTheWire(n)
<1>1. PICK off : Stretches(ws.out, off, a, b)
  BY DEF Adjacent
<1>2. Len(ws.out) \in Nat /\ ws.out \in Seq(Frames) /\ DOMAIN ws.out = 1 .. Len(ws.out)
  BY Lengths, LenProperties
<1>3. PICK i \in 1 .. Len(ws.out) : off[i] < n /\ n <= off[i + 1]
  BY <1>1 DEF Stretches
<1>4. off[i] \in Nat /\ off[i + 1] \in Nat
  <2>1. off \in [1 .. (Len(ws.out) + 1) -> Nat]
    BY <1>1 DEF Stretches
  <2> QED
    BY <1>2, <2>1
<1>5. PICK data : data = ws.out[i].data
  OBVIOUS
<1>6. From(off[i], data) /\ off[i + 1] = off[i] + Len(data)
  BY <1>1, <1>5 DEF Stretches
<1>7. Len(data) \in Nat /\ DOMAIN data = 1 .. Len(data)
  BY <1>6, LenProperties DEF From
<1>8. n - off[i] \in DOMAIN data /\ off[i] + (n - off[i]) = n
  BY <1>3, <1>4, <1>6, <1>7
<1>9. data[n - off[i]] = n
  BY <1>6, <1>7, <1>8 DEF From
<1> QED
  BY <1>2, <1>5, <1>8, <1>9 DEF OnTheWire

(* What the relay has not handed on when it ends is lost for a reason.     *)
THEOREM LossIsExplained == Spec => []LossHasCause
<1>1. ASSUME IInv, EndInv PROVE LossHasCause
  <2>1. SUFFICES ASSUME ~Running, ~ws.broken, tcp.end # "reset"
                 PROVE  /\ Written = Len(toTcp.sent) \/ LatePing
                        /\ \/ toTcp.closed
                           \/ \A n \in 1 .. Len(toWs.sent) :
                                 n <= Len(toWs.got) \/ OnTheWire(n)
    BY DEF LossHasCause, Written
  <2>2. \/ toTcp.closed /\ Written = Len(toTcp.sent)
        \/ LatePing
    BY <1>1, <2>1 DEF EndInv, LossInv
  <2>3. ASSUME LatePing, ~toTcp.closed, NEW n \in 1 .. Len(toWs.sent), ~(n <= Len(toWs.got))
        PROVE  OnTheWire(n)
    <3>1. PICK m \in Nat : UpTo(m)
      BY <1>1, <2>1 DEF IInv, UpInv
    <3>2. "sent" \in ws.closes
      BY <2>3 DEF LatePing
    <3>3. m = Len(toWs.sent) /\ Adjacent(ws.out, Len(toWs.got), m)
      BY <2>3, <3>1, <3>2 DEF UpTo, AllSent
    <3>4. Len(toWs.got) \in Nat /\ TypeInv
      BY <1>1, Lengths DEF IInv
    <3>5. n \in (Len(toWs.got) + 1) .. m
      BY <2>3, <3>3, <3>4
    <3> QED
      BY <3>3, <3>4, <3>5, InAFrame
  <2> QED
    BY <2>2, <2>3
<1> QED
  BY <1>1, EndInvariance, PTL
--------------------------------------------------------------------------------
(***************************************************************************)
(* Each direction is a pipe: what a peer sends is put in, what the other   *)
(* reads is taken out, and the program's own steps cannot be seen.         *)
(***************************************************************************)
LEMMA ToWsNext == IInv /\ [Next]_vars => [ToWs!PipeNext]_(ToWs!pipeVars)
<1> SUFFICES ASSUME IInv, [Next]_vars PROVE ToWs!PipeNext \/ UNCHANGED ToWs!pipeVars
  OBVIOUS
<1> USE DEF IInv, ToWs!PipeNext, ToWs!pipeVars
<1>1. CASE TcpPeerSends
  <2>1. Len(toWs.sent) + 1 \in Units
    BY <1>1, Lengths, ProxyAssumption DEF TcpPeerSends, Units, ProxyAssumption
  <2>2. /\ toWs'.sent = Append(toWs.sent, Len(toWs.sent) + 1) /\ toWs'.got = toWs.got
        /\ toWs'.end = toWs.end /\ tcp.end = "open" /\ tcp'.end = tcp.end
    BY <1>1 DEF TcpPeerSends, TypeInv
  <2>3. ToWs!Put
    BY <2>1, <2>2 DEF ToWs!Put
  <2> QED
    BY <2>3
<1>2. CASE TcpPeerEnds \/ TcpReset
  <2>1. ToWs!EndInput
    BY <1>2 DEF TcpPeerEnds, TcpReset, ToWs!EndInput, TypeInv
  <2> QED
    BY <2>1
<1>3. CASE WsPeerReads
  <2> DEFINE frame == Head(ws.out)
  <2>1. /\ ws.out # <<>> /\ ~ws.broken /\ ws.out \in Seq(Frames) /\ toWs.end = "open"
        /\ toWs'.sent = toWs.sent /\ toWs'.got = toWs.got \o frame.data
        /\ toWs'.end = IF frame.kind # "close" THEN toWs.end
                       ELSE IF toTcp.closed THEN "cut" ELSE "clean"
        /\ tcp' = tcp
    BY <1>3, Lengths DEF WsPeerReads, relay, TypeInv, UpInv
  <2>2. PICK m \in Nat : UpTo(m)
    BY <2>1 DEF UpInv
  <2>3. /\ From(Len(toWs.got), frame.data) /\ Len(toWs.got) + Len(frame.data) <= m
        /\ Len(frame.data) \in Nat /\ m <= Len(toWs.sent)
        /\ Adjacent(Tail(ws.out), Len(toWs.got) + Len(frame.data), m)
    BY <2>1, <2>2, TakesFrame, Lengths DEF UpTo
  <2>4. From(0, toWs'.got) /\ Len(toWs'.got) = Len(toWs.got) + Len(frame.data)
    <3>1. PICK data : data = frame.data
      OBVIOUS
    <3>2. From(0, toWs.got) /\ From(Len(toWs.got), data) /\ toWs'.got = toWs.got \o data
      BY <2>1, <2>3, <3>1 DEF UpInv
    <3>3. From(0, toWs'.got) /\ Len(toWs'.got) = Len(toWs.got) + Len(data)
      BY <3>2, Follows
    <3> QED
      BY <3>1, <3>3
  <2>5. PICK g \in Nat, d \in Nat, t \in Nat :
          g = Len(toWs.got) /\ d = Len(frame.data) /\ t = Len(toWs.sent)
    BY <2>3, Lengths
  <2>6. Len(toWs'.got) = g + d /\ g + d <= t
    <3>1. g + d <= m /\ m <= t
      BY <2>3, <2>5
    <3>2. g + d <= t
      BY <3>1
    <3> QED
      BY <2>4, <2>5, <3>2
  <2> HIDE DEF frame
  <2>9. Len(toWs'.got) \in Len(toWs.got) .. Len(toWs.sent)
    <3>1. g + d \in g .. t
      BY <2>6
    <3> QED
      BY <2>5, <2>6, <3>1
  <2>10. toWs'.got = SubSeq(toWs.sent, 1, Len(toWs'.got))
    <3>1. PICK p, q : p = toWs'.got /\ q = toWs.sent
      OBVIOUS
    <3>2. From(0, p) /\ From(0, q) /\ Len(p) <= Len(q)
      BY <2>4, <2>5, <2>6, <3>1 DEF UpInv
    <3>3. p = SubSeq(q, 1, Len(p))
      BY <3>2, Arrived
    <3> QED
      BY <3>1, <3>3
  <2>7. CASE frame.kind # "close"
    <3>1. ToWs!Take
      BY <2>1, <2>7, <2>9, <2>10 DEF ToWs!Take
    <3> QED
      BY <3>1
  <2>8. CASE frame.kind = "close"
    <3>1. frame = ws.out[1] /\ 1 \in 1 .. Len(ws.out) /\ Len(Tail(ws.out)) = Len(ws.out) - 1
          /\ Tail(ws.out) \in Seq(Frames)
      BY <2>1, EmptySeq, HeadTailProperties DEF frame
    <3>2. 1 = Len(ws.out) /\ frame.data = <<>> /\ "sent" \in ws.closes
      BY <2>8, <3>1 DEF CloseInv
    <3>3. toWs'.got = toWs.got
      BY <2>1, <3>2, ConcatEmptySeq, Lengths
    <3>4. CASE toTcp.closed
      <4>1. ToWs!SeeEnd
        BY <2>1, <2>8, <3>3, <3>4 DEF ToWs!SeeEnd
      <4> QED
        BY <4>1
    <3>5. CASE ~toTcp.closed
      <4>1. tcp.end # "open" /\ m = Len(toWs.sent)
        BY <2>2, <3>2, <3>5 DEF UpTo, UpInv, AllSent
      <4>2. Adjacent(<<>>, Len(toWs.got) + Len(frame.data), m)
        <5>1. Len(Tail(ws.out)) = 0
          BY <3>1, <3>2
        <5> QED
          BY <2>3, <3>1, <5>1, EmptySeq
      <4>3. Len(toWs.got) = Len(toWs.sent)
        BY <2>4, <3>3, <4>1, <4>2, Together
      <4>4. toWs.got = toWs.sent
        BY <4>3, Determined DEF UpInv
      <4>5. ToWs!SeeEnd
        BY <2>1, <2>8, <3>3, <3>5, <4>1, <4>4 DEF ToWs!SeeEnd
      <4> QED
        BY <4>5
    <3> QED
      BY <3>4, <3>5
  <2> QED
    BY <2>7, <2>8
<1>4. CASE WsBreaks
  <2>1. CASE toWs.end = "open"
    <3>1. ToWs!SeeEnd
      BY <1>4, <2>1 DEF WsBreaks, Cut, relay, TypeInv, ToWs!SeeEnd
    <3> QED
      BY <3>1
  <2>2. CASE toWs.end # "open"
    BY <1>4, <2>2 DEF WsBreaks, Cut, relay, TypeInv
  <2> QED
    BY <2>1, <2>2
<1>5. CASE UpReadEof \/ UpLock \/ UpSend \/ UpClose \/ UpFails \/ DownNext \/ DownLock
           \/ DownPong \/ DownClose \/ DownFails
  BY <1>5 DEF UpReadEof, UpLock, UpSend, UpClose, UpFails, DownNext, DownLock, DownPong,
              DownClose, DownFails
<1>6. CASE UpRead \/ DownWrite \/ TcpPeerReads
  BY <1>6 DEF UpRead, DownWrite, TcpPeerReads, relay, TypeInv
<1>7. CASE TcpPeerSeesEnd \/ WsPeerSends \/ UNCHANGED vars
  BY <1>7 DEF TcpPeerSeesEnd, WsPeerSends, vars, relay
<1> QED
  BY <1>1, <1>2, <1>3, <1>4, <1>5, <1>6, <1>7 DEF Next, Up, Down, Peers

LEMMA ToTcpNext == IInv /\ [Next]_vars => [ToTcp!PipeNext]_(ToTcp!pipeVars)
<1> SUFFICES ASSUME IInv, [Next]_vars PROVE ToTcp!PipeNext \/ UNCHANGED ToTcp!pipeVars
  OBVIOUS
<1> USE DEF IInv, ToTcp!PipeNext, ToTcp!pipeVars
<1>1. CASE WsPeerSends
  <2>1. CASE toTcp' = toTcp
    BY <2>1
  <2>2. CASE toTcp' = [toTcp EXCEPT !.closed = TRUE]
    <3>1. ToTcp!EndInput
      BY <2>2 DEF ToTcp!EndInput, TypeInv, ToTcpType
    <3> QED
      BY <3>1
  <2>3. ASSUME NEW n \in 1 .. 2, NEW data, data = [i \in 1 .. n |-> Len(toTcp.sent) + i],
               Len(toTcp.sent) + n <= MaxUnits, ~toTcp.closed,
               toTcp' = [toTcp EXCEPT !.sent = toTcp.sent \o data]
        PROVE  ToTcp!Put
    <3>1. /\ data \in Seq(Units) /\ Len(data) = n /\ toTcp.sent \in Seq(Units)
          /\ \A i \in 1 .. n : data[i] \in Units
      BY <2>3, NextUnits, Lengths, ElementOfSeq
    <3>2. CASE n = 1
      <4>1. PICK u \in Units : u = data[1]
        BY <3>1, <3>2
      <4>2. data = <<u>>
        BY <3>1, <3>2, <4>1
      <4>3. toTcp'.sent = Append(toTcp.sent, u)
        <5>1. toTcp'.sent = toTcp.sent \o <<u>>
          BY <2>3, <4>2 DEF TypeInv, ToTcpType
        <5>2. Append(toTcp.sent, u) = toTcp.sent \o <<u>>
          BY <3>1, AppendIsConcat
        <5> QED
          BY <5>1, <5>2
      <4> QED
        BY <2>3, <4>3 DEF ToTcp!Put, TypeInv, ToTcpType
    <3>3. CASE n = 2
      <4>1. PICK u \in Units, v \in Units : u = data[1] /\ v = data[2]
        BY <3>1, <3>3
      <4>2. data = <<u, v>>
        BY <3>1, <3>3, <4>1
      <4>3. toTcp'.sent = toTcp.sent \o <<u, v>>
        BY <2>3, <4>2 DEF TypeInv, ToTcpType
      <4> QED
        BY <2>3, <4>3 DEF ToTcp!Put, TypeInv, ToTcpType
    <3> QED
      BY <3>2, <3>3
  <2> QED
    BY <1>1, <2>1, <2>2, <2>3 DEF WsPeerSends
<1>2. CASE TcpReset
  <2>1. CASE toTcp.end = "open"
    <3>1. ToTcp!SeeEnd
      BY <1>2, <2>1 DEF TcpReset, Cut, TypeInv, ToTcpType, ToTcp!SeeEnd
    <3> QED
      BY <3>1
  <2>2. CASE toTcp.end # "open"
    BY <1>2, <2>2 DEF TcpReset, Cut, TypeInv, ToTcpType
  <2> QED
    BY <2>1, <2>2
<1>3. CASE TcpPeerReads
  <2>1. /\ tcp.out # <<>> /\ tcp.end # "reset" /\ toTcp.end = "open"
        /\ toTcp'.got = Append(toTcp.got, Head(tcp.out)) /\ toTcp'.sent = toTcp.sent
        /\ toTcp'.closed = toTcp.closed /\ toTcp'.end = toTcp.end
    BY <1>3 DEF TcpPeerReads, TypeInv, ToTcpType, DownInv
  <2>2. PICK n \in Nat : DownAt(n)
    BY <2>1 DEF DownInv
  <2>3. PICK g \in Nat, o \in Nat, h \in Nat, t \in Nat :
          /\ g = Len(toTcp.got) /\ o = Len(tcp.out) /\ h = Len(down.hand)
          /\ t = Len(toTcp.sent)
    BY Lengths
  <2>4. /\ n = g + o /\ n + h <= t /\ From(g, tcp.out) /\ From(0, toTcp.got)
    BY <2>2, <2>3 DEF DownAt, DownInv
  <2>5. Head(tcp.out) \in Units /\ Head(tcp.out) = g + 1 /\ o \in Nat \ {0}
    BY <2>1, <2>3, <2>4, Shrinks
  <2>6. From(0, toTcp'.got) /\ Len(toTcp'.got) = g + 1
    <3>1. PICK u \in Units : u = Head(tcp.out)
      BY <2>5
    <3>2. u = 0 + Len(toTcp.got) + 1
      BY <2>3, <2>5, <3>1
    <3>3. /\ From(0, Append(toTcp.got, u))
          /\ Len(Append(toTcp.got, u)) = Len(toTcp.got) + 1
      BY <2>4, <3>2, Grows
    <3> QED
      BY <2>1, <2>3, <3>1, <3>3
  <2>7. Len(toTcp'.got) \in Len(toTcp.got) .. Len(toTcp.sent)
    <3>1. g + 1 \in g .. t
      BY <2>4, <2>5
    <3> QED
      BY <2>3, <2>6, <3>1
  <2>8. toTcp'.got = SubSeq(toTcp.sent, 1, Len(toTcp'.got))
    <3>1. PICK p, q : p = toTcp'.got /\ q = toTcp.sent
      OBVIOUS
    <3>2. From(0, p) /\ From(0, q) /\ Len(p) <= Len(q)
      <4>1. g + 1 <= t
        BY <2>4, <2>5
      <4> QED
        BY <2>3, <2>6, <3>1, <4>1 DEF DownInv
    <3>3. p = SubSeq(q, 1, Len(p))
      BY <3>2, Arrived
    <3> QED
      BY <3>1, <3>3
  <2>9. ToTcp!Take
    BY <2>1, <2>7, <2>8 DEF ToTcp!Take
  <2> QED
    BY <2>9
<1>4. CASE TcpPeerSeesEnd
  <2>1. /\ ~Running /\ tcp.out = <<>> /\ toTcp.end = "open" /\ tcp.end # "reset"
        /\ toTcp'.got = toTcp.got /\ toTcp'.sent = toTcp.sent
        /\ toTcp'.closed = toTcp.closed
        /\ toTcp'.end = IF result = "ok" THEN "clean" ELSE "cut"
    BY <1>4 DEF TcpPeerSeesEnd, TypeInv, ToTcpType, DownInv
  <2>2. result = "ok" => toTcp.closed /\ toTcp.got = toTcp.sent
    <3>1. SUFFICES ASSUME result = "ok" PROVE toTcp.closed /\ toTcp.got = toTcp.sent
      OBVIOUS
    <3>2. PICK n \in Nat : DownAt(n)
      BY <2>1 DEF DownInv
    <3>3. n = Len(toTcp.sent) /\ toTcp.closed /\ n = Len(toTcp.got)
      <4>1. Len(tcp.out) = 0 /\ Len(toTcp.got) \in Nat
        BY <2>1, EmptySeq, Lengths
      <4> QED
        BY <3>1, <3>2, <4>1 DEF DownAt
    <3> QED
      BY <3>3, Determined DEF DownInv
  <2>3. ToTcp!SeeEnd
    BY <2>1, <2>2 DEF ToTcp!SeeEnd
  <2> QED
    BY <2>3
<1>5. CASE Up \/ Down
  BY <1>5 DEF Up, Down, UpRead, UpReadEof, UpLock, UpSend, UpClose, UpFails, DownNext,
              DownWrite, DownLock, DownPong, DownClose, DownFails
<1>6. CASE TcpPeerSends \/ TcpPeerEnds \/ WsPeerReads \/ WsBreaks \/ UNCHANGED vars
  BY <1>6 DEF TcpPeerSends, TcpPeerEnds, WsPeerReads, WsBreaks, vars
<1> QED
  BY <1>1, <1>2, <1>3, <1>4, <1>5, <1>6 DEF Next, Peers

(* What the TCP peer sends reaches the WebSocket peer in order and once,   *)
(* and a Close that it did not provoke says that nothing is missing, for   *)
(* all sizes of buffers and messages.                                      *)
THEOREM ToWsIsAPipe == Spec => ToWsIsPipe
<1>1. Init => ToWs!PipeInit
  BY DEF Init, ToWs!PipeInit
<1> QED
  BY <1>1, ToWsNext, Invariance, PTL DEF Spec, ToWsIsPipe, ToWs!PipeSpec

(* The same the other way; the TCP stream ends cleanly only when all has   *)
(* been written to it.                                                     *)
THEOREM ToTcpIsAPipe == Spec => ToTcpIsPipe
<1>1. Init => ToTcp!PipeInit
  BY DEF Init, ToTcp!PipeInit
<1> QED
  BY <1>1, ToTcpNext, Invariance, PTL DEF Spec, ToTcpIsPipe, ToTcp!PipeSpec
--------------------------------------------------------------------------------
(***************************************************************************)
(* What keeps the two directions from holding each other up.               *)
(***************************************************************************)
(* The writer mutex is held by a future that is writing, and by no other:  *)
(* a guard is neither kept while its future reads on nor lost with it.     *)
HeldByItsUser ==
  /\ lock = "up" <=> up.at \in {"send", "close"}
  /\ lock = "down" <=> down.at \in {"pong", "close"}

(* Whoever waits for the writer waits for a future that is in the middle   *)
(* of a send() or close(), whatever fails and whichever future ends first: *)
(* this is the safe part of NeitherHoldsUpTheOther (bridge.rs:422-463).    *)
THEOREM WriterIsInUse == Spec => []HeldByItsUser
<1>1. Init => HeldByItsUser
  BY DEF Init, HeldByItsUser
<1>2. IInv /\ HeldByItsUser /\ [Next]_vars => HeldByItsUser'
  <2> SUFFICES ASSUME IInv, HeldByItsUser, [Next]_vars PROVE HeldByItsUser'
    OBVIOUS
  <2> USE DEF HeldByItsUser
  <2>1. /\ up \in [at : UpPlaces, hand : Seq(Units)]
        /\ down \in [at : DownPlaces, hand : Seq(Units)]
    BY DEF IInv, TypeInv
  <2>2. CASE UNCHANGED <<lock, up, down>>
    BY <2>2
  <2>3. CASE UpRead \/ UpReadEof
    BY <2>1, <2>3 DEF UpRead, UpReadEof
  <2>4. CASE UpLock
    BY <2>1, <2>4 DEF UpLock, Lock
  <2>5. CASE UpSend
    BY <2>1, <2>5 DEF UpSend
  <2>6. CASE UpClose
    BY <2>1, <2>6 DEF UpClose
  <2>7. CASE DownNext
    BY <2>1, <2>7 DEF DownNext
  <2>8. CASE DownWrite
    BY <2>1, <2>8 DEF DownWrite, CanWrite
  <2>9. CASE DownLock
    BY <2>1, <2>9 DEF DownLock, Lock
  <2>10. CASE DownPong
    BY <2>1, <2>10 DEF DownPong
  <2>11. CASE UpFails \/ DownClose \/ DownFails
    BY <2>11 DEF UpFails, DownClose, DownFails, Return
  <2>12. CASE Peers
    BY <2>2, <2>12
    DEF Peers, TcpPeerSends, TcpPeerEnds, TcpReset, TcpPeerReads, TcpPeerSeesEnd,
        WsPeerSends, WsPeerReads, WsBreaks, relay
  <2> QED
    BY <2>2, <2>3, <2>4, <2>5, <2>6, <2>7, <2>8, <2>9, <2>10, <2>11, <2>12
    DEF Next, Up, Down, vars
<1> QED
  BY <1>1, <1>2, Invariance, PTL DEF Spec

(* What ws_to_tcp has left to do before it takes the next frame.           *)
StepsLeft ==
  CASE down.at = "over" -> 0
    [] down.at = "next" -> 1
    [] down.at = "write" -> 1 + Len(down.hand)
    [] down.at \in {"pong", "close"} -> 2
    [] OTHER -> 3

(* Once the WebSocket peer has closed, every step that touches what        *)
(* ws_to_tcp has to do leaves less of it: fewer frames, or the same number *)
(* and fewer steps for the one in hand.  It comes to its end or fails,     *)
(* and the relay with it.  This is the safe part of CloseEndsRelay         *)
(* (bridge.rs:445-472).                                                    *)
THEOREM CloseRunsDown ==
  Spec =>
    /\ [](Len(ws.in) \in Nat /\ StepsLeft \in Nat /\ (StepsLeft = 0 <=> ~Running))
    /\ [][toTcp.closed =>
            \/ UNCHANGED <<ws.in, down>>
            \/ Len(ws.in)' < Len(ws.in)
            \/ ws'.in = ws.in /\ StepsLeft' < StepsLeft]_vars
<1>1. IInv => Len(ws.in) \in Nat /\ Len(down.hand) \in Nat
  BY Lengths DEF IInv
<1>2. IInv /\ (Running => down.at # "over")
        => Len(ws.in) \in Nat /\ StepsLeft \in Nat /\ (StepsLeft = 0 <=> ~Running)
  BY <1>1 DEF StepsLeft, IInv, LockInv, TypeInv, DownPlaces
<1>3. Init => (Running => down.at # "over")
  BY DEF Init
<1>4. IInv /\ (Running => down.at # "over") /\ [Next]_vars => (Running => down.at # "over")'
  <2> SUFFICES ASSUME IInv, Running => down.at # "over", [Next]_vars
               PROVE  (Running => down.at # "over")'
    OBVIOUS
  <2>1. CASE UNCHANGED <<result, down>>
    BY <2>1 DEF Running
  <2>2. CASE Down
    BY <2>2
    DEF Down, DownNext, DownWrite, CanWrite, DownLock, Lock, DownPong, DownClose, DownFails,
        Return, Running, IInv, TypeInv
  <2>3. CASE UpFails
    BY <2>3 DEF UpFails, Return, Running
  <2> QED
    BY <2>1, <2>2, <2>3
    DEF Next, Up, UpRead, UpReadEof, UpLock, Lock, UpSend, UpClose, Peers, TcpPeerSends,
        TcpPeerEnds, TcpReset, TcpPeerReads, TcpPeerSeesEnd, WsPeerSends, WsPeerReads,
        WsBreaks, relay, vars
<1>5. IInv /\ (Running => down.at # "over") /\ [Next]_vars =>
        [toTcp.closed =>
           \/ UNCHANGED <<ws.in, down>>
           \/ Len(ws.in)' < Len(ws.in)
           \/ ws'.in = ws.in /\ StepsLeft' < StepsLeft]_vars
  <2> SUFFICES ASSUME IInv, Running => down.at # "over", Next, toTcp.closed
               PROVE  \/ UNCHANGED <<ws.in, down>>
                      \/ Len(ws.in)' < Len(ws.in)
                      \/ ws'.in = ws.in /\ StepsLeft' < StepsLeft
    OBVIOUS
  <2>1. /\ down \in [at : DownPlaces, hand : Seq(Units)] /\ ws \in WsType
        /\ Len(down.hand) \in Nat /\ ws.in \in Seq(Frames) /\ down.hand \in Seq(Units)
    BY Lengths DEF IInv, TypeInv
  <2>2. CASE DownNext
    <3>1. ws'.in = Tail(ws.in) /\ ws.in # <<>>
      BY <2>1, <2>2 DEF DownNext, WsType
    <3>2. Len(Tail(ws.in)) = Len(ws.in) - 1 /\ Len(ws.in) \in Nat
      BY <2>1, <3>1, HeadTailProperties, LenProperties
    <3> QED
      BY <3>1, <3>2
  <2>3. CASE DownWrite
    <3>1. down.at = "write" /\ down.hand # <<>> /\ ws' = ws
      BY <2>3 DEF DownWrite, CanWrite, IInv, DownInv
    <3>2. Len(Tail(down.hand)) = Len(down.hand) - 1
      BY <2>1, <3>1, HeadTailProperties
    <3>3. /\ down'.hand = Tail(down.hand)
          /\ down'.at = IF Len(down.hand) = 1 THEN "next" ELSE "write"
      BY <2>3 DEF DownWrite
    <3> QED
      BY <2>1, <3>1, <3>2, <3>3 DEF StepsLeft
  <2>4. CASE DownLock
    <3>1. /\ ws' = ws /\ down.at \in {"lockPong", "lockClose"}
          /\ down'.at \in {"pong", "close"}
      BY <2>1, <2>4 DEF DownLock, Lock
    <3> QED
      BY <3>1 DEF StepsLeft
  <2>5. CASE DownPong
    <3>1. down.at = "pong" /\ down'.at = "next" /\ ws'.in = ws.in
      BY <2>1, <2>5 DEF DownPong, Send, WsType
    <3> QED
      BY <3>1 DEF StepsLeft
  <2>6. CASE DownClose \/ DownFails \/ UpFails
    <3>1. down'.at = "over" /\ ws'.in = ws.in /\ down.at # "over"
      <4>1. ws'.in = ws.in
        BY <2>1, <2>6 DEF DownClose, DownFails, UpFails, SendClose, WsType
      <4>2. Running
        BY <2>6 DEF DownClose, DownFails, UpFails, IInv, LockInv
      <4> QED
        BY <2>6, <4>1, <4>2 DEF DownClose, DownFails, UpFails, Return
    <3>2. StepsLeft \in Nat /\ StepsLeft # 0 /\ StepsLeft' = 0
      BY <2>1, <3>1 DEF StepsLeft
    <3> QED
      BY <3>1, <3>2
  <2>7. CASE Up /\ ~UpFails
    BY <2>1, <2>7
    DEF Up, UpRead, UpReadEof, UpLock, Lock, UpSend, Send, UpClose, SendClose, WsType
  <2>8. CASE Peers
    BY <2>1, <2>8
    DEF Peers, TcpPeerSends, TcpPeerEnds, TcpReset, TcpPeerReads, TcpPeerSeesEnd,
        WsPeerSends, WsPeerReads, WsBreaks, relay, WsType
  <2> QED
    BY <2>2, <2>3, <2>4, <2>5, <2>6, <2>7, <2>8 DEF Next, Down
<1> QED
  BY <1>2, <1>3, <1>4, <1>5, Invariance, PTL DEF Spec
================================================================================
