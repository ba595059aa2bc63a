--------------------------- MODULE ConsoleProofs ---------------------------
(***************************************************************************)
(* Proofs about module Console, for every value of its constants.          *)
(*                                                                         *)
(* What the pages show is safe because of the order of the signals that    *)
(* are still queued: the chain of the signals in toGui, the frames on      *)
(* their way and the signal the connection may give rise to next is        *)
(* well-formed, link by link, and its first link fits what the console     *)
(* shows.  A slot takes the first link away; a connection lost takes away  *)
(* its end.  The table of the nodes is safe because the end of the         *)
(* connection it came over is still to come, or queued before any other    *)
(* connection.                                                             *)
(***************************************************************************)
EXTENDS Console, SequenceTheorems, TLAPS

-----------------------------------------------------------------------------
(***************************************************************************)
(* The inductive invariant                                                 *)
(***************************************************************************)
\* "done" stands for the end of a connection the bridge refused.
Link == [name : Signals \cup {"done"}, of : Sids]

\* b may be the signal that comes right after a.
Follows(a, b) ==
  /\ b.name = "state" => a.name \in {"hello_ok", "state"} /\ a.of = b.of
  /\ b.name \in {"hello_ok", "hello_no"} => a.name = "connected" /\ a.of = b.of
  /\ b.name = "connected" => a.name \in {"error", "disconnected"}
  /\ b.name = "done" => a.name = "hello_no"

\* b may be the first signal the console g has yet to handle.
Fits(g, b) ==
  /\ b.name = "state" => g.connected /\ g.session = b.of
  /\ b.name \in {"hello_ok", "hello_no", "connected", "done"} =>
       ~g.connected /\ g.shown = Nothing
  /\ b.name = "hello_ok" => g.session = b.of

\* e may be the signal that comes right after those in s.
MayFollow(g, s, e) == IF s = <<>> THEN Fits(g, e) ELSE Follows(s[Len(s)], e)

Chained(g, s) ==
  /\ s # <<>> => Fits(g, s[1])
  /\ \A i \in 1..(Len(s) - 1) : Follows(s[i], s[i + 1])

\* The frames of n, as the signals of connection k they will be.
AsSignals(n, k) == [i \in DOMAIN n |-> Signal(n[i], k)]

\* What the console has yet to handle.
Coming == toGui \o AsSignals(net, sid)

\* What the connection may give rise to next, besides its end.
NextUp ==
  IF socket # "connected" THEN {Signal("connected", sid)}
  ELSE IF peer = "hello"   THEN {Signal("hello_ok", sid), Signal("hello_no", sid)}
  ELSE IF peer = "session" THEN {Signal("state", sid)}
  ELSE IF peer = "refused" THEN {Signal("done", sid)}
  ELSE {}

SignalsInOrder ==
  /\ Chained(gui, Coming)
  /\ \A e \in NextUp : MayFollow(gui, Coming, e)

\* A state on the screen is that of the session, and so is what is beside it.
Live(g) ==
  g.shown # Nothing =>
    /\ g.connected /\ g.shown = g.session
    /\ g.nodes = g.shown /\ g.listed = g.shown

ShownIsSession == Live(gui)

\* Behind the first k signals of q the end of the connection they belong to is
\* queued, before any other connection, or is still to come: the socket is up.
EndsAfter(q, up, k) ==
  \/ \E j \in 1..Len(q) :
       /\ j > k /\ q[j].name = "disconnected"
       /\ \A i \in 1..Len(q) : k < i /\ i < j => q[i].name # "connected"
  \/ /\ up
     /\ \A i \in 1..Len(q) : k < i => q[i].name \notin {"connected", "error"}

Up == socket = "connected"

EndQueued == \E i \in 1..Len(toGui) : toGui[i].name = "disconnected"

\* The table of the nodes outlives its connection only until disconnected().
NodesOwned ==
  /\ gui.nodes # Nothing =>
       EndsAfter(toGui, Up, 0) /\ (gui.connected \/ EndQueued)
  /\ \A i \in 1..Len(toGui) :
       toGui[i].name = "state" => EndsAfter(toGui, Up, i)

SocketMatchesPeer ==
  /\ (socket = "connected") = (peer # "none")
  /\ socket # "connected" => net = <<>>
  /\ peer = "hello" => net = <<>>

\* The last start or stop that is queued is a stop.
StopComes ==
  \E i \in DOMAIN toWorker :
    /\ toWorker[i].name = "stop"
    /\ \A j \in DOMAIN toWorker : j > i => toWorker[j].name # "start"

\* After a manual disconnection a stop is on its way or has been done.  Before
\* the first click nothing has happened at all.
DisconnectHolds ==
  intent = "disconnect" =>
    /\ ~gui.timer
    /\ IF gui.manual
         THEN \/ StopComes
              \/ /\ socket = "unconnected"
                 /\ \A i \in DOMAIN toWorker : toWorker[i].name # "start"
         ELSE toWorker = <<>> /\ toGui = <<>> /\ socket = "unconnected"

Typed ==
  /\ gui \in Guis /\ (gui.timer => gui.pending)
  /\ toWorker \in Seq([name : {"start", "stop", "cmd"}, of : Sids])
  /\ toGui \in Seq([name : Signals, of : Sids])
  /\ socket \in {"unconnected", "connecting", "connected"}
  /\ sid \in Sids /\ guarded \in BOOLEAN /\ heard \in BOOLEAN
  /\ peer \in {"none", "hello", "session", "refused", "closed", "silent"}
  /\ net \in Seq(Frames)
  /\ intent \in {"connect", "disconnect", "retry"}
  /\ clicks \in 0..MaxClicks /\ faults \in 0..MaxFaults

IInv ==
  /\ Typed /\ world \in Worlds /\ SocketMatchesPeer /\ DisconnectHolds
  /\ SignalsInOrder /\ ShownIsSession /\ NodesOwned
-----------------------------------------------------------------------------
(***************************************************************************)
(* Chains of signals                                                       *)
(***************************************************************************)
LEMMA SeqFacts ==
  ASSUME NEW S, NEW s \in Seq(S)
  PROVE  /\ Len(s) \in Nat /\ DOMAIN s = 1..Len(s)
         /\ (s = <<>>) = (Len(s) = 0)
         /\ \A i \in 1..Len(s) : s[i] \in S
<1>1. s = <<>> => Len(s) = 0
  BY EmptySeq
<1>2. s # <<>> => Len(s) \in Nat \ {0}
  BY EmptySeq
<1>3. QED
  BY <1>1, <1>2, LenProperties, ElementOfSeq

LEMMA HeadTailConcat ==
  ASSUME NEW S, NEW s \in Seq(S), NEW t \in Seq(S), s # <<>>
  PROVE  Head(s \o t) = Head(s) /\ Tail(s \o t) = Tail(s) \o t
<1>. DEFINE q == s \o t
            r == Tail(s)
<1>1. /\ q \in Seq(S) /\ Len(q) = Len(s) + Len(t)
      /\ \A i \in 1..(Len(s) + Len(t)) :
           q[i] = IF i <= Len(s) THEN s[i] ELSE t[i - Len(s)]
      /\ Len(s) \in Nat \ {0} /\ Len(t) \in Nat
  BY ConcatProperties, SeqFacts, EmptySeq
<1>2. /\ r \in Seq(S) /\ Len(r) = Len(s) - 1
      /\ \A i \in 1..Len(r) : r[i] = s[i + 1]
  BY HeadTailProperties
<1>3. Head(s) = s[1]
  BY SMT
<1>. HIDE DEF q, r
<1>4. q # <<>>
  BY <1>1, SeqFacts
<1>5. /\ Tail(q) \in Seq(S) /\ Len(Tail(q)) = Len(q) - 1
      /\ \A i \in 1..Len(Tail(q)) : Tail(q)[i] = q[i + 1]
  BY <1>1, <1>4, HeadTailProperties
<1>6. Head(q) = q[1]
  BY <1>1, <1>4, SMT
<1>7. /\ r \o t \in Seq(S) /\ Len(r \o t) = Len(r) + Len(t)
      /\ \A i \in 1..(Len(r) + Len(t)) :
           (r \o t)[i] = IF i <= Len(r) THEN r[i] ELSE t[i - Len(r)]
  BY <1>2, ConcatProperties
<1>8. Len(Tail(q)) = Len(r \o t)
  BY <1>1, <1>2, <1>5, <1>7
<1>9. ASSUME NEW i \in 1..Len(Tail(q))
      PROVE  Tail(q)[i] = (r \o t)[i]
  <2>1. /\ i \in 1..(Len(r) + Len(t)) /\ i + 1 \in 1..(Len(s) + Len(t))
        /\ Tail(q)[i] = q[i + 1]
    BY <1>1, <1>2, <1>5
  <2>2. CASE i <= Len(r)
    <3>1. i \in 1..Len(r) /\ i + 1 <= Len(s)
      BY <1>1, <1>2, <2>1, <2>2
    <3>2. QED
      BY <1>1, <1>2, <1>7, <2>1, <2>2, <3>1
  <2>3. CASE ~(i <= Len(r))
    <3>1. ~(i + 1 <= Len(s)) /\ (i + 1) - Len(s) = i - Len(r)
      BY <1>1, <1>2, <2>1, <2>3
    <3>2. q[i + 1] = t[(i + 1) - Len(s)]
      BY <1>1, <2>1, <3>1
    <3>3. (r \o t)[i] = t[i - Len(r)]
      BY <1>7, <2>1, <2>3
    <3>4. QED
      BY <2>1, <3>1, <3>2, <3>3
  <2>4. QED
    BY <2>2, <2>3
<1>10. Tail(q) = r \o t
  BY <1>5, <1>7, <1>8, <1>9, SeqEqual
<1>11. q[1] = s[1]
  BY <1>1
<1>12. QED
  BY <1>3, <1>6, <1>10, <1>11 DEF q, r

LEMMA PrefixChained ==
  ASSUME NEW g, NEW s \in Seq(Link), NEW t \in Seq(Link), Chained(g, s \o t)
  PROVE  Chained(g, s)
<1>1. /\ Len(s) \in Nat /\ Len(t) \in Nat /\ Len(s \o t) = Len(s) + Len(t)
      /\ \A i \in 1..Len(s) : (s \o t)[i] = s[i]
      /\ s # <<>> => s \o t # <<>>
      /\ (s = <<>>) = (Len(s) = 0)
  BY ConcatProperties, ConcatEqualIffEmpty, SeqFacts
<1>2. ASSUME s # <<>>
      PROVE  Fits(g, s[1])
  BY <1>1, <1>2 DEF Chained
<1>3. ASSUME NEW i \in 1..(Len(s) - 1)
      PROVE  Follows(s[i], s[i + 1])
  <2>1. i \in 1..(Len(s \o t) - 1) /\ i \in 1..Len(s) /\ i + 1 \in 1..Len(s)
    BY <1>1, <1>3
  <2>2. QED
    BY <1>1, <2>1 DEF Chained
<1>4. QED
  BY <1>2, <1>3 DEF Chained

LEMMA AppendChained ==
  ASSUME NEW g, NEW s \in Seq(Link), NEW e \in Link, Chained(g, s),
         MayFollow(g, s, e)
  PROVE  /\ s \o <<e>> \in Seq(Link) /\ s \o <<e>> # <<>>
         /\ Chained(g, s \o <<e>>)
         /\ \A f : MayFollow(g, s \o <<e>>, f) = Follows(e, f)
<1>. DEFINE q == s \o <<e>>
<1>1. /\ <<e>> \in Seq(Link) /\ Len(<<e>>) = 1 /\ <<e>>[1] = e
  OBVIOUS
<1>2. /\ q \in Seq(Link) /\ Len(s) \in Nat /\ Len(q) = Len(s) + 1
      /\ \A i \in 1..Len(s) : q[i] = s[i]
      /\ q[Len(s) + 1] = e
      /\ (s = <<>>) = (Len(s) = 0) /\ (q = <<>>) = (Len(q) = 0)
  <2>1. /\ q \in Seq(Link) /\ Len(q) = Len(s) + 1
        /\ \A i \in 1..(Len(s) + 1) :
             q[i] = IF i <= Len(s) THEN s[i] ELSE <<e>>[i - Len(s)]
    BY <1>1, ConcatProperties
  <2>2. Len(s) \in Nat
    BY SeqFacts
  <2>3. q[Len(s) + 1] = e
    BY <1>1, <2>1, <2>2
  <2>4. QED
    BY <2>1, <2>2, <2>3, SeqFacts
<1>. HIDE DEF q
<1>3. q # <<>> /\ q[Len(q)] = e
  BY <1>2
<1>4. Fits(g, q[1])
  <2>1. CASE s = <<>>
    BY <1>2, <2>1 DEF MayFollow
  <2>2. CASE s # <<>>
    BY <1>2, <2>2 DEF Chained
  <2>3. QED
    BY <2>1, <2>2
<1>5. ASSUME NEW i \in 1..(Len(q) - 1)
      PROVE  Follows(q[i], q[i + 1])
  <2>1. CASE i < Len(s)
    BY <1>2, <2>1 DEF Chained
  <2>2. CASE i = Len(s)
    BY <1>2, <2>2 DEF MayFollow
  <2>3. QED
    BY <1>2, <2>1, <2>2
<1>6. /\ Chained(g, q)
      /\ \A f : MayFollow(g, q, f) = Follows(e, f)
  BY <1>3, <1>4, <1>5 DEF Chained, MayFollow
<1>7. QED
  BY <1>2, <1>3, <1>6 DEF q

\* A slot handles the first signal of a chain.
LEMMA TailChained ==
  ASSUME NEW g, NEW h, NEW s \in Seq(Link), s # <<>>, Chained(g, s),
         \A e \in Link : Follows(Head(s), e) => Fits(h, e)
  PROVE  /\ Head(s) = s[1] /\ Tail(s) \in Seq(Link)
         /\ Chained(h, Tail(s))
         /\ \A e \in Link : MayFollow(g, s, e) => MayFollow(h, Tail(s), e)
<1>. DEFINE t == Tail(s)
<1>1. /\ Head(s) = s[1] /\ t \in Seq(Link) /\ Len(t) = Len(s) - 1
      /\ \A i \in 1..Len(t) : t[i] = s[i + 1]
      /\ Len(s) \in Nat \ {0} /\ (t = <<>>) = (Len(t) = 0)
      /\ \A i \in 1..Len(s) : s[i] \in Link
  <2>1. /\ t \in Seq(Link) /\ Len(t) = Len(s) - 1
        /\ \A i \in 1..Len(t) : t[i] = s[i + 1]
    BY HeadTailProperties
  <2>2. Head(s) = s[1]
    BY SMT
  <2>3. QED
    BY <2>1, <2>2, SeqFacts, EmptySeq
<1>. HIDE DEF t
<1>2. ASSUME t # <<>>
      PROVE  Fits(h, t[1])
  <2>1. 1 \in 1..Len(t) /\ 1 \in 1..(Len(s) - 1)
    BY <1>1, <1>2
  <2>2. t[1] = s[2] /\ Follows(s[1], s[2]) /\ s[2] \in Link
    BY <1>1, <2>1 DEF Chained
  <2>3. QED
    BY <1>1, <2>2
<1>3. ASSUME NEW i \in 1..(Len(t) - 1)
      PROVE  Follows(t[i], t[i + 1])
  BY <1>1 DEF Chained
<1>4. ASSUME NEW e \in Link, MayFollow(g, s, e)
      PROVE  MayFollow(h, t, e)
  <2>1. Follows(s[Len(s)], e)
    BY <1>4 DEF MayFollow
  <2>2. CASE t = <<>>
    <3>1. Len(s) = 1
      BY <1>1, <2>2
    <3>2. Fits(h, e)
      BY <1>1, <2>1, <3>1
    <3>3. QED
      BY <2>2, <3>2 DEF MayFollow
  <2>3. CASE t # <<>>
    <3>1. t[Len(t)] = s[Len(s)]
      BY <1>1, <2>3
    <3>2. QED
      BY <2>1, <2>3, <3>1 DEF MayFollow
  <2>4. QED
    BY <2>2, <2>3
<1>5. Chained(h, t)
  BY <1>2, <1>3 DEF Chained
<1>6. QED
  BY <1>1, <1>4, <1>5 DEF t

\* The end of a connection may come at any time, and a new connection after it.
LEMMA ClosingChained ==
  ASSUME NEW g, NEW s \in Seq(Link), NEW e \in Link, Chained(g, s),
         e.name \in {"error", "disconnected"}
  PROVE  /\ s \o <<e>> \in Seq(Link) /\ Chained(g, s \o <<e>>)
         /\ \A k : MayFollow(g, s \o <<e>>, Signal("connected", k))
<1>1. MayFollow(g, s, e)
  BY DEF MayFollow, Follows, Fits
<1>2. \A k : Follows(e, Signal("connected", k))
  BY DEF Follows, Signal
<1>3. QED
  BY <1>1, <1>2, AppendChained
-----------------------------------------------------------------------------
(***************************************************************************)
(* Signals and frames                                                      *)
(***************************************************************************)
LEMMA SignalType ==
  ASSUME NEW x, NEW k
  PROVE  /\ Signal(x, k).name = x /\ Signal(x, k).of = k
         /\ x \in Signals /\ k \in Sids =>
              Signal(x, k) \in [name : Signals, of : Sids]
         /\ x \in Signals \cup {"done"} /\ k \in Sids => Signal(x, k) \in Link
BY DEF Signal, Link

LEMMA SignalsAreLinks == Seq([name : Signals, of : Sids]) \subseteq Seq(Link)
<1>1. [name : Signals, of : Sids] \subseteq Link
  BY DEF Link
<1>2. QED
  BY <1>1, SeqMonotonic

LEMMA AsSignalsType ==
  ASSUME NEW n \in Seq(Signals), NEW k \in Sids
  PROVE  /\ AsSignals(n, k) \in Seq([name : Signals, of : Sids])
         /\ AsSignals(n, k) \in Seq(Link)
         /\ Len(AsSignals(n, k)) = Len(n)
         /\ \A i \in 1..Len(n) : AsSignals(n, k)[i] = Signal(n[i], k)
<1>1. /\ Len(n) \in Nat /\ DOMAIN n = 1..Len(n)
      /\ \A i \in 1..Len(n) : n[i] \in Signals
  BY SeqFacts
<1>2. /\ AsSignals(n, k) \in [1..Len(n) -> [name : Signals, of : Sids]]
      /\ \A i \in 1..Len(n) : AsSignals(n, k)[i] = Signal(n[i], k)
  BY <1>1, SignalType DEF AsSignals
<1>3. /\ AsSignals(n, k) \in Seq([name : Signals, of : Sids])
      /\ Len(AsSignals(n, k)) = Len(n)
  <2>. DEFINE f == AsSignals(n, k)
              T == [name : Signals, of : Sids]
  <2>. HIDE DEF f, T
  <2>1. f \in [1..Len(n) -> T]
    BY <1>2 DEF f, T
  <2>2. f \in Seq(T)
    BY <1>1, <2>1, SeqDef
  <2>3. DOMAIN f = 1..Len(n) /\ DOMAIN f = 1..Len(f) /\ Len(f) \in Nat
    BY <2>1, <2>2, LenProperties
  <2>4. Len(f) = Len(n)
    BY <1>1, <2>3
  <2>5. QED
    BY <2>2, <2>4 DEF f, T
<1>4. QED
  BY <1>2, <1>3, SignalsAreLinks

LEMMA FewSignals ==
  ASSUME NEW k \in Sids
  PROVE  /\ AsSignals(<<>>, k) = <<>>
         /\ \A x \in Signals : AsSignals(<<x>>, k) = <<Signal(x, k)>>
<1>1. AsSignals(<<>>, k) = <<>>
  <2>1. <<>> \in Seq(Signals) /\ Len(<<>>) = 0
    BY EmptySeq
  <2>2. AsSignals(<<>>, k) \in Seq(Link) /\ Len(AsSignals(<<>>, k)) = 0
    BY <2>1, AsSignalsType
  <2>3. QED
    BY <2>2, SeqFacts
<1>2. ASSUME NEW x \in Signals
      PROVE  AsSignals(<<x>>, k) = <<Signal(x, k)>>
  <2>1. <<x>> \in Seq(Signals) /\ Len(<<x>>) = 1 /\ <<x>>[1] = x
    OBVIOUS
  <2>2. /\ AsSignals(<<x>>, k) \in Seq(Link) /\ Len(AsSignals(<<x>>, k)) = 1
        /\ AsSignals(<<x>>, k)[1] = Signal(x, k)
    <3>. DEFINE n == <<x>>
    <3>1. n \in Seq(Signals) /\ Len(n) = 1 /\ n[1] = x
      BY <2>1
    <3>. HIDE DEF n
    <3>2. /\ AsSignals(n, k) \in Seq(Link) /\ Len(AsSignals(n, k)) = 1
          /\ AsSignals(n, k)[1] = Signal(x, k)
      BY <3>1, AsSignalsType
    <3>3. QED
      BY <3>2 DEF n
  <2>3. /\ <<Signal(x, k)>> \in Seq(Link) /\ Len(<<Signal(x, k)>>) = 1
        /\ <<Signal(x, k)>>[1] = Signal(x, k)
    <3>1. Signal(x, k) \in Link
      BY SignalType
    <3>2. QED
      BY <3>1
  <2>4. QED
    BY <2>2, <2>3, SeqEqual
<1>3. QED
  BY <1>1, <1>2

\* Frames in two parts
LEMMA SplitSignals ==
  ASSUME NEW m \in Seq(Signals), NEW n \in Seq(Signals), NEW k \in Sids
  PROVE  AsSignals(m \o n, k) = AsSignals(m, k) \o AsSignals(n, k)
<1>. DEFINE a == AsSignals(m, k)
            b == AsSignals(n, k)
            c == AsSignals(m \o n, k)
<1>1. /\ m \o n \in Seq(Signals) /\ Len(m \o n) = Len(m) + Len(n)
      /\ \A i \in 1..(Len(m) + Len(n)) :
           (m \o n)[i] = IF i <= Len(m) THEN m[i] ELSE n[i - Len(m)]
      /\ Len(m) \in Nat /\ Len(n) \in Nat
  BY ConcatProperties, SeqFacts
<1>2. /\ a \in Seq(Link) /\ Len(a) = Len(m)
      /\ \A i \in 1..Len(m) : a[i] = Signal(m[i], k)
      /\ b \in Seq(Link) /\ Len(b) = Len(n)
      /\ \A i \in 1..Len(n) : b[i] = Signal(n[i], k)
  BY AsSignalsType
<1>3. /\ c \in Seq(Link) /\ Len(c) = Len(m) + Len(n)
      /\ \A i \in 1..(Len(m) + Len(n)) : c[i] = Signal((m \o n)[i], k)
  BY <1>1, AsSignalsType
<1>. HIDE DEF a, b, c
<1>4. /\ a \o b \in Seq(Link) /\ Len(a \o b) = Len(m) + Len(n)
      /\ \A i \in 1..(Len(m) + Len(n)) :
           (a \o b)[i] = IF i <= Len(m) THEN a[i] ELSE b[i - Len(m)]
  <2>1. /\ a \o b \in Seq(Link) /\ Len(a \o b) = Len(a) + Len(b)
        /\ \A i \in 1..(Len(a) + Len(b)) :
             (a \o b)[i] = IF i <= Len(a) THEN a[i] ELSE b[i - Len(a)]
    <3>1. a \in Seq(Link) /\ b \in Seq(Link)
      BY <1>2
    <3>2. QED
      BY <3>1, ConcatProperties
  <2>2. QED
    BY <1>2, <2>1
<1>5. ASSUME NEW i \in 1..Len(c)
      PROVE  c[i] = (a \o b)[i]
  <2>1. CASE i <= Len(m)
    <3>1. i \in 1..Len(m) /\ i \in 1..(Len(m) + Len(n))
      BY <1>1, <1>3, <2>1
    <3>2. QED
      BY <1>1, <1>2, <1>3, <1>4, <2>1, <3>1
  <2>2. CASE ~(i <= Len(m))
    <3>1. i - Len(m) \in 1..Len(n) /\ i \in 1..(Len(m) + Len(n))
      BY <1>1, <1>3, <2>2
    <3>2. c[i] = Signal(n[i - Len(m)], k)
      BY <1>1, <1>3, <2>2, <3>1
    <3>3. (a \o b)[i] = Signal(n[i - Len(m)], k)
      BY <1>2, <1>4, <2>2, <3>1
    <3>4. QED
      BY <3>2, <3>3
  <2>3. QED
    BY <2>1, <2>2
<1>6. c = a \o b
  BY <1>3, <1>4, <1>5, SeqEqual
<1>7. QED
  BY <1>6 DEF a, b, c

\* The signals by which this side closes the socket
Closings == {<<"error">>, <<"disconnected">>, <<"error", "disconnected">>}

LEMMA ClosingsChained ==
  ASSUME NEW g, NEW s \in Seq(Link), NEW k \in Sids, Chained(g, s),
         NEW names \in Closings
  PROVE  /\ names \in Seq(Signals)
         /\ Chained(g, s \o AsSignals(names, k))
         /\ \A j : MayFollow(g, s \o AsSignals(names, k), Signal("connected", j))
<1>. DEFINE e == Signal("error", k)
            d == Signal("disconnected", k)
<1>1. /\ e \in Link /\ d \in Link /\ e.name = "error" /\ d.name = "disconnected"
      /\ AsSignals(<<"error">>, k) = <<e>>
      /\ AsSignals(<<"disconnected">>, k) = <<d>>
  BY SignalType, FewSignals DEF Signals
<1>2. <<"error">> \in Seq(Signals) /\ <<"disconnected">> \in Seq(Signals)
  BY DEF Signals
<1>3. <<"error", "disconnected">> = <<"error">> \o <<"disconnected">>
  OBVIOUS
<1>4. AsSignals(<<"error", "disconnected">>, k) = <<e>> \o <<d>>
  BY <1>1, <1>2, <1>3, SplitSignals
<1>. HIDE DEF e, d
<1>5. /\ s \o <<e>> \in Seq(Link) /\ Chained(g, s \o <<e>>)
      /\ \A j : MayFollow(g, s \o <<e>>, Signal("connected", j))
      /\ Chained(g, s \o <<d>>)
      /\ \A j : MayFollow(g, s \o <<d>>, Signal("connected", j))
  BY <1>1, ClosingChained
<1>6. /\ Chained(g, (s \o <<e>>) \o <<d>>)
      /\ \A j : MayFollow(g, (s \o <<e>>) \o <<d>>, Signal("connected", j))
  BY <1>1, <1>5, ClosingChained
<1>7. (s \o <<e>>) \o <<d>> = s \o (<<e>> \o <<d>>)
  <2>1. <<e>> \in Seq(Link) /\ <<d>> \in Seq(Link)
    BY <1>1
  <2>2. QED
    BY <2>1, ConcatAssociative
<1>8. names \in Seq(Signals)
  <2>1. <<"error", "disconnected">> \in Seq(Signals)
    BY <1>2, <1>3, ConcatProperties
  <2>2. QED
    BY <1>2, <2>1 DEF Closings
<1>9. QED
  BY <1>1, <1>4, <1>5, <1>6, <1>7, <1>8 DEF Closings

-----------------------------------------------------------------------------
(***************************************************************************)
(* The order of the signals                                                *)
(***************************************************************************)
LEMMA ComingFacts ==
  ASSUME Typed, SignalsInOrder
  PROVE  /\ toGui \in Seq(Link) /\ net \in Seq(Signals)
         /\ AsSignals(net, sid) \in Seq(Link) /\ Coming \in Seq(Link)
         /\ Chained(gui, toGui)
         /\ net = <<>> => Coming = toGui
<1>1. toGui \in Seq(Link) /\ net \in Seq(Signals) /\ sid \in Sids
  <2>1. net \in Seq(Frames) /\ Frames \subseteq Signals
    BY DEF Typed, Frames, Signals
  <2>2. QED
    BY <2>1, SeqMonotonic, SignalsAreLinks DEF Typed
<1>2. AsSignals(net, sid) \in Seq(Link)
  BY <1>1, AsSignalsType
<1>3. Coming \in Seq(Link)
  BY <1>1, <1>2, ConcatProperties DEF Coming
<1>4. Chained(gui, toGui)
  BY <1>1, <1>2, PrefixChained DEF SignalsInOrder, Coming
<1>5. ASSUME net = <<>>
      PROVE  Coming = toGui
  <2>1. AsSignals(net, sid) = <<>>
    BY <1>1, <1>5, FewSignals
  <2>2. QED
    BY <1>1, <2>1, ConcatEmptySeq DEF Coming
<1>6. QED
  BY <1>1, <1>2, <1>3, <1>4, <1>5

\* The socket is closed, whatever was on its way is lost.
LEMMA OrderAfterClosing ==
  ASSUME Typed, SignalsInOrder, NEW names \in Closings,
         toGui' = toGui \o AsSignals(names, sid), net' = <<>>, gui' = gui,
         socket' # "connected", sid' \in Sids
  PROVE  SignalsInOrder'
<1>1. /\ toGui \in Seq(Link) /\ Chained(gui, toGui) /\ sid \in Sids
  BY ComingFacts DEF Typed
<1>2. /\ names \in Seq(Signals)
      /\ Chained(gui, toGui')
      /\ \A j : MayFollow(gui, toGui', Signal("connected", j))
  BY <1>1, ClosingsChained
<1>3. toGui' \in Seq(Link)
  BY <1>1, <1>2, AsSignalsType, ConcatProperties
<1>4. AsSignals(net', sid') = <<>>
  BY FewSignals
<1>5. Coming' = toGui'
  BY <1>3, <1>4, ConcatEmptySeq DEF Coming
<1>6. NextUp' = {Signal("connected", sid')}
  BY DEF NextUp
<1>7. QED
  BY <1>2, <1>5, <1>6 DEF SignalsInOrder

\* A socket that was not connected is closed or opened, without a signal.
LEMMA OrderUnconnected ==
  ASSUME Typed, SocketMatchesPeer, SignalsInOrder, socket # "connected",
         toGui' = toGui, net' = <<>>, gui' = gui,
         socket' # "connected", sid' \in Sids
  PROVE  SignalsInOrder'
<1>1. Coming = toGui /\ toGui \in Seq(Link)
  BY ComingFacts DEF SocketMatchesPeer
<1>2. AsSignals(net', sid') = <<>>
  BY FewSignals
<1>3. Coming' = Coming
  BY <1>1, <1>2, ConcatEmptySeq DEF Coming
<1>4. /\ NextUp = {Signal("connected", sid)}
      /\ NextUp' = {Signal("connected", sid')}
  BY DEF NextUp
<1>5. MayFollow(gui, Coming, Signal("connected", sid))
        => MayFollow(gui, Coming, Signal("connected", sid'))
  BY DEF MayFollow, Fits, Follows, Signal
<1>6. QED
  BY <1>3, <1>4, <1>5 DEF SignalsInOrder

LEMMA EmitsSignals ==
  ASSUME NEW names, Emit(names)
  PROVE  toGui' = toGui \o AsSignals(names, sid)
BY DEF Emit, AsSignals

LEMMA OrderCloseSocket ==
  ASSUME Typed, SocketMatchesPeer, SignalsInOrder,
         NEW before \in {<<>>, <<"error">>}, CloseSocket(before),
         gui' = gui, sid' = sid
  PROVE  SignalsInOrder'
<1>. DEFINE names == IF socket = "connected" THEN Append(before, "disconnected")
                                             ELSE before
<1>1. /\ toGui' = toGui \o AsSignals(names, sid) /\ net' = <<>>
      /\ socket' # "connected" /\ sid' \in Sids
  BY EmitsSignals DEF CloseSocket, Typed
<1>2. /\ Append(<<>>, "disconnected") = <<"disconnected">>
      /\ Append(<<"error">>, "disconnected") = <<"error", "disconnected">>
  <2>1. /\ <<>> \in Seq(Signals) /\ <<"error">> \in Seq(Signals)
        /\ "disconnected" \in Signals
    BY DEF Signals
  <2>2. /\ Append(<<>>, "disconnected") = <<>> \o <<"disconnected">>
        /\ Append(<<"error">>, "disconnected") = <<"error">> \o <<"disconnected">>
    BY <2>1, AppendIsConcat
  <2>3. <<>> \o <<"disconnected">> = <<"disconnected">>
    <3>1. <<"disconnected">> \in Seq(Signals)
      BY DEF Signals
    <3>2. QED
      BY <3>1, ConcatEmptySeq
  <2>4. <<"error", "disconnected">> = <<"error">> \o <<"disconnected">>
    OBVIOUS
  <2>5. QED
    BY <2>2, <2>3, <2>4
<1>3. CASE names \in Closings
  <2>. HIDE DEF names
  <2>1. QED
    BY <1>1, <1>3, OrderAfterClosing
<1>4. CASE names \notin Closings
  <2>1. socket # "connected" /\ names = <<>>
    BY <1>2, <1>4 DEF Closings
  <2>. HIDE DEF names
  <2>2. AsSignals(names, sid) = <<>> /\ toGui \in Seq(Link)
    BY <2>1, FewSignals, ComingFacts DEF Typed
  <2>3. toGui' = toGui
    BY <1>1, <2>2, ConcatEmptySeq
  <2>4. QED
    BY <1>1, <2>1, <2>3, OrderUnconnected
<1>5. QED
  BY <1>3, <1>4

\* Clicks and the reconnect timer change nothing the signals depend on.
LEMMA OrderSameConsole ==
  ASSUME SignalsInOrder, UNCHANGED <<toGui, net, sid, socket, peer>>,
         gui'.connected = gui.connected, gui'.session = gui.session,
         gui'.shown = gui.shown
  PROVE  SignalsInOrder'
<1>1. Coming' = Coming /\ NextUp' = NextUp
  BY DEF Coming, NextUp
<1>2. \A b : Fits(gui, b) = Fits(gui', b)
  BY DEF Fits
<1>3. Chained(gui, Coming) = Chained(gui', Coming)
  BY <1>2 DEF Chained
<1>4. \A e : MayFollow(gui, Coming, e) = MayFollow(gui', Coming, e)
  BY <1>2 DEF MayFollow
<1>5. QED
  BY <1>1, <1>3, <1>4 DEF SignalsInOrder

\* HELLO is sent: the bridge may accept or refuse it.
LEMMA OrderSocketConnected ==
  ASSUME Typed, SocketMatchesPeer, SignalsInOrder, SocketConnected
  PROVE  SignalsInOrder'
<1>. DEFINE e == Signal("connected", sid)
<1>1. /\ socket = "connecting" /\ net = <<>> /\ net' = <<>> /\ gui' = gui
      /\ sid \in Sids /\ sid' = sid
  BY DEF SocketConnected, SocketMatchesPeer, Typed
<1>2. Coming = toGui /\ toGui \in Seq(Link) /\ Chained(gui, toGui)
  BY <1>1, ComingFacts
<1>3. toGui' = toGui \o <<e>> /\ e \in Link
  <2>1. "connected" \in Signals
    BY DEF Signals
  <2>2. Emit(<<"connected">>)
    BY DEF SocketConnected
  <2>3. QED
    BY <1>1, <2>1, <2>2, EmitsSignals, FewSignals, SignalType
<1>4. MayFollow(gui, toGui, e)
  BY <1>1, <1>2 DEF SignalsInOrder, NextUp
<1>. HIDE DEF e
<1>5. /\ toGui' \in Seq(Link) /\ Chained(gui, toGui')
      /\ \A f : MayFollow(gui, toGui', f) = Follows(e, f)
  BY <1>2, <1>3, <1>4, AppendChained
<1>6. Coming' = toGui'
  <2>1. AsSignals(net', sid') = <<>>
    BY <1>1, FewSignals
  <2>2. QED
    BY <1>5, <2>1, ConcatEmptySeq DEF Coming
<1>7. NextUp' = {Signal("hello_ok", sid), Signal("hello_no", sid)}
  BY <1>1 DEF NextUp, SocketConnected
<1>8. Follows(e, Signal("hello_ok", sid)) /\ Follows(e, Signal("hello_no", sid))
  BY DEF Follows, Signal, e
<1>9. QED
  BY <1>1, <1>5, <1>6, <1>7, <1>8 DEF SignalsInOrder

\* A frame becomes a signal: the chain is what it was.
LEMMA OrderReadFrame ==
  ASSUME Typed, SignalsInOrder, ReadFrame
  PROVE  SignalsInOrder'
<1>1. /\ net # <<>> /\ net' = Tail(net) /\ sid' = sid /\ sid \in Sids
      /\ gui' = gui /\ socket' = socket /\ peer' = peer
  BY DEF ReadFrame, Typed
<1>2. /\ toGui \in Seq(Link) /\ net \in Seq(Signals)
  BY ComingFacts
<1>3. /\ <<Head(net)>> \in Seq(Signals) /\ Tail(net) \in Seq(Signals)
      /\ net = <<Head(net)>> \o Tail(net)
  <2>1. Head(net) \in Signals /\ Tail(net) \in Seq(Signals)
    BY <1>1, <1>2, HeadTailProperties
  <2>2. <<Head(net)>> \in Seq(Signals)
    BY <2>1
  <2>3. /\ Len(<<Head(net)>>) = 1 /\ <<Head(net)>>[1] = Head(net)
        /\ Head(net) = net[1] /\ Len(net) \in Nat \ {0}
        /\ Len(Tail(net)) = Len(net) - 1
        /\ \A i \in 1..(Len(net) - 1) : Tail(net)[i] = net[i + 1]
    <3>1. Head(net) = net[1]
      BY <1>1, <1>2
    <3>2. QED
      BY <3>1, <1>1, <1>2, HeadTailProperties, EmptySeq
  <2>. DEFINE h == <<Head(net)>>
              t == Tail(net)
              q == h \o t
  <2>. HIDE DEF h, t
  <2>4. h \in Seq(Signals) /\ t \in Seq(Signals) /\ Len(h) = 1
    BY <2>1, <2>2, <2>3 DEF h, t
  <2>5. /\ q \in Seq(Signals) /\ Len(q) = Len(h) + Len(t)
        /\ \A i \in 1..(Len(h) + Len(t)) :
             q[i] = IF i <= Len(h) THEN h[i] ELSE t[i - Len(h)]
    BY <2>4, ConcatProperties
  <2>. HIDE DEF q
  <2>6. Len(q) = Len(net) /\ \A i \in 1..Len(net) : net[i] = q[i]
    <3>1. /\ Len(t) = Len(net) - 1 /\ h[1] = net[1] /\ Len(net) \in Nat \ {0}
          /\ \A i \in 1..(Len(net) - 1) : t[i] = net[i + 1]
      BY <2>3 DEF h, t
    <3>2. QED
      BY <2>4, <2>5, <3>1
  <2>7. q = net
    BY <1>2, <2>5, <2>6, SeqEqual
  <2>8. QED
    BY <2>1, <2>2, <2>7 DEF q, h, t
<1>4. toGui' = toGui \o AsSignals(<<Head(net)>>, sid)
  BY EmitsSignals DEF ReadFrame
<1>5. AsSignals(net, sid)
        = AsSignals(<<Head(net)>>, sid) \o AsSignals(Tail(net), sid)
  BY <1>1, <1>3, SplitSignals, ZenonT(30)
<1>6. /\ AsSignals(<<Head(net)>>, sid) \in Seq(Link)
      /\ AsSignals(Tail(net), sid) \in Seq(Link)
  BY <1>1, <1>3, AsSignalsType
<1>7. Coming' = Coming
  <2>1. Coming' = (toGui \o AsSignals(<<Head(net)>>, sid)) \o AsSignals(Tail(net), sid)
    BY <1>1, <1>4 DEF Coming
  <2>2. QED
    BY <1>2, <1>5, <1>6, <2>1, ConcatAssociative, SMTT(30) DEF Coming
<1>8. NextUp' = NextUp
  BY <1>1 DEF NextUp
<1>9. QED
  BY <1>1, <1>7, <1>8 DEF SignalsInOrder

\* The bridge answers HELLO, reports, or is lost.
LEMMA OrderBridge ==
  ASSUME Typed, SocketMatchesPeer, SignalsInOrder,
         BridgeAccepts \/ BridgeRefuses \/ BridgeReports \/ ConnectionLost
  PROVE  SignalsInOrder'
<1>. DEFINE ok == Signal("hello_ok", sid)
            no == Signal("hello_no", sid)
            st == Signal("state", sid)
            dn == Signal("done", sid)
<1>1. /\ sid \in Sids /\ sid' = sid /\ gui' = gui /\ toGui' = toGui
      /\ socket' = socket /\ socket = "connected"
  BY DEF Typed, SocketMatchesPeer, BridgeAccepts, BridgeRefuses, BridgeReports,
         ConnectionLost, workerVars
<1>2. /\ ok \in Link /\ no \in Link /\ st \in Link /\ dn \in Link
      /\ AsSignals(<<"hello_ok">>, sid) = <<ok>>
      /\ AsSignals(<<"hello_no">>, sid) = <<no>>
      /\ AsSignals(<<"state">>, sid) = <<st>>
  BY <1>1, SignalType, FewSignals DEF Signals
<1>3. Follows(ok, st) /\ Follows(st, st) /\ Follows(no, dn)
  BY DEF Follows, Signal
<1>4. /\ toGui \in Seq(Link) /\ Coming \in Seq(Link) /\ Chained(gui, toGui)
      /\ net = <<>> => Coming = toGui
  BY ComingFacts
<1>5. CASE BridgeAccepts
  <2>1. /\ peer = "hello" /\ net = <<>> /\ peer' = "session"
        /\ net' = <<"hello_ok", "state">>
    <3>1. <<>> \o <<"hello_ok", "state">> = <<"hello_ok", "state">>
      <4>1. <<"hello_ok", "state">> \in Seq(Signals)
        BY DEF Signals
      <4>2. QED
        BY <4>1, ConcatEmptySeq
    <3>2. QED
      BY <1>5, <3>1 DEF BridgeAccepts, SocketMatchesPeer
  <2>2. MayFollow(gui, toGui, ok)
    BY <1>1, <1>4, <2>1 DEF SignalsInOrder, NextUp
  <2>3. AsSignals(net', sid) = <<ok>> \o <<st>>
    <3>1. <<"hello_ok">> \in Seq(Signals) /\ <<"state">> \in Seq(Signals)
      BY DEF Signals
    <3>2. <<"hello_ok", "state">> = <<"hello_ok">> \o <<"state">>
      OBVIOUS
    <3>3. QED
      BY <1>1, <1>2, <2>1, <3>1, <3>2, SplitSignals
  <2>4. NextUp' = {st}
    BY <1>1, <2>1 DEF NextUp
  <2>. HIDE DEF ok, no, st, dn
  <2>5. /\ toGui \o <<ok>> \in Seq(Link) /\ Chained(gui, toGui \o <<ok>>)
        /\ MayFollow(gui, toGui \o <<ok>>, st)
    BY <1>2, <1>3, <1>4, <2>2, AppendChained
  <2>6. /\ Chained(gui, (toGui \o <<ok>>) \o <<st>>)
        /\ MayFollow(gui, (toGui \o <<ok>>) \o <<st>>, st)
    <3>. DEFINE q == toGui \o <<ok>>
    <3>1. q \in Seq(Link) /\ Chained(gui, q) /\ MayFollow(gui, q, st)
      BY <2>5
    <3>. HIDE DEF q
    <3>2. /\ Chained(gui, q \o <<st>>)
          /\ \A f : MayFollow(gui, q \o <<st>>, f) = Follows(st, f)
      BY <1>2, <3>1, AppendChained
    <3>3. QED
      BY <1>3, <3>2 DEF q
  <2>7. Coming' = (toGui \o <<ok>>) \o <<st>>
    <3>1. <<ok>> \in Seq(Link) /\ <<st>> \in Seq(Link)
      BY <1>2
    <3>2. QED
      BY <1>1, <1>4, <2>3, <3>1, ConcatAssociative DEF Coming
  <2>8. QED
    BY <1>1, <2>4, <2>6, <2>7 DEF SignalsInOrder
<1>6. CASE BridgeRefuses
  <2>1. /\ peer = "hello" /\ net = <<>> /\ peer' = "refused"
        /\ net' = <<"hello_no">>
    BY <1>6 DEF BridgeRefuses, SocketMatchesPeer
  <2>2. MayFollow(gui, toGui, no)
    BY <1>1, <1>4, <2>1 DEF SignalsInOrder, NextUp
  <2>3. NextUp' = {dn}
    BY <1>1, <2>1 DEF NextUp
  <2>4. Coming' = toGui \o <<no>>
    BY <1>1, <1>2, <2>1 DEF Coming
  <2>. HIDE DEF ok, no, st, dn
  <2>5. Chained(gui, toGui \o <<no>>) /\ MayFollow(gui, toGui \o <<no>>, dn)
    BY <1>2, <1>3, <1>4, <2>2, AppendChained
  <2>6. QED
    BY <1>1, <2>3, <2>4, <2>5 DEF SignalsInOrder
<1>7. CASE BridgeReports
  <2>1. /\ peer = "session" /\ net = <<>> /\ peer' = "session"
        /\ net' = <<"state">>
    BY <1>7 DEF BridgeReports
  <2>2. MayFollow(gui, toGui, st)
    BY <1>1, <1>4, <2>1 DEF SignalsInOrder, NextUp
  <2>3. NextUp' = {st}
    BY <1>1, <2>1 DEF NextUp
  <2>4. Coming' = toGui \o <<st>>
    BY <1>1, <1>2, <2>1 DEF Coming
  <2>. HIDE DEF ok, no, st, dn
  <2>5. Chained(gui, toGui \o <<st>>) /\ MayFollow(gui, toGui \o <<st>>, st)
    BY <1>2, <1>3, <1>4, <2>2, AppendChained
  <2>6. QED
    BY <1>1, <2>3, <2>4, <2>5 DEF SignalsInOrder
<1>8. CASE ConnectionLost
  <2>1. peer' \in {"closed", "silent"} /\ net' \in {<<>>, net}
    BY <1>8 DEF ConnectionLost
  <2>2. NextUp' = {}
    BY <1>1, <2>1 DEF NextUp
  <2>3. Coming' \in {toGui, Coming}
    <3>1. CASE net' = <<>>
      BY <1>1, <1>4, <3>1, FewSignals, ConcatEmptySeq DEF Coming
    <3>2. CASE net' = net
      BY <1>1, <3>2 DEF Coming
    <3>3. QED
      BY <2>1, <3>1, <3>2
  <2>4. QED
    BY <1>1, <1>4, <2>2, <2>3 DEF SignalsInOrder
<1>9. QED
  BY <1>5, <1>6, <1>7, <1>8

-----------------------------------------------------------------------------
(***************************************************************************)
(* The slots of the GUI thread                                             *)
(***************************************************************************)
LEMMA ReconnectKeeps ==
  ASSUME NEW g \in Guis, g.timer => g.pending
  PROVE  LET h == ScheduleReconnect(g)
         IN  /\ h \in Guis /\ (h.timer => h.pending)
             /\ h.connected = g.connected /\ h.session = g.session
             /\ h.shown = g.shown /\ h.nodes = g.nodes /\ h.listed = g.listed
             /\ h.manual = g.manual
             /\ g.manual => h.timer = g.timer
BY DEF ScheduleReconnect, Guis

\* What the console is after the slot of signal s.
AfterSlot(g, s) ==
  CASE s.name = "connected"    -> Connected(g, s.of)
    [] s.name = "disconnected" -> Disconnected(g)
    [] s.name = "hello_ok"     -> HelloOk(g)
    [] s.name = "hello_no"     -> HelloRefused(g)
    [] s.name = "state"        -> StateReceived(g, s.of)
    [] s.name = "error"        -> Error(g)

LEMMA OneSlot ==
  ASSUME NEW g \in Guis, g.timer => g.pending,
         NEW s \in [name : Signals, of : Sids]
  PROVE  LET h == AfterSlot(g, s)
         IN  /\ h \in Guis /\ (h.timer => h.pending)
             /\ s.name # "hello_no" => h.manual = g.manual
             /\ g.manual /\ ~g.timer /\ s.name # "hello_no" => ~h.timer
             /\ s.name = "disconnected" => h.nodes = Nothing
             /\ s.name \notin {"disconnected", "state"} => h.nodes = g.nodes
             /\ s.name \in {"hello_ok", "hello_no", "state"} /\ Fits(g, s)
                  => h.connected \/ ~g.connected
             /\ Fits(g, s) /\ Live(g)
                  => /\ Live(h)
                     /\ \A e \in Link : Follows(s, e) => Fits(h, e)
<1>. DEFINE h == AfterSlot(g, s)
            Rest == /\ s.name # "hello_no" => h.manual = g.manual
                    /\ g.manual /\ ~g.timer /\ s.name # "hello_no" => ~h.timer
            Nodes == /\ s.name = "disconnected" => h.nodes = Nothing
                     /\ s.name \notin {"disconnected", "state"} => h.nodes = g.nodes
                     /\ s.name \in {"hello_ok", "hello_no", "state"} /\ Fits(g, s)
                          => h.connected \/ ~g.connected
            Goal == /\ h \in Guis /\ (h.timer => h.pending)
                    /\ Rest /\ Nodes
                    /\ Fits(g, s) /\ Live(g) =>
                         /\ Live(h)
                         /\ \A e \in Link : Follows(s, e) => Fits(h, e)
<1>. SUFFICES Goal
  OBVIOUS
<1>1. s.name \in Signals /\ s.of \in Sids /\ Nothing \in Sids
  BY BoundsAssumption DEF Sids, Nothing
<1>2. CASE s.name = "connected"
  <2>1. h = Connected(g, s.of)
    BY <1>2 DEF AfterSlot
  <2>. HIDE DEF h
  <2>2. /\ h \in Guis /\ ~h.timer /\ h.manual = g.manual /\ ~h.connected
        /\ h.session = s.of /\ h.shown = g.shown /\ h.nodes = g.nodes
    BY <1>1, <2>1 DEF Connected, StopTimer, Guis
  <2>3. QED
    BY <1>2, <2>2 DEF Fits, Follows, Live
<1>3. CASE s.name = "disconnected"
  <2>. DEFINE q == ClearNodes(ResetRemote(Offline(g)))
  <2>1. h = ScheduleReconnect(q)
    BY <1>3 DEF AfterSlot, Disconnected
  <2>2. /\ q \in Guis /\ (q.timer => q.pending) /\ ~q.connected
        /\ q.shown = Nothing /\ q.nodes = Nothing
        /\ q.manual = g.manual /\ q.timer = g.timer
    BY <1>1 DEF ClearNodes, ResetRemote, Offline, Guis
  <2>. HIDE DEF h, q
  <2>3. /\ h \in Guis /\ (h.timer => h.pending) /\ ~h.connected
        /\ h.shown = Nothing /\ h.nodes = Nothing /\ h.manual = g.manual
        /\ g.manual => h.timer = g.timer
    BY <2>1, <2>2, ReconnectKeeps
  <2>4. QED
    BY <1>3, <2>3 DEF Fits, Follows, Live
<1>4. CASE s.name = "hello_ok"
  <2>1. h = HelloOk(g)
    BY <1>4 DEF AfterSlot
  <2>. HIDE DEF h
  <2>2. /\ h \in Guis /\ ~h.timer /\ h.manual = g.manual /\ h.connected
        /\ h.session = g.session /\ h.shown = g.shown /\ h.nodes = g.nodes
    BY <2>1 DEF HelloOk, StopTimer, Guis
  <2>3. QED
    BY <1>4, <2>2 DEF Fits, Follows, Live
<1>5. CASE s.name = "hello_no"
  <2>. DEFINE q == [Offline(g) EXCEPT !.manual = FALSE]
  <2>1. h = ScheduleReconnect(q)
    BY <1>5 DEF AfterSlot, HelloRefused
  <2>2. /\ q \in Guis /\ (q.timer => q.pending) /\ ~q.connected
        /\ q.shown = g.shown /\ q.nodes = g.nodes
    BY DEF Offline, Guis
  <2>. HIDE DEF h, q
  <2>3. /\ h \in Guis /\ (h.timer => h.pending) /\ ~h.connected
        /\ h.shown = g.shown /\ h.nodes = g.nodes
    BY <2>1, <2>2, ReconnectKeeps
  <2>4. QED
    BY <1>5, <2>3 DEF Fits, Follows, Live
<1>6. CASE s.name = "state"
  <2>1. h = StateReceived(g, s.of)
    BY <1>6 DEF AfterSlot
  <2>. HIDE DEF h
  <2>2. /\ h \in Guis /\ h.timer = g.timer /\ h.pending = g.pending
        /\ h.manual = g.manual /\ h.connected = g.connected
        /\ h.session = g.session
        /\ h.shown = s.of /\ h.nodes = s.of /\ h.listed = s.of
    BY <1>1, <2>1 DEF StateReceived, Guis
  <2>3. QED
    BY <1>6, <2>2 DEF Fits, Follows, Live
<1>7. CASE s.name = "error"
  <2>1. h = ResetRemote(Offline(g))
    BY <1>7 DEF AfterSlot, Error
  <2>. HIDE DEF h
  <2>2. /\ h \in Guis /\ h.timer = g.timer /\ h.pending = g.pending
        /\ h.manual = g.manual /\ ~h.connected /\ h.shown = Nothing
        /\ h.nodes = g.nodes
    BY <1>1, <2>1 DEF ResetRemote, Offline, Guis
  <2>3. QED
    BY <1>7, <2>2 DEF Fits, Follows, Live
<1>. HIDE DEF Goal
<1>8. QED
  BY <1>1, <1>2, <1>3, <1>4, <1>5, <1>6, <1>7 DEF Signals

LEMMA SlotFacts ==
  ASSUME Typed, GuiSlot
  PROVE  /\ toGui # <<>> /\ Head(toGui) \in [name : Signals, of : Sids]
         /\ toGui' = Tail(toGui)
         /\ toGui' \in Seq([name : Signals, of : Sids])
         /\ gui' = AfterSlot(gui, Head(toGui))
<1>1. toGui # <<>> /\ toGui' = Tail(toGui)
  BY DEF GuiSlot
<1>2. gui' = AfterSlot(gui, Head(toGui))
  BY DEF GuiSlot, AfterSlot
<1>3. QED
  BY <1>1, <1>2, HeadTailProperties DEF Typed

LEMMA OrderGuiSlot ==
  ASSUME Typed, SignalsInOrder, ShownIsSession, GuiSlot
  PROVE  SignalsInOrder' /\ ShownIsSession'
<1>. DEFINE s == Head(toGui)
            f == AsSignals(net, sid)
<1>1. /\ toGui # <<>> /\ s \in [name : Signals, of : Sids]
      /\ toGui' = Tail(toGui) /\ gui' = AfterSlot(gui, s)
      /\ gui \in Guis /\ (gui.timer => gui.pending)
  BY SlotFacts DEF Typed
<1>2. /\ toGui \in Seq(Link) /\ f \in Seq(Link) /\ Coming \in Seq(Link)
  BY ComingFacts
<1>3. /\ Coming # <<>> /\ Head(Coming) = s /\ Tail(Coming) = Tail(toGui) \o f
  <2>1. Coming # <<>>
    BY <1>1, <1>2, ConcatEqualIffEmpty DEF Coming
  <2>2. Head(Coming) = s /\ Tail(Coming) = Tail(toGui) \o f
    BY <1>1, <1>2, HeadTailConcat DEF Coming
  <2>3. QED
    BY <2>1, <2>2
<1>4. Coming' = Tail(Coming) /\ NextUp' = NextUp
  BY <1>1, <1>3 DEF GuiSlot, Coming, NextUp, workerVars, bridgeVars
<1>. HIDE DEF s
<1>5. Head(Coming) = Coming[1]
  BY <1>2, <1>3
<1>6. Fits(gui, s)
  BY <1>3, <1>5 DEF SignalsInOrder, Chained
<1>7. /\ Live(gui')
      /\ \A e \in Link : Follows(s, e) => Fits(gui', e)
  BY <1>1, <1>6, OneSlot DEF ShownIsSession
<1>8. /\ Chained(gui', Tail(Coming))
      /\ \A e \in Link : MayFollow(gui, Coming, e) => MayFollow(gui', Tail(Coming), e)
  <2>1. Chained(gui, Coming)
    BY DEF SignalsInOrder
  <2>2. QED
    BY <1>2, <1>3, <1>7, <2>1, TailChained
<1>9. NextUp \subseteq Link
  BY SignalType DEF NextUp, Signals, Typed
<1>10. QED
  BY <1>4, <1>7, <1>8, <1>9 DEF SignalsInOrder, ShownIsSession

-----------------------------------------------------------------------------
(***************************************************************************)
(* The table of the nodes                                                  *)
(***************************************************************************)
\* t ends a connection and opens none.
Closes(t) ==
  /\ t # <<>> /\ t[Len(t)].name = "disconnected"
  /\ \A i \in 1..Len(t) : t[i].name # "connected"

Quiet(t) == \A i \in 1..Len(t) : t[i].name \notin {"connected", "error"}

\* Signals are emitted.
LEMMA EndsConcat ==
  ASSUME NEW q \in Seq(Link), NEW t \in Seq(Link), NEW k \in 0..Len(q),
         NEW up, NEW now, EndsAfter(q, up, k),
         up => Closes(t) \/ (now /\ Quiet(t))
  PROVE  EndsAfter(q \o t, now, k)
<1>. DEFINE m == Len(q)
            n == Len(t)
            c == q \o t
<1>1. /\ Len(c) = m + n /\ m \in Nat /\ n \in Nat
      /\ \A i \in 1..(m + n) : c[i] = IF i <= m THEN q[i] ELSE t[i - m]
      /\ (t = <<>>) = (n = 0)
  BY ConcatProperties, SeqFacts
<1>. HIDE DEF m, n, c
<1>2. /\ \A i \in 1..m : i \in 1..(m + n) /\ c[i] = q[i]
      /\ \A i \in 1..n : i + m \in 1..(m + n) /\ c[i + m] = t[i]
      /\ \A i \in 1..(m + n) : i \in 1..m \/ (i - m \in 1..n /\ c[i] = t[i - m])
  BY <1>1
<1>3. k \in 0..m
  BY DEF m
<1>4. ASSUME NEW j \in 1..m, j > k, q[j].name = "disconnected",
             \A i \in 1..m : k < i /\ i < j => q[i].name # "connected"
      PROVE  EndsAfter(c, now, k)
  <2>1. j \in 1..(m + n) /\ c[j].name = "disconnected"
    BY <1>2, <1>4
  <2>2. ASSUME NEW i \in 1..(m + n), k < i, i < j
        PROVE  c[i].name # "connected"
    <3>1. i \in 1..m
      BY <1>1, <2>2
    <3>2. QED
      BY <1>2, <1>4, <2>2, <3>1
  <2>3. QED
    BY <1>1, <1>4, <2>1, <2>2 DEF EndsAfter
<1>5. ASSUME up, \A i \in 1..m : k < i => q[i].name \notin {"connected", "error"}
      PROVE  EndsAfter(c, now, k)
  <2>1. CASE Closes(t)
    <3>1. /\ n \in 1..n /\ t[n].name = "disconnected"
          /\ \A i \in 1..n : t[i].name # "connected"
      BY <1>1, <2>1 DEF Closes, n
    <3>2. m + n \in 1..(m + n) /\ c[m + n].name = "disconnected" /\ m + n > k
      <4>1. n + m = m + n /\ m + n > k
        BY <1>1, <1>3, <3>1
      <4>2. QED
        BY <1>2, <3>1, <4>1
    <3>3. \A i \in 1..(m + n) : k < i => c[i].name # "connected"
      BY <1>2, <1>5, <3>1
    <3>4. QED
      BY <1>1, <3>2, <3>3 DEF EndsAfter
  <2>2. CASE now /\ Quiet(t)
    <3>1. \A i \in 1..n : t[i].name \notin {"connected", "error"}
      BY <2>2 DEF Quiet, n
    <3>2. \A i \in 1..(m + n) : k < i => c[i].name \notin {"connected", "error"}
      BY <1>2, <1>5, <3>1
    <3>3. QED
      BY <1>1, <2>2, <3>2 DEF EndsAfter
  <2>3. QED
    BY <1>5, <2>1, <2>2
<1>6. EndsAfter(c, now, k)
  BY <1>4, <1>5 DEF EndsAfter, m
<1>7. QED
  BY <1>6 DEF c

\* A signal is handled.
LEMMA EndsTail ==
  ASSUME NEW q \in Seq(Link), q # <<>>, NEW up
  PROVE  /\ \A k \in 1..Len(q) : EndsAfter(q, up, k) => EndsAfter(Tail(q), up, k - 1)
         /\ EndsAfter(q, up, 0) =>
              /\ Head(q).name # "connected"
              /\ Head(q).name # "disconnected" => EndsAfter(Tail(q), up, 0)
<1>. DEFINE n == Len(q)
            t == Tail(q)
<1>1. /\ Head(q) = q[1] /\ Len(t) = n - 1 /\ n \in Nat \ {0}
      /\ \A i \in 1..Len(t) : t[i] = q[i + 1]
  <2>1. Head(q) = q[1]
    BY SMT
  <2>2. QED
    BY <2>1, HeadTailProperties, EmptySeq
<1>. HIDE DEF n, t
<1>2. /\ \A i \in 1..(n - 1) : i + 1 \in 1..n /\ t[i] = q[i + 1]
      /\ \A i \in 1..n : i # 1 => i - 1 \in 1..(n - 1) /\ t[i - 1] = q[i]
  BY <1>1
<1>3. ASSUME NEW k \in 1..n, EndsAfter(q, up, k)
      PROVE  EndsAfter(t, up, k - 1)
  <2>1. ASSUME NEW j \in 1..n, j > k, q[j].name = "disconnected",
               \A i \in 1..n : k < i /\ i < j => q[i].name # "connected"
        PROVE  EndsAfter(t, up, k - 1)
    <3>1. /\ j - 1 \in 1..(n - 1) /\ j - 1 > k - 1
          /\ t[j - 1].name = "disconnected"
      BY <1>2, <2>1
    <3>2. ASSUME NEW i \in 1..(n - 1), k - 1 < i, i < j - 1
          PROVE  t[i].name # "connected"
      <4>1. i + 1 \in 1..n /\ k < i + 1 /\ i + 1 < j
        BY <1>1, <3>2
      <4>2. QED
        BY <1>2, <2>1, <3>2, <4>1
    <3>3. QED
      BY <1>1, <3>1, <3>2 DEF EndsAfter
  <2>2. ASSUME up, \A i \in 1..n : k < i => q[i].name \notin {"connected", "error"}
        PROVE  EndsAfter(t, up, k - 1)
    <3>1. ASSUME NEW i \in 1..(n - 1), k - 1 < i
          PROVE  t[i].name \notin {"connected", "error"}
      <4>1. i + 1 \in 1..n /\ k < i + 1
        BY <1>1, <3>1
      <4>2. QED
        BY <1>2, <2>2, <3>1, <4>1
    <3>2. QED
      BY <1>1, <2>2, <3>1 DEF EndsAfter
  <2>3. QED
    BY <1>3, <2>1, <2>2 DEF EndsAfter, n
<1>4. ASSUME EndsAfter(q, up, 0)
      PROVE  /\ q[1].name # "connected"
             /\ q[1].name # "disconnected" => EndsAfter(t, up, 0)
  <2>1. 1 \in 1..n /\ 1 - 1 = 0
    BY <1>1
  <2>2. q[1].name # "disconnected" => EndsAfter(q, up, 1)
    BY <1>1, <1>4 DEF EndsAfter, n
  <2>3. q[1].name # "connected"
    BY <1>1, <1>4 DEF EndsAfter, n
  <2>4. QED
    BY <1>3, <2>1, <2>2, <2>3
<1>5. QED
  BY <1>1, <1>3, <1>4 DEF n, t

LEMMA OwnedConcat ==
  ASSUME Typed, NodesOwned, NEW t \in Seq(Link), toGui' = toGui \o t,
         gui'.nodes = gui.nodes, gui'.connected = gui.connected,
         Up => Closes(t) \/ (Up' /\ Quiet(t)),
         \A i \in 1..Len(t) : t[i].name = "state" => Up' /\ Quiet(t)
  PROVE  NodesOwned'
<1>. DEFINE q == toGui
            n == Len(toGui)
            m == Len(t)
            new == toGui'
<1>1. /\ q \in Seq(Link) /\ n \in Nat /\ m \in Nat
      /\ new = q \o t /\ Len(new) = n + m
      /\ \A i \in 1..(n + m) : new[i] = IF i <= n THEN q[i] ELSE t[i - n]
  <2>1. q \in Seq(Link)
    BY SignalsAreLinks DEF Typed
  <2>2. QED
    BY <2>1, ConcatProperties, SeqFacts
<1>2. \A k \in 0..n : EndsAfter(q, Up, k) => EndsAfter(new, Up', k)
  <2>1. \A k \in 0..n : EndsAfter(q, Up, k) => EndsAfter(q \o t, Up', k)
    BY <1>1, EndsConcat
  <2>2. QED
    BY <1>1, <2>1
<1>. HIDE DEF q, n, m, new
<1>3. ASSUME gui.nodes # Nothing
      PROVE  EndsAfter(new, Up', 0) /\ (gui.connected \/ EndQueued')
  <2>1. EndsAfter(q, Up, 0) /\ (gui.connected \/ EndQueued)
    BY <1>3 DEF NodesOwned, q
  <2>2. EndQueued => EndQueued'
    <3>1. ASSUME NEW i \in 1..n, q[i].name = "disconnected"
          PROVE  i \in 1..(n + m) /\ new[i].name = "disconnected"
      BY <1>1, <3>1
    <3>2. QED
      BY <1>1, <3>1 DEF EndQueued, q, n, new
  <2>3. 0 \in 0..n
    BY <1>1
  <2>4. QED
    BY <1>2, <2>1, <2>2, <2>3
<1>4. ASSUME NEW i \in 1..(n + m), new[i].name = "state"
      PROVE  EndsAfter(new, Up', i)
  <2>1. CASE i <= n
    <3>1. i \in 1..n /\ i \in 0..n /\ q[i].name = "state"
      BY <1>1, <1>4, <2>1
    <3>2. EndsAfter(q, Up, i)
      BY <3>1 DEF NodesOwned, q, n
    <3>3. QED
      BY <1>2, <3>1, <3>2
  <2>2. CASE ~(i <= n)
    <3>1. i - n \in 1..m /\ t[i - n].name = "state"
      BY <1>1, <1>4, <2>2
    <3>2. Up' /\ \A j \in 1..m : t[j].name \notin {"connected", "error"}
      BY <3>1 DEF Quiet, m
    <3>3. ASSUME NEW j \in 1..(n + m), i < j
          PROVE  new[j].name \notin {"connected", "error"}
      <4>1. j - n \in 1..m /\ ~(j <= n)
        BY <1>1, <2>2, <3>3
      <4>2. QED
        BY <1>1, <3>2, <4>1
    <3>4. QED
      BY <1>1, <3>2, <3>3 DEF EndsAfter
  <2>3. QED
    BY <2>1, <2>2
<1>5. QED
  BY <1>1, <1>3, <1>4 DEF NodesOwned, new

LEMMA OwnedSlot ==
  ASSUME Typed, SignalsInOrder, NodesOwned, GuiSlot
  PROVE  NodesOwned'
<1>. DEFINE q == toGui
            s == Head(toGui)
            n == Len(toGui)
            new == toGui'
<1>1. /\ q # <<>> /\ s \in [name : Signals, of : Sids] /\ new = Tail(q)
      /\ gui' = AfterSlot(gui, s) /\ gui \in Guis /\ (gui.timer => gui.pending)
      /\ Up' = Up
  BY SlotFacts DEF Typed, GuiSlot, workerVars, Up
<1>2. /\ q \in Seq(Link) /\ s = q[1] /\ n \in Nat \ {0} /\ Len(new) = n - 1
      /\ \A i \in 1..(n - 1) : new[i] = q[i + 1]
  <2>1. q \in Seq(Link)
    BY SignalsAreLinks DEF Typed
  <2>2. s = q[1]
    BY <1>1, <2>1, SMT
  <2>3. QED
    BY <1>1, <2>1, <2>2, HeadTailProperties, EmptySeq
<1>3. Fits(gui, s)
  <2>1. Chained(gui, q)
    BY ComingFacts
  <2>2. QED
    BY <1>1, <1>2, <2>1 DEF Chained
<1>4. /\ s.name = "disconnected" => gui'.nodes = Nothing
      /\ s.name \notin {"disconnected", "state"} => gui'.nodes = gui.nodes
      /\ s.name \in {"hello_ok", "hello_no", "state"}
           => gui'.connected \/ ~gui.connected
  BY <1>1, <1>3, OneSlot
<1>5. /\ \A k \in 1..n : EndsAfter(q, Up, k) => EndsAfter(new, Up', k - 1)
      /\ EndsAfter(q, Up, 0) =>
           /\ s.name # "connected"
           /\ s.name # "disconnected" => EndsAfter(new, Up', 0)
  BY <1>1, <1>2, EndsTail
<1>. HIDE DEF q, s, n, new
<1>6. \A i \in 1..n : q[i].name = "state" => EndsAfter(q, Up, i)
  BY DEF NodesOwned, q, n
<1>7. ASSUME NEW i \in 1..(n - 1), new[i].name = "state"
      PROVE  EndsAfter(new, Up', i)
  <2>1. i + 1 \in 1..n /\ (i + 1) - 1 = i /\ q[i + 1].name = "state"
    BY <1>2, <1>7
  <2>2. QED
    BY <1>5, <1>6, <2>1
<1>8. EndQueued /\ s.name # "disconnected" => EndQueued'
  <2>1. ASSUME NEW i \in 1..n, q[i].name = "disconnected", s.name # "disconnected"
        PROVE  i - 1 \in 1..(n - 1) /\ new[i - 1].name = "disconnected"
    <3>1. i # 1
      BY <1>2, <2>1
    <3>2. i - 1 \in 1..(n - 1) /\ (i - 1) + 1 = i
      BY <1>2, <3>1
    <3>3. QED
      BY <1>2, <2>1, <3>2
  <2>2. QED
    BY <1>2, <2>1 DEF EndQueued, q, n, new
<1>9. ASSUME gui'.nodes # Nothing
      PROVE  EndsAfter(new, Up', 0) /\ (gui'.connected \/ EndQueued')
  <2>1. CASE s.name = "state"
    <3>1. 1 \in 1..n /\ 1 - 1 = 0 /\ q[1].name = "state"
      BY <1>2, <2>1
    <3>2. EndsAfter(new, Up', 0)
      BY <1>5, <1>6, <3>1
    <3>3. gui'.connected
      BY <1>3, <1>4, <2>1 DEF Fits
    <3>4. QED
      BY <3>2, <3>3
  <2>2. CASE s.name # "state"
    <3>1. gui.nodes # Nothing /\ s.name # "disconnected"
      BY <1>4, <1>9, <2>2
    <3>2. EndsAfter(q, Up, 0) /\ (gui.connected \/ EndQueued)
      BY <3>1 DEF NodesOwned, q
    <3>3. s.name # "connected" /\ EndsAfter(new, Up', 0)
      BY <1>5, <3>1, <3>2
    <3>4. CASE s.name = "error"
      <4>1. EndQueued
        BY <1>2, <3>2, <3>4 DEF EndsAfter, EndQueued, q, n
      <4>2. QED
        BY <1>8, <3>1, <3>3, <4>1
    <3>5. CASE s.name \in {"hello_ok", "hello_no"}
      BY <1>4, <1>8, <3>1, <3>2, <3>3, <3>5
    <3>6. QED
      BY <1>1, <2>2, <3>1, <3>3, <3>4, <3>5 DEF Signals
  <2>3. QED
    BY <2>1, <2>2
<1>10. QED
  BY <1>2, <1>7, <1>9 DEF NodesOwned, new

\* The signals of one step
LEMMA FewLinks ==
  ASSUME NEW k \in Sids
  PROVE  /\ <<>> \in Seq(Link) /\ Quiet(<<>>) /\ Len(<<>>) = 0
         /\ \A x \in Signals :
              LET t == AsSignals(<<x>>, k)
              IN  /\ t \in Seq(Link) /\ Len(t) = 1 /\ t[1].name = x
                  /\ x \notin {"connected", "error"} => Quiet(t)
                  /\ x = "disconnected" => Closes(t)
<1>1. <<>> \in Seq(Link) /\ Quiet(<<>>) /\ Len(<<>>) = 0
  <2>1. Len(<<>>) = 0 /\ 1..0 = {}
    OBVIOUS
  <2>2. QED
    BY <2>1, EmptySeq DEF Quiet
<1>2. ASSUME NEW x \in Signals, NEW t, t = <<Signal(x, k)>>
      PROVE  /\ t \in Seq(Link) /\ Len(t) = 1 /\ t[1].name = x
             /\ x \notin {"connected", "error"} => Quiet(t)
             /\ x = "disconnected" => Closes(t)
  <2>1. Signal(x, k) \in Link /\ Signal(x, k).name = x
    BY SignalType
  <2>2. t \in Seq(Link) /\ Len(t) = 1 /\ t[1] = Signal(x, k)
    BY <1>2, <2>1
  <2>3. t # <<>> /\ \A i \in 1..Len(t) : t[i].name = x
    <3>1. t # <<>>
      BY <1>2
    <3>2. QED
      BY <2>1, <2>2, <3>1
  <2>4. QED
    BY <2>1, <2>2, <2>3 DEF Quiet, Closes
<1>3. QED
  BY <1>1, <1>2, FewSignals

LEMMA OwnedClose ==
  ASSUME Typed, NodesOwned, NEW before \in {<<>>, <<"error">>},
         CloseSocket(before), gui' = gui
  PROVE  NodesOwned'
<1>1. sid \in Sids /\ ~Up' /\ {"error", "disconnected"} \subseteq Signals
  BY DEF Typed, CloseSocket, Up, Signals
<1>2. CASE Up
  <2>. DEFINE names == Append(before, "disconnected")
              t == AsSignals(names, sid)
              m == Len(before)
  <2>1. /\ before \in Seq(Signals) /\ m \in {0, 1}
        /\ \A i \in 1..m : before[i] = "error"
    <3>1. /\ <<>> \in Seq(Signals) /\ <<"error">> \in Seq(Signals)
          /\ Len(<<>>) = 0 /\ Len(<<"error">>) = 1 /\ <<"error">>[1] = "error"
      BY <1>1
    <3>2. CASE before = <<>>
      BY <3>1, <3>2
    <3>3. CASE before = <<"error">>
      BY <3>1, <3>3
    <3>4. QED
      BY <3>2, <3>3
  <2>. HIDE DEF m
  <2>2. /\ names \in Seq(Signals) /\ Len(names) = m + 1
        /\ \A i \in 1..m : names[i] = before[i]
        /\ names[m + 1] = "disconnected"
    BY <1>1, <2>1, AppendProperties DEF m
  <2>. HIDE DEF names
  <2>3. /\ t \in Seq(Link) /\ Len(t) = m + 1
        /\ \A i \in 1..(m + 1) : t[i].name = names[i]
    BY <1>1, <2>2, AsSignalsType, SignalType
  <2>4. toGui' = toGui \o t
    BY <1>2, EmitsSignals DEF CloseSocket, Up, names
  <2>. HIDE DEF t
  <2>5. /\ t # <<>> /\ t[Len(t)].name = "disconnected"
        /\ \A i \in 1..Len(t) : t[i].name \in {"error", "disconnected"}
    <3>1. \A i \in 1..(m + 1) : i \in 1..m \/ i = m + 1
      BY <2>1
    <3>2. m + 1 \in 1..(m + 1)
      BY <2>1
    <3>3. t # <<>>
      BY <2>1, <2>3, SeqFacts
    <3>4. QED
      BY <2>1, <2>2, <2>3, <3>1, <3>2, <3>3
  <2>6. Closes(t) /\ \A i \in 1..Len(t) : t[i].name # "state"
    BY <2>5 DEF Closes
  <2>7. QED
    BY <2>3, <2>4, <2>6, OwnedConcat
<1>3. CASE ~Up
  <2>1. toGui' = toGui \o AsSignals(before, sid)
    BY <1>3, EmitsSignals DEF CloseSocket, Up
  <2>2. /\ AsSignals(before, sid) \in Seq(Link)
        /\ \A i \in 1..Len(AsSignals(before, sid)) :
             AsSignals(before, sid)[i].name # "state"
    <3>1. CASE before = <<>>
      <4>1. AsSignals(before, sid) = <<>>
        BY <1>1, <3>1, FewSignals
      <4>2. Len(<<>>) = 0 /\ <<>> \in Seq(Link) /\ 1..0 = {}
        BY <1>1, FewLinks
      <4>3. QED
        BY <4>1, <4>2
    <3>2. CASE before = <<"error">>
      BY <1>1, <3>2, FewLinks
    <3>3. QED
      BY <3>1, <3>2
  <2>. DEFINE t == AsSignals(before, sid)
  <2>. HIDE DEF t
  <2>3. QED
    BY <1>3, <2>1, <2>2, OwnedConcat DEF t
<1>4. QED
  BY <1>2, <1>3

LEMMA NodesStep ==
  ASSUME Typed, SocketMatchesPeer, SignalsInOrder, NodesOwned, [Next]_vars
  PROVE  NodesOwned'
<1>1. sid \in Sids /\ toGui \in Seq(Link)
  BY SignalsAreLinks DEF Typed
<1>2. CASE GuiSlot
  BY <1>2, OwnedSlot
<1>3. CASE WorkerStop \/ SocketRefused \/ RemoteClosed \/ HeartbeatTimeout
  BY <1>3, OwnedClose DEF WorkerStop, SocketRefused, RemoteClosed, HeartbeatTimeout
<1>4. CASE WorkerStart
  <2>1. /\ gui' = gui /\ ~Up'
        /\ Emit(IF socket = "connected" THEN <<"disconnected">> ELSE <<>>)
    BY <1>4 DEF WorkerStart, Up
  <2>2. CASE Up
    <3>. DEFINE t == AsSignals(<<"disconnected">>, sid)
    <3>1. toGui' = toGui \o t
      BY <2>1, <2>2, EmitsSignals DEF Up
    <3>2. /\ t \in Seq(Link) /\ Closes(t) /\ Len(t) = 1
          /\ t[1].name = "disconnected"
      BY <1>1, FewLinks DEF Signals
    <3>. HIDE DEF t
    <3>3. \A i \in 1..Len(t) : t[i].name # "state"
      BY <3>2
    <3>4. QED
      BY <2>1, <3>1, <3>2, <3>3, OwnedConcat
  <2>3. CASE ~Up
    <3>1. toGui' = toGui \o <<>>
      BY <1>1, <2>1, <2>3, EmitsSignals, FewSignals DEF Up
    <3>2. /\ <<>> \in Seq(Link) /\ \A i \in 1..Len(<<>>) : <<>>[i].name # "state"
      <4>1. Len(<<>>) = 0 /\ <<>> \in Seq(Link) /\ 1..0 = {}
        BY <1>1, FewLinks
      <4>2. QED
        BY <4>1
    <3>. DEFINE t == <<>>
    <3>3. t \in Seq(Link) /\ toGui' = toGui \o t
          /\ \A i \in 1..Len(t) : t[i].name # "state"
      BY <3>1, <3>2
    <3>. HIDE DEF t
    <3>4. QED
      BY <2>1, <2>3, <3>3, OwnedConcat
  <2>4. QED
    BY <2>2, <2>3
<1>5. CASE SocketConnected
  <2>. DEFINE t == AsSignals(<<"connected">>, sid)
  <2>1. gui' = gui /\ ~Up /\ toGui' = toGui \o t
    BY <1>5, EmitsSignals DEF SocketConnected, Up
  <2>2. t \in Seq(Link) /\ Len(t) = 1 /\ t[1].name = "connected"
    BY <1>1, FewLinks DEF Signals
  <2>. HIDE DEF t
  <2>3. \A i \in 1..Len(t) : t[i].name # "state"
    BY <2>2
  <2>4. QED
    BY <2>1, <2>2, <2>3, OwnedConcat
<1>6. CASE ReadFrame
  <2>. DEFINE x == Head(net)
              t == AsSignals(<<x>>, sid)
  <2>1. gui' = gui /\ Up /\ Up' /\ toGui' = toGui \o t
    BY <1>6, EmitsSignals DEF ReadFrame, Up
  <2>2. x \in Signals /\ x \notin {"connected", "error"}
    <3>1. x \in Frames
      BY <1>6, HeadTailProperties DEF ReadFrame, Typed
    <3>2. QED
      BY <3>1 DEF Frames, Signals
  <2>3. t \in Seq(Link) /\ Quiet(t)
    BY <1>1, <2>2, FewLinks
  <2>. HIDE DEF t
  <2>4. QED
    BY <2>1, <2>3, OwnedConcat
<1>7. CASE UNCHANGED <<toGui, socket>> /\ ~GuiSlot
  <2>1. gui'.nodes = gui.nodes /\ gui'.connected = gui.connected
    <3>1. CASE Connect \/ Disconnect \/ ToggleAuto \/ ReconnectTimer
      BY <3>1, ZenonT(30)
         DEF Connect, Disconnect, ToggleAuto, ReconnectTimer, StopTimer, Typed, Guis
    <3>2. CASE gui' = gui
      BY <3>2
    <3>3. QED
      BY <1>7, <3>1, <3>2
         DEF Next, Gui, Worker, Command, vars, movingVars, WorkerStart, WorkerStop,
             WorkerSend, SocketConnected, ReadFrame, RemoteClosed, HeartbeatTimeout,
             SocketRefused, RxAges, BridgeAccepts, BridgeRefuses, BridgeReports,
             ConnectionLost
  <2>2. QED
    BY <1>7, <2>1 DEF NodesOwned, Up, EndQueued
<1>8. QED
  BY <1>2, <1>3, <1>4, <1>5, <1>6, <1>7
     DEF Next, Gui, Worker, Connect, Disconnect, ToggleAuto, Command, GuiSlot,
         ReconnectTimer, WorkerSend, RxAges, BridgeAccepts, BridgeRefuses,
         BridgeReports, ConnectionLost, vars, movingVars, workerVars, bridgeVars

-----------------------------------------------------------------------------
(***************************************************************************)
(* Every step                                                              *)
(***************************************************************************)
LEMMA OrderStep ==
  ASSUME Typed, Typed', SocketMatchesPeer, SignalsInOrder, ShownIsSession, [Next]_vars
  PROVE  SignalsInOrder' /\ ShownIsSession'
<1>1. CASE Connect \/ Disconnect \/ ToggleAuto \/ Command \/ ReconnectTimer
  <2>1. /\ UNCHANGED <<toGui, net, sid, socket, peer>>
        /\ gui'.connected = gui.connected /\ gui'.session = gui.session
        /\ gui'.shown = gui.shown /\ gui'.nodes = gui.nodes
        /\ gui'.listed = gui.listed
    BY <1>1, ZenonT(30) DEF Connect, Disconnect, ToggleAuto, Command, ReconnectTimer, StopTimer,
                workerVars, bridgeVars, Typed, Guis
  <2>2. QED
    BY <2>1, OrderSameConsole DEF ShownIsSession, Live
<1>2. CASE GuiSlot
  BY <1>2, OrderGuiSlot
<1>3. CASE ~GuiSlot /\ gui' = gui
  <2>1. ShownIsSession'
    BY <1>3 DEF ShownIsSession
  <2>2. CASE WorkerStart
    <3>1. /\ Emit(IF socket = "connected" THEN <<"disconnected">> ELSE <<>>)
          /\ socket' = "connecting" /\ net' = <<>> /\ sid' \in Sids
          /\ sid \in Sids
      BY <2>2 DEF WorkerStart, Typed
    <3>2. CASE socket = "connected"
      <4>1. toGui' = toGui \o AsSignals(<<"disconnected">>, sid)
        BY <3>1, <3>2, EmitsSignals
      <4>2. <<"disconnected">> \in Closings
        BY DEF Closings
      <4>3. SignalsInOrder'
        BY <1>3, <3>1, <4>1, <4>2, OrderAfterClosing
      <4>4. QED
        BY <2>1, <4>3
    <3>3. CASE socket # "connected"
      <4>1. toGui' = toGui \o AsSignals(<<>>, sid)
        BY <3>1, <3>3, EmitsSignals
      <4>2. toGui' = toGui
        BY <3>1, <4>1, FewSignals, ComingFacts, ConcatEmptySeq
      <4>3. SignalsInOrder'
        BY <1>3, <3>1, <3>3, <4>2, OrderUnconnected
      <4>4. QED
        BY <2>1, <4>3
    <3>4. QED
      BY <3>2, <3>3
  <2>3. CASE WorkerStop
    BY <1>3, <2>1, <2>3, OrderCloseSocket DEF WorkerStop
  <2>4. CASE SocketRefused \/ RemoteClosed \/ HeartbeatTimeout
    BY <1>3, <2>1, <2>4, OrderCloseSocket
       DEF SocketRefused, RemoteClosed, HeartbeatTimeout
  <2>5. CASE SocketConnected
    BY <2>1, <2>5, OrderSocketConnected
  <2>6. CASE ReadFrame
    BY <2>1, <2>6, OrderReadFrame
  <2>7. CASE BridgeAccepts \/ BridgeRefuses \/ BridgeReports \/ ConnectionLost
    BY <2>1, <2>7, OrderBridge
  <2>8. CASE WorkerSend \/ RxAges \/ UNCHANGED vars
    <3>1. UNCHANGED <<toGui, net, sid, socket, peer>>
      BY <2>8 DEF WorkerSend, RxAges, vars, movingVars, workerVars, bridgeVars
    <3>2. QED
      BY <1>3, <2>1, <3>1, OrderSameConsole
  <2>9. CASE Connect \/ Disconnect \/ ToggleAuto \/ Command \/ ReconnectTimer
    BY <1>1, <2>9
  <2>10. QED
    BY <1>3, <2>2, <2>3, <2>4, <2>5, <2>6, <2>7, <2>8, <2>9 DEF Next, Gui, Worker
<1>4. CASE ~GuiSlot /\ gui' # gui
  <2>1. Connect \/ Disconnect \/ ToggleAuto \/ ReconnectTimer
    BY <1>4 DEF Next, Gui, Worker, Command, vars, movingVars, WorkerStart, WorkerStop, WorkerSend,
                SocketConnected, ReadFrame, RemoteClosed, HeartbeatTimeout,
                SocketRefused, RxAges, BridgeAccepts, BridgeRefuses, BridgeReports,
                ConnectionLost
  <2>2. QED
    BY <1>1, <2>1
<1>5. QED
  BY <1>2, <1>3, <1>4

LEMMA PeerStep ==
  ASSUME Typed, SocketMatchesPeer, [Next]_vars
  PROVE  SocketMatchesPeer'
<1>1. CASE UNCHANGED <<socket, peer, net>>
  BY <1>1 DEF SocketMatchesPeer
<1>2. CASE WorkerStart \/ WorkerStop \/ SocketRefused \/ RemoteClosed \/ HeartbeatTimeout
  BY <1>2 DEF SocketMatchesPeer, WorkerStart, WorkerStop, SocketRefused, RemoteClosed,
              HeartbeatTimeout, CloseSocket
<1>3. CASE SocketConnected
  BY <1>3 DEF SocketMatchesPeer, SocketConnected
<1>4. CASE ReadFrame
  BY <1>4 DEF SocketMatchesPeer, ReadFrame
<1>5. CASE BridgeAccepts \/ BridgeRefuses \/ BridgeReports \/ ConnectionLost
  BY <1>5 DEF SocketMatchesPeer, BridgeAccepts, BridgeRefuses, BridgeReports,
              ConnectionLost, workerVars
<1>6. QED
  BY <1>1, <1>2, <1>3, <1>4, <1>5
     DEF Next, Gui, Worker, Connect, Disconnect, ToggleAuto, Command, GuiSlot,
         ReconnectTimer, WorkerSend, RxAges, vars, movingVars, workerVars, bridgeVars

\* What the worker's queue gains and loses
LEMMA QueueFacts ==
  ASSUME Typed, NEW q \in [name : {"start", "stop", "cmd"}, of : Sids]
  PROVE  LET longer == Append(toWorker, q)
         IN  /\ longer \in Seq([name : {"start", "stop", "cmd"}, of : Sids])
             /\ longer # <<>> /\ Len(toWorker) \in Nat
             /\ DOMAIN toWorker = 1..Len(toWorker)
             /\ DOMAIN longer = 1..(Len(toWorker) + 1)
             /\ \A i \in 1..Len(toWorker) : longer[i] = toWorker[i]
             /\ longer[Len(toWorker) + 1] = q
<1>. DEFINE T == [name : {"start", "stop", "cmd"}, of : Sids]
            longer == Append(toWorker, q)
<1>1. toWorker \in Seq(T) /\ q \in T
  BY DEF Typed
<1>. HIDE DEF T
<1>2. /\ longer \in Seq(T) /\ longer # <<>> /\ Len(longer) = Len(toWorker) + 1
      /\ \A i \in 1..Len(toWorker) : longer[i] = toWorker[i]
      /\ longer[Len(toWorker) + 1] = q
  BY <1>1, AppendProperties
<1>3. DOMAIN longer = 1..(Len(toWorker) + 1)
  <2>. HIDE DEF longer
  <2>1. QED
    BY <1>2, LenProperties
<1>4. QED
  BY <1>1, <1>2, <1>3, LenProperties DEF T

LEMMA QueueTail ==
  ASSUME Typed, toWorker # <<>>
  PROVE  /\ Tail(toWorker) \in Seq([name : {"start", "stop", "cmd"}, of : Sids])
         /\ Head(toWorker) = toWorker[1]
         /\ Len(toWorker) \in Nat \ {0} /\ DOMAIN toWorker = 1..Len(toWorker)
         /\ DOMAIN Tail(toWorker) = 1..(Len(toWorker) - 1)
         /\ \A i \in 1..(Len(toWorker) - 1) : Tail(toWorker)[i] = toWorker[i + 1]
<1>. DEFINE T == [name : {"start", "stop", "cmd"}, of : Sids]
            t == Tail(toWorker)
<1>1. toWorker \in Seq(T)
  BY DEF Typed
<1>2. /\ t \in Seq(T) /\ Len(t) = Len(toWorker) - 1
      /\ \A i \in 1..Len(t) : t[i] = toWorker[i + 1]
      /\ Len(toWorker) \in Nat \ {0} /\ DOMAIN toWorker = 1..Len(toWorker)
  BY <1>1, HeadTailProperties, EmptySeq, LenProperties
<1>3. Head(toWorker) = toWorker[1]
  BY SMT
<1>. HIDE DEF t
<1>4. DOMAIN t = 1..(Len(toWorker) - 1)
  BY <1>2, LenProperties
<1>5. QED
  BY <1>2, <1>3, <1>4 DEF t

LEMMA TypedGui ==
  ASSUME Typed, Connect \/ Disconnect \/ ToggleAuto \/ Command \/ Gui
  PROVE  Typed'
<1>. USE DEF workerVars, bridgeVars, userVars
<1>1. [name |-> "start", of |-> gui.session] \in [name : {"start", "stop", "cmd"}, of : Sids]
      /\ [name |-> "stop", of |-> gui.session] \in [name : {"start", "stop", "cmd"}, of : Sids]
      /\ [name |-> "cmd", of |-> gui.session] \in [name : {"start", "stop", "cmd"}, of : Sids]
  BY DEF Typed, Guis
<1>2. \A q \in [name : {"start", "stop", "cmd"}, of : Sids] :
        Append(toWorker, q) \in Seq([name : {"start", "stop", "cmd"}, of : Sids])
  BY QueueFacts
<1>3. /\ Start => toWorker' \in Seq([name : {"start", "stop", "cmd"}, of : Sids])
      /\ Stop => toWorker' \in Seq([name : {"start", "stop", "cmd"}, of : Sids])
  BY <1>1, <1>2 DEF Start, Stop
<1>4. CASE Connect
  <2>1. /\ gui' \in Guis /\ ~gui'.timer
        /\ toWorker' \in Seq([name : {"start", "stop", "cmd"}, of : Sids])
    BY <1>3, <1>4 DEF Connect, StopTimer, Typed, Guis
  <2>2. clicks' \in 0..MaxClicks /\ intent' = "connect"
    BY <1>4, BoundsAssumption DEF Connect, Typed
  <2>3. QED
    BY <1>4, <2>1, <2>2 DEF Connect, Typed
<1>5. CASE Disconnect
  <2>1. gui' \in Guis /\ ~gui'.timer
    BY <1>5 DEF Disconnect, StopTimer, Typed, Guis
  <2>2. clicks' \in 0..MaxClicks /\ intent' = "disconnect"
    BY <1>5, BoundsAssumption DEF Disconnect, Typed
  <2>3. QED
    BY <1>3, <1>5, <2>1, <2>2 DEF Disconnect, Typed
<1>6. CASE ToggleAuto
  <2>1. gui' \in Guis /\ (gui'.timer => gui'.pending)
    BY <1>6 DEF ToggleAuto, Typed, Guis
  <2>2. clicks' \in 0..MaxClicks
    BY <1>6, BoundsAssumption DEF ToggleAuto, Typed
  <2>3. QED
    BY <1>6, <2>1, <2>2 DEF ToggleAuto, Typed
<1>7. CASE Command
  <2>1. clicks' \in 0..MaxClicks
    BY <1>7, BoundsAssumption DEF Command, Typed
  <2>2. toWorker' \in Seq([name : {"start", "stop", "cmd"}, of : Sids])
    BY <1>1, <1>2, <1>7 DEF Command
  <2>3. QED
    BY <1>7, <2>1, <2>2 DEF Command, Typed
<1>8. CASE ReconnectTimer
  <2>1. /\ gui' \in Guis /\ ~gui'.timer
        /\ toWorker' \in Seq([name : {"start", "stop", "cmd"}, of : Sids])
    BY <1>3, <1>8 DEF ReconnectTimer, Typed, Guis
  <2>2. QED
    BY <1>8, <2>1 DEF ReconnectTimer, Typed
<1>9. CASE GuiSlot
  <2>1. /\ toGui' \in Seq([name : Signals, of : Sids])
        /\ gui' \in Guis /\ (gui'.timer => gui'.pending)
    BY <1>9, SlotFacts, OneSlot DEF Typed
  <2>2. /\ toWorker' \in Seq([name : {"start", "stop", "cmd"}, of : Sids])
        /\ intent' \in {"connect", "disconnect", "retry"}
    BY <1>3, <1>9 DEF GuiSlot, Typed
  <2>3. QED
    BY <1>9, <2>1, <2>2 DEF GuiSlot, Typed
<1>10. QED
  BY <1>4, <1>5, <1>6, <1>7, <1>8, <1>9 DEF Gui

LEMMA TypedEmit ==
  ASSUME Typed, NEW names \in Seq(Signals), Emit(names)
  PROVE  toGui' \in Seq([name : Signals, of : Sids])
<1>1. /\ toGui \in Seq([name : Signals, of : Sids])
      /\ AsSignals(names, sid) \in Seq([name : Signals, of : Sids])
  BY AsSignalsType DEF Typed
<1>2. QED
  BY <1>1, EmitsSignals, ConcatProperties

LEMMA TypedClose ==
  ASSUME Typed, NEW before \in {<<>>, <<"error">>}, CloseSocket(before)
  PROVE  /\ toGui' \in Seq([name : Signals, of : Sids])
         /\ socket' = "unconnected" /\ guarded' = FALSE /\ peer' = "none"
         /\ net' \in Seq(Frames)
<1>1. before \in Seq(Signals) /\ "disconnected" \in Signals
  <2>1. /\ <<>> \in Seq(Signals) /\ <<"error">> \in Seq(Signals)
        /\ "disconnected" \in Signals
    BY DEF Signals
  <2>2. QED
    BY <2>1
<1>2. Append(before, "disconnected") \in Seq(Signals)
  BY <1>1, AppendProperties
<1>3. toGui' \in Seq([name : Signals, of : Sids])
  BY <1>1, <1>2, TypedEmit DEF CloseSocket
<1>4. QED
  BY <1>3 DEF CloseSocket

LEMMA TypedWorker ==
  ASSUME Typed, Worker \/ SocketRefused \/ RxAges
  PROVE  Typed'
<1>. USE DEF workerVars, bridgeVars, userVars
<1>1. /\ <<>> \in Seq(Signals) /\ <<"disconnected">> \in Seq(Signals)
      /\ <<"connected">> \in Seq(Signals) /\ <<>> \in Seq(Frames)
  BY DEF Signals
<1>2. CASE WorkerStart
  <2>1. toGui' \in Seq([name : Signals, of : Sids])
    BY <1>1, <1>2, TypedEmit DEF WorkerStart
  <2>2. toWorker' \in Seq([name : {"start", "stop", "cmd"}, of : Sids])
    BY <1>2, QueueTail DEF WorkerStart
  <2>3. sid' \in Sids
    BY <1>2, BoundsAssumption DEF WorkerStart, Typed, Sids
  <2>4. QED
    BY <1>1, <1>2, <2>1, <2>2, <2>3 DEF WorkerStart, Typed
<1>3. CASE WorkerStop
  <2>1. toWorker' \in Seq([name : {"start", "stop", "cmd"}, of : Sids])
    BY <1>3, QueueTail DEF WorkerStop
  <2>2. QED
    BY <1>3, <2>1, TypedClose DEF WorkerStop, Typed
<1>4. CASE WorkerSend
  <2>1. toWorker' \in Seq([name : {"start", "stop", "cmd"}, of : Sids])
    BY <1>4, QueueTail DEF WorkerSend
  <2>2. QED
    BY <1>4, <2>1 DEF WorkerSend, Typed
<1>5. CASE SocketConnected
  <2>1. toGui' \in Seq([name : Signals, of : Sids])
    BY <1>1, <1>5, TypedEmit DEF SocketConnected
  <2>2. QED
    BY <1>5, <2>1 DEF SocketConnected, Typed
<1>6. CASE ReadFrame
  <2>1. Head(net) \in Frames /\ net' \in Seq(Frames)
    BY <1>6, HeadTailProperties DEF ReadFrame, Typed
  <2>2. <<Head(net)>> \in Seq(Signals)
    BY <2>1 DEF Frames, Signals
  <2>3. toGui' \in Seq([name : Signals, of : Sids])
    BY <1>6, <2>2, TypedEmit DEF ReadFrame
  <2>4. QED
    BY <1>6, <2>1, <2>3 DEF ReadFrame, Typed
<1>7. CASE RemoteClosed \/ HeartbeatTimeout
  BY <1>7, TypedClose DEF RemoteClosed, HeartbeatTimeout, Typed
<1>8. CASE SocketRefused
  <2>1. faults' \in 0..MaxFaults
    BY <1>8, BoundsAssumption DEF SocketRefused, Typed
  <2>2. QED
    BY <1>8, <2>1, TypedClose DEF SocketRefused, Typed
<1>9. CASE RxAges
  BY <1>9 DEF RxAges, Typed
<1>10. QED
  BY <1>2, <1>3, <1>4, <1>5, <1>6, <1>7, <1>8, <1>9 DEF Worker

LEMMA TypedBridge ==
  ASSUME Typed,
         BridgeAccepts \/ BridgeRefuses \/ BridgeReports \/ ConnectionLost
  PROVE  Typed'
<1>. USE DEF workerVars, bridgeVars, userVars
<1>1. /\ <<"hello_ok", "state">> \in Seq(Frames) /\ <<"state">> \in Seq(Frames)
      /\ "hello_no" \in Frames /\ net \in Seq(Frames)
  BY DEF Frames, Typed
<1>2. CASE BridgeAccepts
  <2>1. net' \in Seq(Frames)
    BY <1>1, <1>2, ConcatProperties DEF BridgeAccepts
  <2>2. QED
    BY <1>2, <2>1 DEF BridgeAccepts, Typed
<1>3. CASE BridgeRefuses
  <2>1. net' \in Seq(Frames)
    BY <1>1, <1>3, AppendProperties DEF BridgeRefuses
  <2>2. faults' \in 0..MaxFaults
    BY <1>3, BoundsAssumption DEF BridgeRefuses, Typed
  <2>3. QED
    BY <1>3, <2>1, <2>2 DEF BridgeRefuses, Typed
<1>4. CASE BridgeReports
  BY <1>1, <1>4 DEF BridgeReports, Typed
<1>5. CASE ConnectionLost
  <2>1. net' \in Seq(Frames) /\ peer' \in {"closed", "silent"}
    BY <1>1, <1>5 DEF ConnectionLost
  <2>2. faults' \in 0..MaxFaults
    BY <1>5, BoundsAssumption DEF ConnectionLost, Typed
  <2>3. QED
    BY <1>5, <2>1, <2>2 DEF ConnectionLost, Typed
<1>6. QED
  BY <1>2, <1>3, <1>4, <1>5

LEMMA TypedStep == Typed /\ [Next]_vars => Typed'
<1>1. ASSUME Typed, UNCHANGED vars
      PROVE  Typed'
  BY <1>1 DEF vars, movingVars, workerVars, bridgeVars, userVars, Typed
<1>2. QED
  BY <1>1, TypedGui, TypedWorker, TypedBridge DEF Next

\* The manual disconnection
LEMMA StopKeepsComing ==
  ASSUME Typed, NEW q \in [name : {"start", "stop", "cmd"}, of : Sids],
         toWorker' = Append(toWorker, q)
  PROVE  /\ q.name = "stop" => StopComes'
         /\ q.name = "cmd" /\ StopComes => StopComes'
         /\ /\ q.name = "cmd"
            /\ \A i \in DOMAIN toWorker : toWorker[i].name # "start"
            => \A i \in DOMAIN toWorker' : toWorker'[i].name # "start"
<1>. DEFINE n == Len(toWorker)
            new == toWorker'
<1>1. /\ n \in Nat /\ DOMAIN toWorker = 1..n /\ DOMAIN new = 1..(n + 1)
      /\ \A i \in 1..n : new[i] = toWorker[i]
      /\ new[n + 1] = q
  BY QueueFacts
<1>. HIDE DEF n, new
<1>2. \A i \in 1..(n + 1) : i \in 1..n \/ i = n + 1
  BY <1>1
<1>3. ASSUME q.name = "stop"
      PROVE  StopComes'
  <2>1. n + 1 \in DOMAIN new /\ \A j \in DOMAIN new : ~(j > n + 1)
    BY <1>1
  <2>2. QED
    BY <1>1, <1>3, <2>1 DEF StopComes, new
<1>4. ASSUME q.name = "cmd", StopComes
      PROVE  StopComes'
  <2>1. PICK i \in 1..n : /\ toWorker[i].name = "stop"
                          /\ \A j \in 1..n : j > i => toWorker[j].name # "start"
    BY <1>1, <1>4 DEF StopComes
  <2>2. /\ i \in DOMAIN new /\ new[i].name = "stop"
    BY <1>1, <2>1
  <2>3. \A j \in DOMAIN new : j > i => new[j].name # "start"
    BY <1>1, <1>2, <1>4, <2>1
  <2>4. QED
    BY <2>2, <2>3 DEF StopComes, new
<1>5. ASSUME q.name = "cmd", \A i \in DOMAIN toWorker : toWorker[i].name # "start"
      PROVE  \A i \in DOMAIN new : new[i].name # "start"
  BY <1>1, <1>2, <1>5
<1>6. QED
  BY <1>3, <1>4, <1>5 DEF new

\* The worker takes its next signal.
LEMMA StopIsTaken ==
  ASSUME Typed, toWorker # <<>>, toWorker' = Tail(toWorker)
  PROVE  /\ StopComes =>
              \/ StopComes'
              \/ /\ Head(toWorker).name = "stop"
                 /\ \A i \in DOMAIN toWorker' : toWorker'[i].name # "start"
         /\ (\A i \in DOMAIN toWorker : toWorker[i].name # "start")
              => /\ Head(toWorker).name # "start"
                 /\ \A i \in DOMAIN toWorker' : toWorker'[i].name # "start"
<1>. DEFINE n == Len(toWorker)
            new == toWorker'
<1>1. /\ n \in Nat \ {0} /\ DOMAIN toWorker = 1..n /\ DOMAIN new = 1..(n - 1)
      /\ \A i \in 1..(n - 1) : new[i] = toWorker[i + 1]
      /\ Head(toWorker) = toWorker[1]
  BY QueueTail
<1>. HIDE DEF n, new
<1>2. \A i \in 1..(n - 1) : i + 1 \in 1..n
  BY <1>1
<1>3. ASSUME StopComes
      PROVE  \/ StopComes'
             \/ /\ Head(toWorker).name = "stop"
                /\ \A i \in DOMAIN new : new[i].name # "start"
  <2>1. PICK i \in 1..n : /\ toWorker[i].name = "stop"
                          /\ \A j \in 1..n : j > i => toWorker[j].name # "start"
    BY <1>1, <1>3 DEF StopComes
  <2>2. CASE i = 1
    <3>1. \A k \in 1..(n - 1) : k + 1 > 1
      BY <1>1
    <3>2. QED
      BY <1>1, <1>2, <2>1, <2>2, <3>1
  <2>3. CASE i # 1
    <3>1. i - 1 \in 1..(n - 1) /\ (i - 1) + 1 = i
      BY <1>1, <2>3
    <3>2. new[i - 1].name = "stop"
      BY <1>1, <2>1, <3>1
    <3>3. ASSUME NEW j \in 1..(n - 1), j > i - 1
          PROVE  new[j].name # "start"
      <4>1. j + 1 \in 1..n /\ j + 1 > i
        BY <1>1, <2>1, <3>3
      <4>2. QED
        BY <1>1, <2>1, <4>1
    <3>4. StopComes'
      BY <1>1, <3>1, <3>2, <3>3 DEF StopComes, new
    <3>5. QED
      BY <3>4
  <2>4. QED
    BY <2>2, <2>3
<1>4. ASSUME \A i \in DOMAIN toWorker : toWorker[i].name # "start"
      PROVE  /\ Head(toWorker).name # "start"
             /\ \A i \in DOMAIN new : new[i].name # "start"
  <2>1. 1 \in 1..n
    BY <1>1
  <2>2. QED
    BY <1>1, <1>2, <1>4, <2>1
<1>5. QED
  BY <1>3, <1>4 DEF new

LEMMA DisconnectStep ==
  ASSUME Typed, Typed', DisconnectHolds, SocketMatchesPeer, SignalsInOrder, [Next]_vars
  PROVE  DisconnectHolds'
<1>. USE DEF workerVars, bridgeVars, userVars
<1>. DEFINE NoStart == \A i \in DOMAIN toWorker : toWorker[i].name # "start"
<1>1. CASE Connect
  BY <1>1 DEF Connect, DisconnectHolds
<1>2. CASE Disconnect
  <2>1. gui'.manual /\ ~gui'.timer
    BY <1>2 DEF Disconnect, StopTimer, Typed, Guis
  <2>2. StopComes'
    <3>1. [name |-> "stop", of |-> gui.session]
            \in [name : {"start", "stop", "cmd"}, of : Sids]
      BY DEF Typed, Guis
    <3>2. QED
      BY <1>2, <3>1, StopKeepsComing DEF Disconnect, Stop
  <2>3. QED
    BY <2>1, <2>2 DEF DisconnectHolds
<1>3. ASSUME intent = "disconnect", ~gui.manual, [Next]_vars,
             ~Connect, ~Disconnect
      PROVE  DisconnectHolds'
  <2>1. /\ ~gui.timer /\ toWorker = <<>> /\ toGui = <<>> /\ socket = "unconnected"
        /\ peer = "none" /\ net = <<>>
    BY <1>3 DEF DisconnectHolds, SocketMatchesPeer, Typed
  <2>2. ~gui.connected
    <3>1. NextUp = {Signal("connected", sid)} /\ Coming = <<>>
      BY <2>1, ComingFacts DEF NextUp
    <3>2. Fits(gui, Signal("connected", sid))
      BY <3>1 DEF SignalsInOrder, MayFollow
    <3>3. QED
      BY <3>2 DEF Fits, Signal
  <2>3. /\ intent' = intent /\ toWorker' = toWorker /\ toGui' = toGui
        /\ socket' = socket /\ gui'.manual = gui.manual /\ gui'.timer = gui.timer
    BY <1>3, <2>1, <2>2
       DEF Next, Gui, Worker, ToggleAuto, Command, GuiSlot, ReconnectTimer, WorkerStart,
           WorkerStop, WorkerSend, SocketConnected, ReadFrame, RemoteClosed,
           HeartbeatTimeout, SocketRefused, RxAges, BridgeAccepts, BridgeRefuses,
           BridgeReports, ConnectionLost, vars, movingVars, Typed, Guis
  <2>4. QED
    BY <1>3, <2>1, <2>3 DEF DisconnectHolds
<1>4. ASSUME intent = "disconnect", gui.manual, [Next]_vars, ~Connect, ~Disconnect
      PROVE  DisconnectHolds'
  <2>1. /\ ~gui.timer
        /\ StopComes \/ (socket = "unconnected" /\ NoStart)
    BY <1>4 DEF DisconnectHolds
  <2>2. CASE ToggleAuto \/ RxAges \/ BridgeAccepts \/ BridgeRefuses \/ BridgeReports
             \/ ConnectionLost \/ UNCHANGED vars \/ ReadFrame
    <3>1. /\ UNCHANGED <<toWorker, socket, intent>>
          /\ gui'.manual = gui.manual /\ gui'.timer = gui.timer
      BY <2>2 DEF ToggleAuto, RxAges, BridgeAccepts, BridgeRefuses, BridgeReports,
                  ConnectionLost, vars, movingVars, ReadFrame, Typed, Guis
    <3>2. StopComes' = StopComes /\ NoStart' = NoStart
      BY <3>1 DEF StopComes
    <3>3. QED
      BY <1>4, <2>1, <3>1, <3>2 DEF DisconnectHolds
  <2>3. CASE Command
    <3>1. [name |-> "cmd", of |-> gui.session]
            \in [name : {"start", "stop", "cmd"}, of : Sids]
      BY DEF Typed, Guis
    <3>2. /\ StopComes => StopComes'
          /\ NoStart => NoStart'
      BY <2>3, <3>1, StopKeepsComing DEF Command
    <3>3. QED
      BY <1>4, <2>1, <2>3, <3>2 DEF Command, DisconnectHolds
  <2>4. CASE ReconnectTimer
    BY <2>1, <2>4 DEF ReconnectTimer
  <2>5. CASE GuiSlot
    <3>1. CASE Head(toGui).name = "hello_no"
      BY <2>5, <3>1 DEF GuiSlot, DisconnectHolds
    <3>2. CASE Head(toGui).name # "hello_no"
      <4>1. gui'.manual = gui.manual /\ ~gui'.timer
        BY <1>4, <2>1, <2>5, <3>2, SlotFacts, OneSlot DEF Typed
      <4>2. UNCHANGED <<toWorker, intent, socket>>
        BY <2>5, <3>2 DEF GuiSlot
      <4>3. StopComes' = StopComes /\ NoStart' = NoStart
        BY <4>2 DEF StopComes
      <4>4. QED
        BY <1>4, <2>1, <4>1, <4>2, <4>3 DEF DisconnectHolds
    <3>3. QED
      BY <3>1, <3>2
  <2>6. CASE WorkerStart \/ WorkerStop \/ WorkerSend
    <3>1. /\ toWorker # <<>> /\ toWorker' = Tail(toWorker)
          /\ gui' = gui /\ intent' = intent
      BY <2>6 DEF WorkerStart, WorkerStop, WorkerSend
    <3>2. /\ StopComes => StopComes' \/ (Head(toWorker).name = "stop" /\ NoStart')
          /\ NoStart => Head(toWorker).name # "start" /\ NoStart'
      BY <3>1, StopIsTaken
    <3>. HIDE DEF NoStart
    <3>3. CASE WorkerStart
      BY <1>4, <2>1, <3>1, <3>2, <3>3 DEF WorkerStart, DisconnectHolds
    <3>4. CASE WorkerStop
      <4>1. socket' = "unconnected"
        BY <3>4 DEF WorkerStop, CloseSocket
      <4>2. QED
        BY <1>4, <2>1, <3>1, <3>2, <4>1 DEF DisconnectHolds, NoStart
    <3>5. CASE WorkerSend
      <4>1. Head(toWorker).name = "cmd" /\ socket' = socket
        BY <3>5 DEF WorkerSend
      <4>2. QED
        BY <1>4, <2>1, <3>1, <3>2, <4>1 DEF DisconnectHolds, NoStart
    <3>6. QED
      BY <2>6, <3>3, <3>4, <3>5
  <2>7. CASE SocketConnected \/ SocketRefused \/ RemoteClosed \/ HeartbeatTimeout
    <3>1. /\ UNCHANGED <<gui, toWorker, intent>>
          /\ socket = "unconnected" => FALSE
      BY <2>7 DEF SocketConnected, SocketRefused, RemoteClosed, HeartbeatTimeout
    <3>2. StopComes
      BY <2>1, <3>1
    <3>3. StopComes'
      BY <3>1, <3>2 DEF StopComes
    <3>4. QED
      BY <1>4, <2>1, <3>1, <3>3 DEF DisconnectHolds
  <2>8. QED
    BY <1>4, <2>2, <2>3, <2>4, <2>5, <2>6, <2>7 DEF Next, Gui, Worker
<1>5. ASSUME intent # "disconnect", [Next]_vars, ~Connect, ~Disconnect
      PROVE  DisconnectHolds'
  <2>1. intent' # "disconnect"
    BY <1>5 DEF Next, Gui, Worker, ToggleAuto, Command, GuiSlot, ReconnectTimer,
         WorkerStart, WorkerStop, WorkerSend, SocketConnected, ReadFrame, RemoteClosed,
         HeartbeatTimeout, SocketRefused, RxAges, BridgeAccepts, BridgeRefuses,
         BridgeReports, ConnectionLost, vars, movingVars
  <2>2. QED
    BY <2>1 DEF DisconnectHolds
<1>6. QED
  BY <1>1, <1>2, <1>3, <1>4, <1>5

-----------------------------------------------------------------------------
(***************************************************************************)
(* The theorems                                                            *)
(***************************************************************************)
LEMMA InductiveInit == Init => IInv
<1>1. SUFFICES ASSUME Init PROVE IInv
  OBVIOUS
<1>2. /\ <<>> \in Seq(Frames) /\ <<>> \in Seq([name : Signals, of : Sids])
      /\ <<>> \in Seq([name : {"start", "stop", "cmd"}, of : Sids])
      /\ 0 \in Sids /\ 0 \in 0..MaxClicks /\ 0 \in 0..MaxFaults
  BY EmptySeq, BoundsAssumption DEF Sids
<1>3. Typed
  BY <1>1, <1>2 DEF Init, Typed, Guis, Nothing
<1>4. SocketMatchesPeer /\ DisconnectHolds /\ ShownIsSession
  BY <1>1 DEF Init, SocketMatchesPeer, DisconnectHolds, ShownIsSession, Live
<1>5. SignalsInOrder
  <2>1. AsSignals(net, sid) = <<>>
    BY <1>1, <1>2, FewSignals DEF Init
  <2>2. Coming = <<>>
    <3>1. toGui = <<>> /\ <<>> \in Seq(Link)
      BY <1>1 DEF Init
    <3>2. QED
      BY <2>1, <3>1, ConcatEmptySeq DEF Coming
  <2>3. NextUp = {Signal("connected", sid)}
    BY <1>1 DEF Init, NextUp
  <2>4. MayFollow(gui, Coming, Signal("connected", sid))
    BY <1>1, <2>2 DEF Init, MayFollow, Fits, Signal
  <2>5. Chained(gui, Coming)
    <3>1. Len(<<>>) = 0 /\ 1..(0 - 1) = {}
      OBVIOUS
    <3>2. QED
      BY <2>2, <3>1 DEF Chained
  <2>6. QED
    BY <2>3, <2>4, <2>5 DEF SignalsInOrder
<1>6. NodesOwned
  <2>1. Len(toGui) = 0 /\ 1..0 = {}
    BY <1>1 DEF Init
  <2>2. QED
    BY <1>1, <2>1 DEF Init, NodesOwned
<1>7. world \in Worlds
  BY <1>1 DEF Init
<1>8. QED
  BY <1>3, <1>4, <1>5, <1>6, <1>7 DEF IInv

LEMMA InductiveStep == IInv /\ [Next]_vars => IInv'
<1>1. SUFFICES ASSUME IInv, [Next]_vars PROVE IInv'
  OBVIOUS
<1>2. /\ Typed /\ SocketMatchesPeer /\ DisconnectHolds /\ SignalsInOrder
      /\ ShownIsSession /\ NodesOwned
  BY <1>1 DEF IInv
<1>3. Typed'
  BY <1>1, <1>2, TypedStep
<1>4. SocketMatchesPeer' /\ DisconnectHolds'
  BY <1>1, <1>2, <1>3, PeerStep, DisconnectStep
<1>5. SignalsInOrder' /\ ShownIsSession'
  BY <1>1, <1>2, <1>3, OrderStep
<1>6. NodesOwned'
  BY <1>1, <1>2, NodesStep
<1>7. world' \in Worlds
  BY <1>1 DEF IInv, Next, vars
<1>8. QED
  BY <1>3, <1>4, <1>5, <1>6, <1>7 DEF IInv

LEMMA InductiveInvariant == Spec => []IInv
<1>1. Init => IInv
  BY InductiveInit
<1>2. IInv /\ [Next]_vars => IInv'
  BY InductiveStep
<1>3. QED
  BY <1>1, <1>2, PTL DEF Spec

\* Every variable of the console's connection stays in its range, and the
\* reconnect timer never runs without being marked as pending.
THEOREM TypeCorrect == Spec => []TypeOK
<1>1. Typed /\ world \in Worlds => TypeOK
  <2>1. ASSUME Typed, world \in Worlds
        PROVE  /\ \A i \in DOMAIN toWorker :
                    toWorker[i] \in [name : {"start", "stop", "cmd"}, of : Sids]
               /\ \A i \in DOMAIN toGui : toGui[i] \in [name : Signals, of : Sids]
               /\ \A i \in DOMAIN net : net[i] \in Frames
    <3>1. /\ toWorker \in Seq([name : {"start", "stop", "cmd"}, of : Sids])
          /\ toGui \in Seq([name : Signals, of : Sids])
          /\ net \in Seq(Frames)
      BY <2>1 DEF Typed
    <3>2. \A i \in DOMAIN toWorker :
             toWorker[i] \in [name : {"start", "stop", "cmd"}, of : Sids]
      <4>. DEFINE T == [name : {"start", "stop", "cmd"}, of : Sids]
      <4>1. toWorker \in Seq(T)
        BY <3>1
      <4>. HIDE DEF T
      <4>2. \A i \in DOMAIN toWorker : toWorker[i] \in T
        BY <4>1, SeqFacts
      <4>3. QED
        BY <4>2 DEF T
    <3>3. \A i \in DOMAIN toGui : toGui[i] \in [name : Signals, of : Sids]
      BY <3>1, SeqFacts
    <3>4. \A i \in DOMAIN net : net[i] \in Frames
      BY <3>1, SeqFacts
    <3>5. QED
      BY <3>2, <3>3, <3>4
  <2>2. QED
    BY <2>1 DEF Typed, TypeOK
<1>2. IInv => TypeOK
  BY <1>1 DEF IInv
<1>3. QED
  BY <1>2, InductiveInvariant, PTL

\* A state on the screen, with the nodes and the faults beside it, belongs to
\* the open session, however many signals of earlier connections are still
\* queued (onState applies whatever arrives), and the table of the nodes of a
\* lost connection goes with the disconnected() that is already queued
\* (onDisconnected).  The fault table and the status of the navigation are kept
\* by resetRemote and may outlive the session.
THEOREM ShownIsLive == Spec => []ShownStateIsLive
<1>1. ASSUME IInv
      PROVE  ShownStateIsLive
  <2>1. toGui \in Seq([name : Signals, of : Sids])
    BY <1>1 DEF IInv, Typed
  <2>2. DOMAIN toGui = 1..Len(toGui)
    BY <2>1, SeqFacts
  <2>3. QED
    BY <1>1, <2>2
       DEF IInv, ShownIsSession, Live, NodesOwned, EndQueued, ShownStateIsLive
<1>2. QED
  BY <1>1, InductiveInvariant, PTL

\* With every signal handled, ONLINE means a socket connected to a bridge that
\* accepted the HELLO (onConnected is fail-closed).
THEOREM OnlineIsEarned == Spec => []OnlineIsHonest
<1>1. ASSUME IInv, gui.connected, toGui = <<>>
      PROVE  socket = "connected" /\ peer \notin {"none", "hello", "refused"}
  <2>1. /\ Typed /\ SocketMatchesPeer /\ SignalsInOrder
        /\ sid \in Sids
    BY <1>1 DEF IInv, Typed
  <2>2. ASSUME NEW x \in {"connected", "hello_ok", "hello_no", "done"}
        PROVE  ~Fits(gui, Signal(x, sid))
    BY <1>1 DEF Fits, Signal
  <2>3. CASE net = <<>>
    <3>1. Coming = <<>>
      BY <1>1, <2>1, <2>3, ComingFacts
    <3>2. \A e \in NextUp : Fits(gui, e)
      BY <2>1, <3>1 DEF SignalsInOrder, MayFollow
    <3>3. QED
      BY <2>1, <2>2, <3>2 DEF NextUp, SocketMatchesPeer
  <2>4. CASE net # <<>>
    <3>1. socket = "connected" /\ peer \notin {"none", "hello"}
      BY <2>1, <2>4 DEF SocketMatchesPeer
    <3>2. ASSUME peer = "refused"
          PROVE  FALSE
      <4>. DEFINE c == Coming
                  n == Len(c)
      <4>1. /\ c \in Seq(Link) /\ c = AsSignals(net, sid)
            /\ Len(net) \in Nat \ {0} /\ n = Len(net)
            /\ \A i \in 1..n : c[i].of = sid
        <5>1. /\ AsSignals(net, sid) \in Seq(Link) /\ net \in Seq(Signals)
              /\ Coming \in Seq(Link)
          BY <2>1, ComingFacts
        <5>2. Coming = AsSignals(net, sid)
          BY <1>1, <5>1, ConcatEmptySeq DEF Coming
        <5>3. Len(net) \in Nat \ {0}
          BY <2>4, <5>1, EmptySeq
        <5>4. QED
          BY <2>1, <5>1, <5>2, <5>3, AsSignalsType, SignalType
      <4>2. /\ Chained(gui, c) /\ MayFollow(gui, c, Signal("done", sid))
        BY <2>1, <3>1, <3>2 DEF SignalsInOrder, NextUp
      <4>. HIDE DEF c
      <4>3. c # <<>> /\ n \in Nat \ {0} /\ c[n].name = "hello_no"
        BY <4>1, <4>2, SeqFacts DEF MayFollow, Follows, Signal
      <4>4. CASE n = 1
        BY <1>1, <4>2, <4>3, <4>4 DEF Chained, Fits
      <4>5. CASE n # 1
        <5>1. n - 1 \in 1..(n - 1) /\ (n - 1) + 1 = n
          <6>1. \A m \in Nat \ {0} : m # 1 => m - 1 \in 1..(m - 1) /\ (m - 1) + 1 = m
            OBVIOUS
          <6>. HIDE DEF n
          <6>2. QED
            BY <4>3, <4>5, <6>1
        <5>2. Follows(c[n - 1], c[n])
          BY <4>2, <5>1 DEF Chained
        <5>3. c[n - 1].name = "connected"
          BY <4>3, <5>2 DEF Follows
        <5>4. c[n - 1].name \in Frames
          <6>1. /\ net \in Seq(Frames) /\ net \in Seq(Signals)
                /\ n - 1 \in 1..Len(net)
            BY <2>1, <4>1, <5>1, ComingFacts DEF Typed
          <6>2. net[n - 1] \in Frames
            BY <6>1, ElementOfSeq
          <6>3. c[n - 1] = Signal(net[n - 1], sid)
            BY <2>1, <4>1, <6>1, AsSignalsType
          <6>4. QED
            BY <6>2, <6>3, SignalType
        <5>5. QED
          BY <5>3, <5>4 DEF Frames
      <4>6. QED
        BY <4>4, <4>5
    <3>3. QED
      BY <3>1, <3>2
  <2>5. QED
    BY <2>3, <2>4
<1>2. IInv => OnlineIsHonest
  BY <1>1 DEF OnlineIsHonest
<1>3. QED
  BY <1>2, InductiveInvariant, PTL

\* A manual disconnection sticks, whatever signal of the old connection comes
\* late (scheduleReconnect, onReconnectTimer).
THEOREM DisconnectionSticks == Spec => []ManualSticks
<1>1. ASSUME IInv, intent = "disconnect"
      PROVE  ~gui.timer /\ (toWorker = <<>> => socket = "unconnected")
  <2>1. DisconnectHolds
    BY <1>1 DEF IInv
  <2>2. toWorker = <<>> => ~StopComes
    BY DEF StopComes
  <2>3. QED
    BY <1>1, <2>1, <2>2 DEF DisconnectHolds
<1>2. IInv => ManualSticks
  BY <1>1 DEF ManualSticks
<1>3. QED
  BY <1>2, InductiveInvariant, PTL
=============================================================================
