------------------------ MODULE DesktopShell_proofs ------------------------
(***************************************************************************)
(* The desktop shell: what is drawn on the screen belongs together, and    *)
(* the scene the switcher names is the scene that runs, whatever order     *)
(* calls, messages, ticks and clicks come in.                              *)
(***************************************************************************)
EXTENDS DesktopShell, EngineDriver_proofs

-----------------------------------------------------------------------------
(***************************************************************************)
(* The message channel, as constant facts: b is what is under way, `shown` *)
(* the static payload drawn and rng the snapshots it is drawn with, o the  *)
(* origin and t the tick of the world that emits.                          *)
(***************************************************************************)
Snapshots == [kind : {"snapshot"}, origin : Origins, tick : Nat]
Messages  == [kind : {"static"}, origin : Origins] \union Snapshots \union {Fault}

\* No static payload from place i to place j.
NoStatic(b, i, j) == \A k \in i .. j : b[k].kind # "static"

\* A snapshot of origin o at tick t may follow message m.
Precedes(m, o, t) ==
  /\ m.kind \in {"static", "snapshot"} => m.origin = o
  /\ m.kind = "snapshot" => m.tick <= t

\* It may be drawn next.
Fits(shown, rng, o, t) ==
  /\ shown # <<>> => shown[1] = o
  /\ \A i \in DOMAIN rng : Precedes(rng[i], o, t)

\* A snapshot contradicts nothing since the last static payload before it.
Orderly(b, shown, rng, o, t) ==
  /\ \A i, j \in DOMAIN b :
       i < j /\ b[j].kind = "snapshot" /\ NoStatic(b, i + 1, j) => Precedes(b[i], b[j].origin, b[j].tick)
  /\ \A i \in DOMAIN b : NoStatic(b, i + 1, Len(b)) => Precedes(b[i], o, t)
  /\ \A j \in DOMAIN b :
       b[j].kind = "snapshot" /\ NoStatic(b, 1, j) => Fits(shown, rng, b[j].origin, b[j].tick)
  /\ NoStatic(b, 1, Len(b)) => Fits(shown, rng, o, t)

LEMMA MessageFields ==
  ASSUME NEW m \in Messages
  PROVE  /\ m.kind \in {"static", "snapshot", "fault"}
         /\ m.kind \in {"static", "snapshot"} => m.origin \in Origins
         /\ m.kind = "snapshot" => m \in Snapshots /\ m.tick \in Nat
<1>1. CASE m \in [kind : {"static"}, origin : Origins]
  BY <1>1
<1>2. CASE m \in Snapshots
  BY <1>2 DEF Snapshots
<1>3. CASE m = Fault
  BY <1>3 DEF Fault
<1> QED  BY <1>1, <1>2, <1>3 DEF Messages

\* What may precede a snapshot may precede a later one.
LEMMA PrecedesLater ==
  ASSUME NEW m \in Messages, NEW o, NEW t \in Nat, NEW u \in Nat, t <= u, Precedes(m, o, t)
  PROVE  Precedes(m, o, u)
BY MessageFields DEF Precedes

LEMMA FitsLater ==
  ASSUME NEW shown, NEW rng \in Seq(Snapshots), NEW o, NEW t \in Nat, NEW u \in Nat, t <= u,
         Fits(shown, rng, o, t)
  PROVE  Fits(shown, rng, o, u)
<1>1. \A i \in DOMAIN rng : rng[i] \in Messages
  BY DEF Messages
<1> QED  BY <1>1, PrecedesLater DEF Fits

\* The world ticks.
LEMMA OrderlyLater ==
  ASSUME NEW b \in Seq(Messages), NEW shown, NEW rng \in Seq(Snapshots), NEW o,
         NEW t \in Nat, NEW u \in Nat, t <= u, Orderly(b, shown, rng, o, t)
  PROVE  Orderly(b, shown, rng, o, u)
<1>1. \A i \in DOMAIN b : b[i] \in Messages
  OBVIOUS
<1>2. ASSUME NEW i \in DOMAIN b, NoStatic(b, i + 1, Len(b))  PROVE Precedes(b[i], o, u)
  BY <1>1, <1>2, PrecedesLater DEF Orderly
<1>3. ASSUME NoStatic(b, 1, Len(b))  PROVE Fits(shown, rng, o, u)
  BY <1>3, FitsLater DEF Orderly
<1> QED  BY <1>2, <1>3 DEF Orderly

\* A message that is no static payload is emitted.
LEMMA OrderlyAppend ==
  ASSUME NEW b \in Seq(Messages), NEW shown, NEW rng, NEW o, NEW t, NEW m \in Messages,
         Orderly(b, shown, rng, o, t), m.kind # "static", Precedes(m, o, t),
         m.kind = "snapshot" => m.origin = o /\ m.tick = t
  PROVE  Orderly(Append(b, m), shown, rng, o, t)
<1> DEFINE n == Len(b)
           c == Append(b, m)
<1>1. /\ n \in Nat /\ DOMAIN b = 1 .. n /\ DOMAIN c = 1 .. n + 1 /\ Len(c) = n + 1
      /\ c[n + 1] = m /\ \A i \in 1 .. n : c[i] = b[i]
  BY AppendProperties, LenProperties
<1> HIDE DEF c, n
<1>2. \A i \in Nat, j \in 1 .. n : i >= 1 /\ NoStatic(c, i, j) => NoStatic(b, i, j)
  BY <1>1 DEF NoStatic
<1>3. \A i \in Nat : i >= 1 /\ NoStatic(c, i, n + 1) => NoStatic(b, i, n)
  BY <1>1 DEF NoStatic
<1>4. ASSUME NEW i \in 1 .. n + 1, NEW j \in 1 .. n + 1, i < j, c[j].kind = "snapshot",
             NoStatic(c, i + 1, j)
      PROVE  Precedes(c[i], c[j].origin, c[j].tick)
  <2>1. i \in 1 .. n /\ c[i] = b[i]
    BY <1>1, <1>4
  <2>2. CASE j = n + 1
    <3>1. NoStatic(b, i + 1, n)
      BY <1>3, <1>4, <2>1, <2>2
    <3>2. Precedes(b[i], o, t)
      BY <1>1, <2>1, <3>1 DEF Orderly, n
    <3> QED  BY <1>1, <1>4, <2>1, <2>2, <3>2
  <2>3. CASE j # n + 1
    <3>1. j \in 1 .. n /\ c[j] = b[j]
      BY <1>1, <1>4, <2>3
    <3>2. NoStatic(b, i + 1, j)
      BY <1>2, <1>4, <2>1, <3>1
    <3> QED  BY <1>1, <1>4, <2>1, <3>1, <3>2 DEF Orderly
  <2> QED  BY <2>2, <2>3
<1>5. ASSUME NEW i \in 1 .. n + 1, NoStatic(c, i + 1, n + 1)
      PROVE  Precedes(c[i], o, t)
  <2>1. CASE i = n + 1
    BY <1>1, <2>1
  <2>2. CASE i # n + 1
    <3>1. i \in 1 .. n /\ NoStatic(b, i + 1, n)
      BY <1>1, <1>3, <1>5, <2>2
    <3> QED  BY <1>1, <3>1 DEF Orderly, n
  <2> QED  BY <2>1, <2>2
<1>6. ASSUME NEW j \in 1 .. n + 1, c[j].kind = "snapshot", NoStatic(c, 1, j)
      PROVE  Fits(shown, rng, c[j].origin, c[j].tick)
  <2>1. CASE j = n + 1
    <3>1. NoStatic(b, 1, n)
      BY <1>1, <1>3, <1>6, <2>1
    <3>2. Fits(shown, rng, o, t)
      BY <3>1 DEF Orderly, n
    <3> QED  BY <1>1, <1>6, <2>1, <3>2
  <2>2. CASE j # n + 1
    <3>1. j \in 1 .. n /\ c[j] = b[j] /\ NoStatic(b, 1, j)
      BY <1>1, <1>2, <1>6, <2>2
    <3> QED  BY <1>1, <1>6, <3>1 DEF Orderly
  <2> QED  BY <2>1, <2>2
<1>7. ASSUME NoStatic(c, 1, n + 1)  PROVE Fits(shown, rng, o, t)
  <2>1. NoStatic(b, 1, n)
    BY <1>1, <1>3, <1>7
  <2> QED  BY <2>1 DEF Orderly, n
<1>8. Orderly(c, shown, rng, o, t)
  BY <1>1, <1>4, <1>5, <1>6, <1>7 DEF Orderly
<1> QED  BY <1>8 DEF c

\* A static payload is emitted: the world is of its origin, whatever it was.
LEMMA OrderlyStatic ==
  ASSUME NEW b \in Seq(Messages), NEW shown, NEW rng, NEW o, NEW t, NEW u, NEW m \in Messages,
         Orderly(b, shown, rng, o, t), m.kind = "static"
  PROVE  Orderly(Append(b, m), shown, rng, m.origin, u)
<1> DEFINE n == Len(b)
           c == Append(b, m)
<1>1. /\ n \in Nat /\ DOMAIN b = 1 .. n /\ DOMAIN c = 1 .. n + 1 /\ Len(c) = n + 1
      /\ c[n + 1] = m /\ \A i \in 1 .. n : c[i] = b[i]
  BY AppendProperties, LenProperties
<1> HIDE DEF c, n
<1>2. \A i \in Nat, j \in 1 .. n : i >= 1 /\ NoStatic(c, i, j) => NoStatic(b, i, j)
  BY <1>1 DEF NoStatic
<1>3. \A i \in 1 .. n + 1 : ~NoStatic(c, i, n + 1)
  BY <1>1 DEF NoStatic
<1>4. ASSUME NEW i \in 1 .. n + 1, NEW j \in 1 .. n + 1, i < j, c[j].kind = "snapshot",
             NoStatic(c, i + 1, j)
      PROVE  Precedes(c[i], c[j].origin, c[j].tick)
  <2>1. i \in 1 .. n /\ j \in 1 .. n /\ c[i] = b[i] /\ c[j] = b[j]
    BY <1>1, <1>4
  <2>2. NoStatic(b, i + 1, j)
    BY <1>2, <1>4, <2>1
  <2> QED  BY <1>1, <1>4, <2>1, <2>2 DEF Orderly
<1>5. ASSUME NEW i \in 1 .. n + 1, NoStatic(c, i + 1, n + 1)
      PROVE  Precedes(c[i], m.origin, u)
  <2>1. i = n + 1
    BY <1>1, <1>3, <1>5
  <2> QED  BY <1>1, <2>1 DEF Precedes
<1>6. ASSUME NEW j \in 1 .. n + 1, c[j].kind = "snapshot", NoStatic(c, 1, j)
      PROVE  Fits(shown, rng, c[j].origin, c[j].tick)
  <2>1. j \in 1 .. n /\ c[j] = b[j]
    BY <1>1, <1>6
  <2>2. NoStatic(b, 1, j)
    BY <1>2, <1>6, <2>1
  <2> QED  BY <1>1, <1>6, <2>1, <2>2 DEF Orderly
<1>7. ~NoStatic(c, 1, n + 1)
  BY <1>1, <1>3
<1>8. Orderly(c, shown, rng, m.origin, u)
  BY <1>1, <1>4, <1>5, <1>6, <1>7 DEF Orderly
<1> QED  BY <1>8 DEF c

\* The first message is taken from what is under way.
LEMMA TailFacts ==
  ASSUME NEW b \in Seq(Messages), b # <<>>
  PROVE  /\ Len(b) \in Nat \ {0} /\ DOMAIN b = 1 .. Len(b)
         /\ Head(b) = b[1] /\ b[1] \in Messages /\ Tail(b) \in Seq(Messages)
         /\ DOMAIN Tail(b) = 1 .. Len(b) - 1 /\ Len(Tail(b)) = Len(b) - 1
         /\ \A i \in 1 .. Len(b) - 1 : Tail(b)[i] = b[i + 1]
         /\ \A i \in 1 .. Len(b), j \in 1 .. Len(b) - 1 :
              NoStatic(Tail(b), i, j) => NoStatic(b, i + 1, j + 1)
         /\ \A i \in 1 .. Len(b) : NoStatic(Tail(b), i, Len(b) - 1) => NoStatic(b, i + 1, Len(b))
<1>1. /\ Len(b) \in Nat \ {0} /\ DOMAIN b = 1 .. Len(b)
      /\ Head(b) = b[1] /\ b[1] \in Messages
  BY EmptySeq, LenProperties
<1>2. /\ Tail(b) \in Seq(Messages) /\ Len(Tail(b)) = Len(b) - 1
      /\ \A i \in 1 .. Len(b) - 1 : Tail(b)[i] = b[i + 1]
  BY HeadTailProperties
<1>3. DOMAIN Tail(b) = 1 .. Len(b) - 1
  BY <1>2, LenProperties
<1>4. ASSUME NEW i \in 1 .. Len(b), NEW j \in 1 .. Len(b) - 1, NoStatic(Tail(b), i, j),
             NEW k \in i + 1 .. j + 1
      PROVE  b[k].kind # "static"
  <2>1. k - 1 \in i .. j /\ k - 1 \in 1 .. Len(b) - 1 /\ (k - 1) + 1 = k
    BY <1>1
  <2>2. Tail(b)[k - 1] = b[k]
    BY <1>2, <2>1
  <2> QED  BY <1>4, <2>1, <2>2 DEF NoStatic
<1>5. ASSUME NEW i \in 1 .. Len(b), NoStatic(Tail(b), i, Len(b) - 1), NEW k \in i + 1 .. Len(b)
      PROVE  b[k].kind # "static"
  <2>1. k - 1 \in i .. Len(b) - 1 /\ k - 1 \in 1 .. Len(b) - 1 /\ (k - 1) + 1 = k
    BY <1>1
  <2>2. Tail(b)[k - 1] = b[k]
    BY <1>2, <2>1
  <2> QED  BY <1>5, <2>1, <2>2 DEF NoStatic
<1> QED  BY <1>1, <1>2, <1>3, <1>4, <1>5 DEF NoStatic

\* It is a static payload: it is drawn, without snapshots.
LEMMA OrderlyShow ==
  ASSUME NEW b \in Seq(Messages), NEW shown, NEW rng, NEW o, NEW t,
         b # <<>>, Orderly(b, shown, rng, o, t), b[1].kind = "static"
  PROVE  Orderly(Tail(b), <<b[1].origin>>, <<>>, o, t)
<1> DEFINE n == Len(b)
           c == Tail(b)
           new == <<b[1].origin>>
<1>1. /\ n \in Nat \ {0} /\ DOMAIN b = 1 .. n /\ DOMAIN c = 1 .. n - 1 /\ Len(c) = n - 1
      /\ \A i \in 1 .. n - 1 : c[i] = b[i + 1]
      /\ \A i \in 1 .. n, j \in 1 .. n - 1 : NoStatic(c, i, j) => NoStatic(b, i + 1, j + 1)
      /\ \A i \in 1 .. n : NoStatic(c, i, n - 1) => NoStatic(b, i + 1, n)
  BY TailFacts
<1>2. \A p, v : new[1] = p => Fits(new, <<>>, p, v)
  BY DEF Fits
<1>3. new[1] = b[1].origin
  OBVIOUS
<1> HIDE DEF c, n, new
<1>4. ASSUME NEW i \in 1 .. n - 1, NEW j \in 1 .. n - 1, i < j, c[j].kind = "snapshot",
             NoStatic(c, i + 1, j)
      PROVE  Precedes(c[i], c[j].origin, c[j].tick)
  <2>1. NoStatic(b, (i + 1) + 1, j + 1) /\ c[i] = b[i + 1] /\ c[j] = b[j + 1]
        /\ i + 1 \in 1 .. n /\ j + 1 \in 1 .. n /\ i + 1 < j + 1
    BY <1>1, <1>4
  <2>2. \A k, l \in 1 .. n :
          k < l /\ b[l].kind = "snapshot" /\ NoStatic(b, k + 1, l) => Precedes(b[k], b[l].origin, b[l].tick)
    BY <1>1 DEF Orderly
  <2>3. Precedes(b[i + 1], b[j + 1].origin, b[j + 1].tick)
    BY <1>4, <2>1, <2>2
  <2> QED  BY <2>1, <2>3
<1>5. ASSUME NEW i \in 1 .. n - 1, NoStatic(c, i + 1, n - 1)
      PROVE  Precedes(c[i], o, t)
  <2>1. i + 1 \in 1 .. n /\ c[i] = b[i + 1]
    BY <1>1
  <2>2. NoStatic(b, (i + 1) + 1, n)
    BY <1>1, <1>5, <2>1
  <2> QED  BY <1>1, <2>1, <2>2 DEF Orderly, n
<1>6. ASSUME NEW j \in 1 .. n - 1, c[j].kind = "snapshot", NoStatic(c, 1, j)
      PROVE  Fits(new, <<>>, c[j].origin, c[j].tick)
  <2>1. NoStatic(b, 1 + 1, j + 1) /\ c[j] = b[j + 1] /\ j + 1 \in 1 .. n /\ 1 \in 1 .. n /\ 1 < j + 1
    BY <1>1, <1>6
  <2>2. Precedes(b[1], c[j].origin, c[j].tick)
    BY <1>1, <1>6, <2>1 DEF Orderly
  <2> QED  BY <1>2, <1>3, <2>2 DEF Precedes
<1>7. ASSUME NoStatic(c, 1, n - 1)  PROVE Fits(new, <<>>, o, t)
  <2>1. NoStatic(b, 1 + 1, n)
    BY <1>1, <1>7
  <2>2. Precedes(b[1], o, t)
    BY <1>1, <2>1 DEF Orderly, n
  <2> QED  BY <1>2, <1>3, <2>2 DEF Precedes
<1>8. Orderly(c, new, <<>>, o, t)
  BY <1>1, <1>4, <1>5, <1>6, <1>7 DEF Orderly
<1> QED  BY <1>8 DEF c, new

\* It is none: of the snapshots drawn, each was drawn before or is the message.
LEMMA OrderlyTake ==
  ASSUME NEW b \in Seq(Messages), NEW shown, NEW rng, NEW next, NEW o, NEW t,
         b # <<>>, Orderly(b, shown, rng, o, t), b[1].kind # "static",
         \A i \in DOMAIN next : next[i] = b[1] \/ \E k \in DOMAIN rng : next[i] = rng[k]
  PROVE  Orderly(Tail(b), shown, next, o, t)
<1> DEFINE n == Len(b)
           c == Tail(b)
<1>1. /\ n \in Nat \ {0} /\ DOMAIN b = 1 .. n /\ DOMAIN c = 1 .. n - 1 /\ Len(c) = n - 1
      /\ \A i \in 1 .. n - 1 : c[i] = b[i + 1]
      /\ \A i \in 1 .. n, j \in 1 .. n - 1 : NoStatic(c, i, j) => NoStatic(b, i + 1, j + 1)
      /\ \A i \in 1 .. n : NoStatic(c, i, n - 1) => NoStatic(b, i + 1, n)
  BY TailFacts
<1>2. \A p, v : Fits(shown, rng, p, v) /\ Precedes(b[1], p, v) => Fits(shown, next, p, v)
  BY DEF Fits
<1> HIDE DEF c, n
<1>3. \A j \in 1 .. n : NoStatic(b, 1 + 1, j) => NoStatic(b, 1, j)
  BY <1>1 DEF NoStatic
<1>4. ASSUME NEW i \in 1 .. n - 1, NEW j \in 1 .. n - 1, i < j, c[j].kind = "snapshot",
             NoStatic(c, i + 1, j)
      PROVE  Precedes(c[i], c[j].origin, c[j].tick)
  <2>1. NoStatic(b, (i + 1) + 1, j + 1) /\ c[i] = b[i + 1] /\ c[j] = b[j + 1]
        /\ i + 1 \in 1 .. n /\ j + 1 \in 1 .. n /\ i + 1 < j + 1
    BY <1>1, <1>4
  <2>2. \A k, l \in 1 .. n :
          k < l /\ b[l].kind = "snapshot" /\ NoStatic(b, k + 1, l) => Precedes(b[k], b[l].origin, b[l].tick)
    BY <1>1 DEF Orderly
  <2>3. Precedes(b[i + 1], b[j + 1].origin, b[j + 1].tick)
    BY <1>4, <2>1, <2>2
  <2> QED  BY <2>1, <2>3
<1>5. ASSUME NEW i \in 1 .. n - 1, NoStatic(c, i + 1, n - 1)
      PROVE  Precedes(c[i], o, t)
  <2>1. i + 1 \in 1 .. n /\ c[i] = b[i + 1]
    BY <1>1
  <2>2. NoStatic(b, (i + 1) + 1, n)
    BY <1>1, <1>5, <2>1
  <2> QED  BY <1>1, <2>1, <2>2 DEF Orderly, n
<1>6. ASSUME NEW j \in 1 .. n - 1, c[j].kind = "snapshot", NoStatic(c, 1, j)
      PROVE  Fits(shown, next, c[j].origin, c[j].tick)
  <2>1. NoStatic(b, 1 + 1, j + 1) /\ c[j] = b[j + 1] /\ j + 1 \in 1 .. n /\ 1 \in 1 .. n /\ 1 < j + 1
    BY <1>1, <1>6
  <2>2. Precedes(b[1], c[j].origin, c[j].tick)
    BY <1>1, <1>6, <2>1 DEF Orderly
  <2>3. Fits(shown, rng, c[j].origin, c[j].tick)
    BY <1>1, <1>3, <1>6, <2>1 DEF Orderly
  <2> QED  BY <1>2, <2>2, <2>3
<1>7. ASSUME NoStatic(c, 1, n - 1)  PROVE Fits(shown, next, o, t)
  <2>1. NoStatic(b, 1 + 1, n) /\ n \in 1 .. n /\ 1 \in 1 .. n
    BY <1>1, <1>7
  <2>2. Precedes(b[1], o, t)
    BY <1>1, <2>1 DEF Orderly, n
  <2>3. Fits(shown, rng, o, t)
    BY <1>3, <2>1 DEF Orderly, n
  <2> QED  BY <1>2, <2>2, <2>3
<1>8. Orderly(c, shown, next, o, t)
  BY <1>1, <1>4, <1>5, <1>6, <1>7 DEF Orderly
<1> QED  BY <1>8 DEF c

-----------------------------------------------------------------------------
(***************************************************************************)
(* What the driver emits.                                                  *)
(***************************************************************************)
\* From b, emitted up to a world of origin o at tick t, to c, emitted up to
\* one of origin p at tick u.
Continues(b, o, t, c, p, u) ==
  /\ c \in Seq(Messages)
  /\ \A shown : \A rng \in Seq(Snapshots) : Orderly(b, shown, rng, o, t) => Orderly(c, shown, rng, p, u)

LEMMA WorldMessages ==
  ASSUME NEW w \in Worlds
  PROVE  /\ StaticOf(w) \in Messages /\ StaticOf(w).kind = "static" /\ StaticOf(w).origin = w.origin
         /\ SnapshotOf(w) \in Messages /\ SnapshotOf(w) \in Snapshots /\ SnapshotOf(w).kind = "snapshot"
         /\ SnapshotOf(w).origin = w.origin /\ SnapshotOf(w).tick = w.tick
         /\ Fault \in Messages /\ Fault.kind = "fault"
BY DEF Worlds, StaticOf, SnapshotOf, Fault, Messages, Snapshots

LEMMA OneMore ==
  ASSUME NEW S, NEW b \in Seq(S), NEW m \in S
  PROVE  b \o <<m>> = Append(b, m) /\ Append(b, m) \in Seq(S)
BY AppendIsConcat

LEMMA TwoMore ==
  ASSUME NEW S, NEW b \in Seq(S), NEW m \in S, NEW n \in S
  PROVE  b \o <<m, n>> = Append(Append(b, m), n)
OBVIOUS

LEMMA ThreeParts ==
  ASSUME NEW S, NEW b \in Seq(S), NEW x \in Seq(S), NEW y \in Seq(S)
  PROVE  b \o x \in Seq(S) /\ b \o (x \o y) = (b \o x) \o y
<1>1. b \o x \in Seq(S)
  BY ConcatProperties
<1>2. (b \o x) \o y = b \o (x \o y)
  BY ConcatAssociative
<1> QED  BY <1>1, <1>2

\* The world ticks, and nothing is said of it.
LEMMA SayNothing ==
  ASSUME NEW b \in Seq(Messages), NEW o, NEW t \in Nat, NEW u \in Nat, t <= u
  PROVE  Continues(b, o, t, b, o, u)
BY OrderlyLater DEF Continues

\* A fault is reported.
LEMMA SayFault ==
  ASSUME NEW b \in Seq(Messages), NEW o, NEW t \in Nat, NEW u \in Nat, t <= u
  PROVE  Continues(b, o, t, b \o <<Fault>>, o, u)
<1>1. Fault \in Messages /\ Fault.kind = "fault"
  BY DEF Fault, Messages
<1>2. b \o <<Fault>> = Append(b, Fault) /\ Append(b, Fault) \in Seq(Messages)
  BY <1>1, OneMore
<1>3. Precedes(Fault, o, u)
  BY <1>1 DEF Precedes
<1> SUFFICES ASSUME NEW shown, NEW rng \in Seq(Snapshots), Orderly(b, shown, rng, o, t)
             PROVE  Orderly(Append(b, Fault), shown, rng, o, u)
  BY <1>2 DEF Continues
<1>4. Orderly(b, shown, rng, o, u)
  BY OrderlyLater
<1> QED  BY <1>1, <1>3, <1>4, OrderlyAppend

\* Its snapshot is sent.
LEMMA SaySnapshot ==
  ASSUME NEW b \in Seq(Messages), NEW w \in Worlds, NEW t \in Nat, t <= w.tick
  PROVE  Continues(b, w.origin, t, b \o <<SnapshotOf(w)>>, w.origin, w.tick)
<1> DEFINE m == SnapshotOf(w)
<1>1. m \in Messages /\ m.kind = "snapshot" /\ m.origin = w.origin /\ m.tick = w.tick
  BY WorldMessages
<1>2. w.tick \in Nat
  BY WorldDomain
<1> HIDE DEF m
<1>3. b \o <<m>> = Append(b, m) /\ Append(b, m) \in Seq(Messages)
  BY <1>1, OneMore
<1>4. Precedes(m, w.origin, w.tick)
  BY <1>1, <1>2 DEF Precedes
<1>5. ASSUME NEW shown, NEW rng \in Seq(Snapshots), Orderly(b, shown, rng, w.origin, t)
      PROVE  Orderly(Append(b, m), shown, rng, w.origin, w.tick)
  <2>1. Orderly(b, shown, rng, w.origin, w.tick)
    BY <1>2, <1>5, OrderlyLater
  <2> QED  BY <1>1, <1>4, <2>1, OrderlyAppend
<1> QED  BY <1>3, <1>5 DEF Continues, m

\* What continues goes on.
LEMMA ContinuesOn ==
  ASSUME NEW b, NEW o, NEW t, NEW c, NEW p, NEW u, NEW d, NEW q, NEW v,
         Continues(b, o, t, c, p, u), Continues(c, p, u, d, q, v)
  PROVE  Continues(b, o, t, d, q, v)
BY DEF Continues

\* Its static payload and its snapshot are sent, of another world, it may be.
LEMMA SayBoth ==
  ASSUME NEW b \in Seq(Messages), NEW o, NEW t, NEW w \in Worlds
  PROVE  Continues(b, o, t, b \o Both(w), w.origin, w.tick)
<1> DEFINE m == StaticOf(w)
           n == SnapshotOf(w)
           c == Append(b, m)
<1>1. /\ m \in Messages /\ m.kind = "static" /\ m.origin = w.origin /\ n \in Messages
      /\ w.tick \in Nat /\ w.tick <= w.tick
  BY WorldMessages, WorldDomain
<1> HIDE DEF m, n
<1>2. c \in Seq(Messages)
  BY <1>1
<1>3. Continues(b, o, t, c, w.origin, w.tick)
  <2>1. ASSUME NEW shown, NEW rng \in Seq(Snapshots), Orderly(b, shown, rng, o, t)
        PROVE  Orderly(c, shown, rng, m.origin, w.tick)
    BY <1>1, <2>1, OrderlyStatic
  <2> HIDE DEF c
  <2> QED  BY <1>1, <1>2, <2>1 DEF Continues
<1>4. b \o <<m, n>> = Append(c, n)
  BY <1>1, TwoMore
<1> HIDE DEF c
<1>5. Append(c, n) = c \o <<n>>
  BY <1>1, <1>2, OneMore
<1>6. Continues(c, w.origin, w.tick, c \o <<n>>, w.origin, w.tick)
  BY <1>1, <1>2, SaySnapshot DEF n
<1>7. Continues(b, o, t, c \o <<n>>, w.origin, w.tick)
  BY <1>3, <1>6, ContinuesOn
<1> QED  BY <1>4, <1>5, <1>7 DEF Both, m, n

\* tick_and_emit says so of its world.
LEMMA TickContinues ==
  ASSUME bus \in Seq(Messages), listening, NEW w \in Worlds, NEW outcome, NEW after \in Worlds,
         TickAndEmit(w, outcome, after),
         after.origin = w.origin, after.tick = TickedWorld(w, outcome).tick
  PROVE  Continues(bus, w.origin, w.tick, bus', world'.origin, world'.tick)
<1> DEFINE x == TickedWorld(w, outcome)
           faults == IF x.state = "faulted" /\ w.state # "faulted" THEN <<Fault>> ELSE <<>>
           snaps == <<SnapshotOf(x)>>
           c == bus \o faults
<1>1. x \in Worlds /\ x.origin = w.origin /\ x.tick \in {w.tick, w.tick + 1}
  BY TickedFacts
<1>2. w.tick \in Nat /\ x.tick \in Nat /\ w.tick <= x.tick /\ x.tick <= x.tick
  BY <1>1, WorldDomain
<1>3. world' = after /\ bus' \in {bus \o faults, bus \o (faults \o snaps)}
  BY DEF TickAndEmit, Emit
<1>4. faults \in {<<>>, <<Fault>>} /\ Fault \in Messages /\ SnapshotOf(x) \in Messages
  BY <1>1, WorldMessages
<1> HIDE DEF x, faults
<1>5. bus \o faults \in Seq(Messages) /\ bus \o (faults \o snaps) = (bus \o faults) \o snaps
  <2> DEFINE s == SnapshotOf(x)
  <2>1. <<>> \in Seq(Messages) /\ s \in Messages /\ snaps = <<s>>
    BY <1>4
  <2> HIDE DEF s, snaps
  <2>2. <<s>> \in Seq(Messages) /\ <<Fault>> \in Seq(Messages)
    BY <1>4, <2>1
  <2>3. faults \in Seq(Messages) /\ snaps \in Seq(Messages)
    BY <1>4, <2>1, <2>2
  <2> HIDE DEF faults
  <2> QED  BY <2>3, ThreeParts
<1>6. Continues(bus, w.origin, w.tick, c, w.origin, x.tick)
  <2>1. CASE faults = <<>>
    <3>1. c = bus
      BY <2>1
    <3> QED  BY <1>2, <3>1, SayNothing
  <2>2. CASE faults = <<Fault>>
    BY <1>2, <2>2, SayFault
  <2> QED  BY <1>4, <2>1, <2>2
<1>7. CASE bus' = c
  BY <1>1, <1>3, <1>6, <1>7 DEF x
<1>8. CASE bus' = c \o snaps
  <2> HIDE DEF c
  <2>1. c \in Seq(Messages)
    BY <1>5 DEF c
  <2>2. Continues(c, x.origin, x.tick, c \o snaps, x.origin, x.tick)
    BY <1>1, <1>2, <2>1, SaySnapshot
  <2> HIDE DEF snaps
  <2>3. Continues(bus, w.origin, w.tick, c \o snaps, x.origin, x.tick)
    BY <1>1, <1>6, <2>2, ContinuesOn
  <2> QED  BY <1>1, <1>3, <1>8, <2>3 DEF x
<1> QED  BY <1>3, <1>5, <1>7, <1>8

\* replace_scene: the other scene, or a fault.
LEMMA ReplaceContinues ==
  ASSUME bus \in Seq(Messages), listening, world \in Worlds, NEW chosen \in Scenes,
         disk \in [Scenes -> Contents], ReplaceScene(chosen)
  PROVE  Continues(bus, world.origin, world.tick, bus', world'.origin, world'.tick)
<1>1. CASE CanLoad(chosen)
  <2>1. world' = Loaded(chosen) /\ bus' = bus \o Both(Loaded(chosen))
    BY <1>1 DEF ReplaceScene, Emit
  <2>2. Loaded(chosen) \in Worlds
    BY LoadedFacts
  <2> QED  BY <2>1, <2>2, SayBoth
<1>2. CASE ~CanLoad(chosen)
  <2>1. world' = world /\ bus' = bus \o <<Fault>>
    BY <1>2 DEF ReplaceScene, Emit
  <2>2. world.tick \in Nat /\ world.tick <= world.tick
    BY WorldDomain
  <2> QED  BY <2>1, <2>2, SayFault
<1> QED  BY <1>1, <1>2

\* A command.
LEMMA CommandContinues ==
  ASSUME bus \in Seq(Messages), listening, world \in Worlds, active \in Scenes,
         disk \in [Scenes -> Contents], NEW command \in Command, HandleCommand(command)
  PROVE  Continues(bus, world.origin, world.tick, bus', world'.origin, world'.tick)
<1>1. world.tick \in Nat /\ world.tick <= world.tick
  BY WorldDomain
<1>2. ASSUME world'.origin = world.origin, world'.tick = world.tick, bus' = bus
      PROVE  Continues(bus, world.origin, world.tick, bus', world'.origin, world'.tick)
  BY <1>1, <1>2, SayNothing
<1>3. CASE TogglePause
  <2> DEFINE s == IF ~paused THEN "paused"
                  ELSE IF world.state = "paused" THEN "running" ELSE world.state
  <2>1. world' = [world EXCEPT !.state = s] /\ bus' = bus
    BY <1>3 DEF TogglePause, streamVars
  <2>2. s \in RunStates
    BY WorldDomain DEF RunStates
  <2> HIDE DEF s
  <2>3. world'.origin = world.origin /\ world'.tick = world.tick
    BY <2>1, <2>2, StateFacts
  <2> QED  BY <1>2, <2>1, <2>3
<1>4. ASSUME NEW outcome \in TickOutcomes, Step(outcome)
      PROVE  Continues(bus, world.origin, world.tick, bus', world'.origin, world'.tick)
  <2> DEFINE w     == IF world.state = "paused" THEN [world EXCEPT !.state = "running"] ELSE world
             t     == TickedWorld(w, outcome)
             after == IF paused THEN [t EXCEPT !.state = "paused"] ELSE t
  <2>1. TickAndEmit(w, outcome, after)
    BY <1>4 DEF Step
  <2>2. "running" \in RunStates /\ "paused" \in RunStates
    BY DEF RunStates
  <2>3. w \in Worlds /\ w.origin = world.origin /\ w.tick = world.tick
    BY <2>2, StateFacts
  <2> HIDE DEF w
  <2>4. t \in Worlds /\ t.origin = w.origin
    BY <2>3, TickedFacts
  <2> HIDE DEF t
  <2>5. after \in Worlds /\ after.origin = w.origin /\ after.tick = t.tick
    BY <2>2, <2>4, StateFacts
  <2> HIDE DEF after
  <2>6. Continues(bus, w.origin, w.tick, bus', world'.origin, world'.tick)
    BY <2>1, <2>3, <2>5, TickContinues DEF t
  <2> QED  BY <2>3, <2>6
<1>5. CASE command.kind = "set_speed" /\ SetSpeed(command.factor)
  BY <1>2, <1>5 DEF SetSpeed, streamVars
<1>6. CASE Reload
  BY <1>6, ReplaceContinues DEF Reload
<1>7. CASE command.kind = "set_scene" /\ SetScene(command.scene, command.request)
  <2>1. command.scene \in Scenes
    BY <1>7 DEF Command
  <2> QED  BY <1>7, <2>1, ReplaceContinues DEF SetScene
<1>8. CASE LateSubscribe
  <2>1. world' = world /\ bus' = bus \o Both(world)
    BY <1>8 DEF LateSubscribe, Emit, simVars
  <2> QED  BY <2>1, SayBoth
<1> QED  BY <1>3, <1>4, <1>5, <1>6, <1>7, <1>8 DEF HandleCommand

\* Nobody listens: nothing is sent.
LEMMA SilentCommand ==
  ASSUME NEW command, HandleCommand(command)
  PROVE  listening' = listening /\ (~listening => bus' = bus)
<1>1. \A messages : Emit(messages) => listening' = listening /\ (~listening => bus' = bus)
  BY DEF Emit
<1>2. CASE TogglePause \/ SetSpeed(command.factor)
  BY <1>2 DEF TogglePause, SetSpeed, streamVars
<1>3. ASSUME NEW outcome, Step(outcome)  PROVE listening' = listening /\ (~listening => bus' = bus)
  BY <1>1, <1>3 DEF Step, TickAndEmit
<1>4. CASE Reload \/ SetScene(command.scene, command.request) \/ LateSubscribe
  BY <1>1, <1>4 DEF Reload, SetScene, ReplaceScene, LateSubscribe
<1> QED  BY <1>2, <1>3, <1>4 DEF HandleCommand

\* The driver's own steps.
LEMMA DriverContinues ==
  ASSUME DriverInv, bus \in Seq(Messages), Driver
  PROVE  /\ listening' = listening
         /\ ~listening => bus' = bus
         /\ listening => Continues(bus, world.origin, world.tick, bus', world'.origin, world'.tick)
<1>1. /\ world \in Worlds /\ active \in Scenes /\ disk \in [Scenes -> Contents]
      /\ held \in Seq(Command) /\ inbox \in Seq(Command)
  BY DEF DriverInv, QueueTyped, FileTyped, SimTyped
<1>2. world.tick \in Nat /\ world.tick <= world.tick
  BY <1>1, WorldDomain
<1>3. \A messages : Emit(messages) => listening' = listening /\ (~listening => bus' = bus)
  BY DEF Emit
<1>4. CASE Interval
  <2>1. PICK outcome \in TickOutcomes : IntervalTick(outcome)
    BY <1>4 DEF Interval
  <2> DEFINE t == TickedWorld(world, outcome)
  <2>2. TickAndEmit(world, outcome, t)
    BY <2>1 DEF IntervalTick
  <2>3. t \in Worlds /\ t.origin = world.origin
    BY <1>1, TickedFacts
  <2>4. listening => Continues(bus, world.origin, world.tick, bus', world'.origin, world'.tick)
    BY <1>1, <2>2, <2>3, TickContinues
  <2>5. listening' = listening /\ (~listening => bus' = bus)
    BY <1>3, <2>2 DEF TickAndEmit
  <2> QED  BY <2>4, <2>5
<1>5. CASE TakeCommand
  <2>1. HandleCommand(Head(inbox)) /\ Head(inbox) \in Command
    BY <1>1, <1>5 DEF TakeCommand
  <2> QED  BY <1>1, <2>1, CommandContinues, SilentCommand
<1>6. CASE TakeHeld
  <2>1. HandleCommand(Head(held)) /\ Head(held) \in Command
    BY <1>1, <1>6 DEF TakeHeld
  <2> QED  BY <1>1, <2>1, CommandContinues, SilentCommand
<1>7. CASE Hold
  BY <1>2, <1>7, SayNothing DEF Hold, simVars, streamVars
<1>8. CASE Start
  <2>1. world' = Loaded(InitialScene) /\ Emit(Both(Loaded(InitialScene)))
    BY <1>8 DEF Start
  <2>2. Loaded(InitialScene) \in Worlds
    BY <1>1, LoadedFacts, DriverAssumption
  <2> QED  BY <1>3, <2>1, <2>2, SayBoth DEF Emit
<1>9. CASE StartFails
  <2>1. world' = world /\ Emit(<<Fault>>)
    BY <1>9 DEF StartFails, simVars
  <2> QED  BY <1>2, <1>3, <2>1, SayFault DEF Emit
<1> QED  BY <1>4, <1>5, <1>6, <1>7, <1>8, <1>9 DEF Driver

-----------------------------------------------------------------------------
(***************************************************************************)
(* The screen.                                                             *)
(***************************************************************************)
CallsTyped == calls \subseteq Command

\* What is drawn belongs together, and what is under way will.
ScreenInv ==
  /\ bus \in Seq(Messages) /\ ring \in Seq(Snapshots) /\ Len(ring) <= RingCap
  /\ ~listening => bus = <<>>
  /\ transport = "connecting" => ~listening /\ scene = <<>> /\ ring = <<>>
  /\ listening => Orderly(bus, scene, ring, world.origin, world.tick)
  /\ \A i, j \in DOMAIN ring : i < j => Precedes(ring[i], ring[j].origin, ring[j].tick)
  /\ scene # <<>> => \A i \in DOMAIN ring : ring[i].origin = scene[1]

ShellInv == DriverInv /\ CallsTyped /\ ScreenInv

\* The frontend leaves the simulation alone.
LEMMA RestKeeps ==
  ASSUME DriverInv, UNCHANGED <<phase, held, simVars, active, fileVars, watcherVars, latest>>,
         inbox' \in Seq(Command), answers' \in Answers,
         requests' \in 0 .. MaxRequests, listening' \in BOOLEAN
  PROVE  DriverInv'
<1>1. /\ QueueTyped /\ FileTyped /\ SimTyped /\ PauseAgrees
      /\ phase = "waiting" => active = InitialScene /\ ~paused
      /\ phase = "running" => SimInv
  BY DEF DriverInv
<1>2. UNCHANGED <<phase, held, world, paused, speed, since, active, latest>>
  BY DEF simVars
<1>3. QueueTyped' /\ FileTyped'
  BY <1>1, <1>2 DEF QueueTyped, FileTyped, fileVars, watcherVars
<1>4. SimTyped' /\ PauseAgrees'
  BY <1>1, <1>2 DEF SimTyped, PauseAgrees
<1>5. phase' = "running" => SimInv'
  BY <1>1, <1>2, <1>4 DEF SimInv, IsCurrent
<1> QED  BY <1>1, <1>2, <1>3, <1>4, <1>5 DEF DriverInv

\* driverRest is among it.
LEMMA FrontKeeps ==
  ASSUME DriverInv, UNCHANGED driverRest, requests' \in 0 .. MaxRequests, listening' \in BOOLEAN
  PROVE  DriverInv'
<1>1. inbox \in Seq(Command) /\ answers \in Answers
  BY DEF DriverInv, QueueTyped, SimTyped
<1>2. UNCHANGED <<phase, held, inbox, answers, simVars, active, fileVars, watcherVars, latest>>
  BY DEF driverRest
<1> QED  BY <1>1, <1>2, RestKeeps

LEMMA AllKeeps ==
  ASSUME DriverInv, UNCHANGED driverVars
  PROVE  DriverInv' /\ UNCHANGED <<driverRest, requests, listening, bus, world, answers, held, inbox, active, phase>>
<1>1. UNCHANGED <<driverRest, requests, listening, bus, world, answers, held, inbox, active, phase>>
  BY DEF driverVars, queueVars, simVars, streamVars, driverRest
<1>2. requests \in 0 .. MaxRequests /\ listening \in BOOLEAN
  BY DEF DriverInv, QueueTyped, SimTyped
<1> QED  BY <1>1, <1>2, FrontKeeps

\* Send, of a call that arrives.
LEMMA SendKeeps ==
  ASSUME DriverInv, NEW call \in Command, Send(call), UNCHANGED <<requests, streamVars>>
  PROVE  DriverInv'
<1>1. /\ inbox \in Seq(Command) /\ answers \in Answers
      /\ requests \in 0 .. MaxRequests /\ listening \in BOOLEAN
  BY DEF DriverInv, QueueTyped, SimTyped
<1>2. /\ UNCHANGED <<phase, held, simVars, active, fileVars, watcherVars, latest, requests, listening>>
      /\ inbox' \in {inbox, Append(inbox, call)}
      /\ \/ answers' = answers
         \/ call.kind = "set_scene" /\ answers' = [answers EXCEPT ![call.request] = "error"]
  BY DEF Send, streamVars
<1>3. inbox' \in Seq(Command)
  BY <1>1, <1>2
<1>4. answers' \in Answers
  BY <1>1, <1>2 DEF Answers
<1> QED  BY <1>1, <1>2, <1>3, <1>4, RestKeeps

\* DriverInv holds in the composition, and what is called is a command.
LEMMA ShellKeepsDriver ==
  ASSUME DriverInv, CallsTyped, [ShellNext]_vars
  PROVE  DriverInv' /\ CallsTyped'
<1>1. requests \in 0 .. MaxRequests /\ MaxRequests \in Nat /\ listening \in BOOLEAN
  BY DriverAssumption DEF DriverInv, QueueTyped, SimTyped
<1>2. \A kind \in {"toggle_pause", "step", "reload", "subscribe"} : [kind |-> kind] \in Command
  BY DEF Command
<1>3. ASSUME requests < MaxRequests  PROVE requests + 1 \in 1 .. MaxRequests /\ requests + 1 \in 0 .. MaxRequests
  BY <1>1, <1>3
<1>4. CASE Driver /\ UNCHANGED frontVars
  BY <1>4, DriverStep DEF frontVars, callVars, CallsTyped
<1>5. ASSUME NEW chosen \in Scenes, ShowSim(chosen)  PROVE DriverInv' /\ CallsTyped'
  <2>1. /\ requests < MaxRequests /\ requests' = requests + 1 /\ listening' = FALSE /\ UNCHANGED driverRest
        /\ calls' = calls \union
             {[kind |-> "set_scene", scene |-> chosen, request |-> r] : r \in NewSwitch(chosen)}
    BY <1>5 DEF ShowSim, Disconnect
  <2>2. \A r \in NewSwitch(chosen) : r \in 1 .. MaxRequests
    BY <1>3, <2>1 DEF NewSwitch
  <2>3. \A r \in 1 .. MaxRequests : [kind |-> "set_scene", scene |-> chosen, request |-> r] \in Command
    BY DEF Command
  <2>4. CallsTyped'
    BY <2>1, <2>2, <2>3 DEF CallsTyped
  <2> QED  BY <1>3, <2>1, <2>4, FrontKeeps
<1>6. CASE ShowGallery
  <2>1. listening' = FALSE /\ UNCHANGED <<driverRest, requests, calls>>
    BY <1>6 DEF ShowGallery, LeaveSim, Disconnect, callVars
  <2> QED  BY <1>1, <2>1, FrontKeeps DEF CallsTyped
<1>7. ASSUME NEW control \in Controls, Click(control)  PROVE DriverInv' /\ CallsTyped'
  <2>1. /\ requests < MaxRequests /\ requests' = requests + 1 /\ UNCHANGED <<driverRest, listening>>
        /\ calls' = calls \union {[kind |-> control]}
    BY <1>7 DEF Click
  <2>2. [kind |-> control] \in Command
    BY <1>2, ShellAssumption
  <2> QED  BY <1>1, <1>3, <2>1, <2>2, FrontKeeps DEF CallsTyped
<1>8. CASE EndTransition
  BY <1>8, AllKeeps DEF EndTransition, callVars, CallsTyped
<1>9. ASSUME NEW switch \in switches, SwitchResult(switch)  PROVE DriverInv' /\ CallsTyped'
  <2>1. UNCHANGED <<driverRest, requests, calls>> /\ listening' \in {listening, FALSE}
    BY <1>9 DEF SwitchResult, LeaveSim, Disconnect
  <2> QED  BY <1>1, <2>1, FrontKeeps DEF CallsTyped
<1>10. CASE Listen
  <2>1. UNCHANGED <<driverRest, requests>> /\ listening' = TRUE /\ calls' = calls \union {[kind |-> "subscribe"]}
    BY <1>10 DEF Listen
  <2> QED  BY <1>1, <1>2, <2>1, FrontKeeps DEF CallsTyped
<1>11. ASSUME NEW call \in calls, Arrive(call)  PROVE DriverInv' /\ CallsTyped'
  <2>1. Send(call) /\ calls' = calls \ {call} /\ UNCHANGED <<requests, streamVars>> /\ call \in Command
    BY <1>11 DEF Arrive, CallsTyped
  <2> QED  BY <2>1, SendKeeps DEF CallsTyped
<1>12. CASE ShowToggled
  BY <1>12, AllKeeps DEF ShowToggled, CallsTyped
<1>13. CASE Deliver
  BY <1>1, <1>13, FrontKeeps DEF Deliver, callVars, CallsTyped
<1>14. CASE UNCHANGED vars
  BY <1>14, AllKeeps DEF vars, frontVars, callVars, CallsTyped
<1> QED  BY <1>4, <1>5, <1>6, <1>7, <1>8, <1>9, <1>10, <1>11, <1>12, <1>13, <1>14
         DEF ShellNext, User, Frontend

-----------------------------------------------------------------------------
(* The snapshot buffer. *)

\* Each snapshot follows those before it.
InStep(rng) == \A i, j \in DOMAIN rng : i < j => Precedes(rng[i], rng[j].origin, rng[j].tick)

LEMMA AppendInStep ==
  ASSUME NEW rng \in Seq(Snapshots), NEW m \in Snapshots, InStep(rng),
         \A i \in DOMAIN rng : Precedes(rng[i], m.origin, m.tick)
  PROVE  /\ Append(rng, m) \in Seq(Snapshots) /\ Len(Append(rng, m)) = Len(rng) + 1
         /\ InStep(Append(rng, m))
         /\ \A i \in DOMAIN Append(rng, m) : Append(rng, m)[i] = m \/ \E k \in DOMAIN rng : Append(rng, m)[i] = rng[k]
<1> DEFINE n == Len(rng)
           c == Append(rng, m)
<1>1. /\ n \in Nat /\ DOMAIN rng = 1 .. n /\ DOMAIN c = 1 .. n + 1 /\ Len(c) = n + 1
      /\ c[n + 1] = m /\ (\A i \in 1 .. n : c[i] = rng[i]) /\ c \in Seq(Snapshots)
  BY AppendProperties, LenProperties
<1> HIDE DEF c, n
<1>2. ASSUME NEW i \in 1 .. n + 1, NEW j \in 1 .. n + 1, i < j
      PROVE  Precedes(c[i], c[j].origin, c[j].tick)
  <2>1. i \in 1 .. n /\ c[i] = rng[i]
    BY <1>1, <1>2
  <2>2. CASE j = n + 1
    BY <1>1, <2>1, <2>2
  <2>3. CASE j # n + 1
    <3>1. j \in 1 .. n /\ c[j] = rng[j]
      BY <1>1, <2>3
    <3> QED  BY <1>1, <1>2, <2>1, <3>1 DEF InStep
  <2> QED  BY <2>2, <2>3
<1>3. InStep(c)
  BY <1>1, <1>2 DEF InStep
<1>4. ASSUME NEW i \in 1 .. n + 1  PROVE c[i] = m \/ \E k \in DOMAIN rng : c[i] = rng[k]
  <2>1. CASE i = n + 1
    BY <1>1, <2>1
  <2>2. CASE i # n + 1
    BY <1>1, <2>2
  <2> QED  BY <2>1, <2>2
<1> QED  BY <1>1, <1>3, <1>4 DEF c, n

LEMMA TailInStep ==
  ASSUME NEW rng \in Seq(Snapshots), rng # <<>>, InStep(rng)
  PROVE  /\ Tail(rng) \in Seq(Snapshots) /\ Len(Tail(rng)) = Len(rng) - 1
         /\ InStep(Tail(rng))
         /\ \A i \in DOMAIN Tail(rng) : \E k \in DOMAIN rng : Tail(rng)[i] = rng[k]
<1> DEFINE n == Len(rng)
           c == Tail(rng)
<1>1. /\ n \in Nat \ {0} /\ DOMAIN rng = 1 .. n
  BY EmptySeq, LenProperties
<1>2. c \in Seq(Snapshots) /\ Len(c) = n - 1 /\ \A i \in 1 .. n - 1 : c[i] = rng[i + 1]
  BY HeadTailProperties
<1>3. DOMAIN c = 1 .. n - 1
  BY <1>2, LenProperties
<1> HIDE DEF c, n
<1>4. \A i \in 1 .. n - 1 : i + 1 \in 1 .. n
  BY <1>1
<1>5. ASSUME NEW i \in 1 .. n - 1, NEW j \in 1 .. n - 1, i < j
      PROVE  Precedes(c[i], c[j].origin, c[j].tick)
  <2>1. c[i] = rng[i + 1] /\ c[j] = rng[j + 1] /\ i + 1 < j + 1
    BY <1>2, <1>5
  <2> QED  BY <1>1, <1>4, <2>1 DEF InStep
<1>6. InStep(c)
  BY <1>3, <1>5 DEF InStep
<1>7. \A i \in 1 .. n - 1 : \E k \in DOMAIN rng : c[i] = rng[k]
  BY <1>1, <1>2, <1>4
<1> QED  BY <1>2, <1>3, <1>6, <1>7 DEF c, n

\* SnapshotBuffer.push.
LEMMA PushedFacts ==
  ASSUME ring \in Seq(Snapshots), Len(ring) <= RingCap, NEW m \in Snapshots, InStep(ring),
         \A i \in DOMAIN ring : Precedes(ring[i], m.origin, m.tick)
  PROVE  /\ Pushed(m) \in Seq(Snapshots) /\ Len(Pushed(m)) <= RingCap /\ InStep(Pushed(m))
         /\ \A i \in DOMAIN Pushed(m) : Pushed(m)[i] = m \/ \E k \in DOMAIN ring : Pushed(m)[i] = ring[k]
<1> DEFINE c == Append(ring, m)
<1>1. /\ c \in Seq(Snapshots) /\ Len(c) = Len(ring) + 1 /\ InStep(c)
      /\ \A i \in DOMAIN c : c[i] = m \/ \E k \in DOMAIN ring : c[i] = ring[k]
  BY AppendInStep
<1>2. Len(ring) \in Nat /\ RingCap \in Nat /\ RingCap >= 1
  BY ShellAssumption, LenProperties
<1>3. CASE stale
  <2> DEFINE s == <<m>>
  <2>1. s \in Seq(Snapshots) /\ Len(s) = 1 /\ DOMAIN s = 1 .. 1 /\ s[1] = m
    OBVIOUS
  <2>2. Pushed(m) = s
    BY <1>3 DEF Pushed
  <2> HIDE DEF s
  <2>3. InStep(s) /\ \A i \in DOMAIN s : s[i] = m
    BY <2>1 DEF InStep
  <2>4. Len(s) <= RingCap
    BY <1>2, <2>1
  <2> QED  BY <2>1, <2>2, <2>3, <2>4
<1>4. CASE ~stale /\ Len(ring) >= RingCap
  <2>1. Pushed(m) = Tail(c)
    BY <1>4 DEF Pushed
  <2> HIDE DEF c
  <2>2. c # <<>>
    BY <1>1, <1>2, EmptySeq
  <2>3. /\ Tail(c) \in Seq(Snapshots) /\ Len(Tail(c)) = Len(c) - 1 /\ InStep(Tail(c))
        /\ \A i \in DOMAIN Tail(c) : \E k \in DOMAIN c : Tail(c)[i] = c[k]
    BY <1>1, <2>2, TailInStep
  <2>4. Len(Tail(c)) <= RingCap
    BY <1>1, <1>2, <2>3
  <2>5. \A i \in DOMAIN Tail(c) : Tail(c)[i] = m \/ \E k \in DOMAIN ring : Tail(c)[i] = ring[k]
    BY <1>1, <2>3
  <2> QED  BY <2>1, <2>3, <2>4, <2>5
<1>5. CASE ~stale /\ ~(Len(ring) >= RingCap)
  <2>1. Pushed(m) = c
    BY <1>5 DEF Pushed
  <2> HIDE DEF c
  <2>2. Len(c) <= RingCap
    BY <1>1, <1>2, <1>5
  <2> QED  BY <1>1, <2>1, <2>2
<1> QED  BY <1>3, <1>4, <1>5

\* handleMessage.
LEMMA DeliverScreen ==
  ASSUME DriverInv, ScreenInv, Deliver
  PROVE  ScreenInv'
<1>1. /\ bus \in Seq(Messages) /\ ring \in Seq(Snapshots) /\ Len(ring) <= RingCap
      /\ ~listening => bus = <<>>
      /\ transport = "connecting" => ~listening
      /\ listening => Orderly(bus, scene, ring, world.origin, world.tick)
      /\ InStep(ring)
      /\ scene # <<>> => \A i \in DOMAIN ring : ring[i].origin = scene[1]
  BY DEF ScreenInv, InStep
<1>2. /\ bus # <<>> /\ bus' = Tail(bus) /\ listening' = listening /\ transport' = transport /\ world' = world
      /\ ApplyStatic(Head(bus)) \/ ApplySnapshot(Head(bus)) \/ ApplyFault(Head(bus))
  BY DEF Deliver, driverRest, simVars, routerVars
<1>3. listening /\ transport # "connecting" /\ Orderly(bus, scene, ring, world.origin, world.tick)
  BY <1>1, <1>2
<1>4. Head(bus) = bus[1] /\ bus[1] \in Messages /\ Tail(bus) \in Seq(Messages) /\ 1 \in DOMAIN bus
  BY <1>1, <1>2, TailFacts
<1>5. ASSUME ring' \in Seq(Snapshots), Len(ring') <= RingCap, InStep(ring'),
             Orderly(Tail(bus), scene', ring', world.origin, world.tick),
             scene' # <<>> => \A i \in DOMAIN ring' : ring'[i].origin = scene'[1]
      PROVE  ScreenInv'
  <2>1. \A i, j \in DOMAIN ring' : i < j => Precedes(ring'[i], ring'[j].origin, ring'[j].tick)
    BY <1>5 DEF InStep
  <2> QED  BY <1>2, <1>3, <1>4, <1>5, <2>1 DEF ScreenInv
<1>6. CASE ApplyStatic(bus[1])
  <2>1. bus[1].kind = "static" /\ scene' = <<bus[1].origin>> /\ ring' = <<>>
    BY <1>6 DEF ApplyStatic
  <2>2. Orderly(Tail(bus), <<bus[1].origin>>, <<>>, world.origin, world.tick)
    BY <1>1, <1>2, <1>3, <2>1, OrderlyShow
  <2>3. ring' \in Seq(Snapshots) /\ Len(ring') = 0 /\ DOMAIN ring' = {} /\ 0 <= RingCap
    BY <2>1, ShellAssumption
  <2>4. InStep(ring')
    BY <2>3 DEF InStep
  <2> QED  BY <1>5, <2>1, <2>2, <2>3, <2>4
<1>7. CASE ApplySnapshot(bus[1])
  <2>1. bus[1].kind = "snapshot" /\ scene' = scene /\ ring' \in {ring, Pushed(bus[1])}
    BY <1>7 DEF ApplySnapshot
  <2>2. bus[1] \in Snapshots
    BY <1>4, <2>1, MessageFields
  <2>3. NoStatic(bus, 1, 1)
    BY <2>1 DEF NoStatic
  <2>4. Fits(scene, ring, bus[1].origin, bus[1].tick)
    BY <1>3, <1>4, <2>1, <2>3 DEF Orderly
  <2>5. \A i \in DOMAIN ring : Precedes(ring[i], bus[1].origin, bus[1].tick)
    BY <2>4 DEF Fits
  <2>6. /\ Pushed(bus[1]) \in Seq(Snapshots) /\ Len(Pushed(bus[1])) <= RingCap /\ InStep(Pushed(bus[1]))
        /\ \A i \in DOMAIN Pushed(bus[1]) :
             Pushed(bus[1])[i] = bus[1] \/ \E k \in DOMAIN ring : Pushed(bus[1])[i] = ring[k]
    BY <1>1, <2>2, <2>5, PushedFacts
  <2>7. \A i \in DOMAIN ring' : ring'[i] = bus[1] \/ \E k \in DOMAIN ring : ring'[i] = ring[k]
    BY <2>1, <2>6
  <2>8. Orderly(Tail(bus), scene, ring', world.origin, world.tick)
    BY <1>1, <1>2, <1>3, <2>1, <2>7, OrderlyTake
  <2>9. scene # <<>> => bus[1].origin = scene[1]
    BY <2>4 DEF Fits
  <2>10. scene' # <<>> => \A i \in DOMAIN ring' : ring'[i].origin = scene'[1]
    BY <1>1, <2>1, <2>7, <2>9
  <2>11. ring' \in Seq(Snapshots) /\ Len(ring') <= RingCap /\ InStep(ring')
    BY <1>1, <2>1, <2>6
  <2> QED  BY <1>5, <2>1, <2>8, <2>10, <2>11
<1>8. CASE ApplyFault(bus[1])
  <2>1. bus[1].kind = "fault" /\ scene' = scene /\ ring' = ring
    BY <1>8 DEF ApplyFault
  <2>2. Orderly(Tail(bus), scene, ring, world.origin, world.tick)
    BY <1>1, <1>2, <1>3, <2>1, OrderlyTake
  <2> QED  BY <1>1, <1>5, <2>1, <2>2
<1> QED  BY <1>2, <1>4, <1>6, <1>7, <1>8

\* The screen, the channel and the world stay.
LEMMA SameScreen ==
  ASSUME ScreenInv, UNCHANGED <<bus, ring, scene, listening, world>>,
         transport' = "connecting" => transport = "connecting"
  PROVE  ScreenInv'
BY DEF ScreenInv

\* The transport goes, or a new one is to come.
LEMMA CutScreen ==
  ASSUME ScreenInv, Disconnect, \/ scene' = <<>> /\ ring' = <<>>
                                \/ UNCHANGED <<scene, ring>> /\ transport' # "connecting"
  PROVE  ScreenInv'
<1>1. listening' = FALSE /\ bus' = <<>> /\ bus' \in Seq(Messages)
  BY DEF Disconnect
<1>2. <<>> \in Seq(Snapshots) /\ Len(<<>>) <= RingCap
  BY ShellAssumption
<1>3. CASE scene' = <<>> /\ ring' = <<>>
  BY <1>1, <1>2, <1>3 DEF ScreenInv
<1>4. CASE UNCHANGED <<scene, ring>> /\ transport' # "connecting"
  BY <1>1, <1>4 DEF ScreenInv
<1> QED  BY <1>3, <1>4

LEMMA ShellKeepsScreen ==
  ASSUME DriverInv, ScreenInv, [ShellNext]_vars
  PROVE  ScreenInv'
<1>1. CASE Driver /\ UNCHANGED frontVars
  <2>1. UNCHANGED <<scene, ring, transport>>
    BY <1>1 DEF frontVars, routerVars, screenVars
  <2>2. /\ bus \in Seq(Messages) /\ listening' = listening /\ (~listening => bus' = bus)
        /\ listening => Continues(bus, world.origin, world.tick, bus', world'.origin, world'.tick)
    BY <1>1, DriverContinues DEF ScreenInv
  <2>3. bus' \in Seq(Messages)
    BY <2>2 DEF Continues, DriverInv, SimTyped
  <2>4. listening => Orderly(bus', scene, ring, world'.origin, world'.tick)
    BY <2>2 DEF Continues, ScreenInv
  <2> QED  BY <2>1, <2>2, <2>3, <2>4 DEF ScreenInv
<1>2. ASSUME NEW chosen \in Scenes, ShowSim(chosen)  PROVE ScreenInv'
  BY <1>2, CutScreen DEF ShowSim
<1>3. CASE ShowGallery
  BY <1>3, CutScreen DEF ShowGallery, LeaveSim
<1>4. ASSUME NEW control \in Controls, Click(control)  PROVE ScreenInv'
  BY <1>4, SameScreen DEF Click, driverRest, simVars, routerVars, screenVars
<1>5. CASE EndTransition
  BY <1>5, SameScreen DEF EndTransition, driverVars, simVars, streamVars, screenVars
<1>6. ASSUME NEW switch \in switches, SwitchResult(switch)  PROVE ScreenInv'
  <2>1. UNCHANGED <<world, scene, ring>>
    BY <1>6 DEF SwitchResult, driverRest, simVars
  <2>2. CASE UNCHANGED <<listening, bus, transport>>
    BY <2>1, <2>2, SameScreen
  <2>3. CASE LeaveSim
    BY <2>1, <2>3, CutScreen DEF LeaveSim
  <2>4. UNCHANGED <<listening, bus, transport>> \/ LeaveSim
    BY <1>6 DEF SwitchResult, routerVars
  <2> QED  BY <2>2, <2>3, <2>4
<1>7. CASE Listen
  <2>1. /\ transport = "connecting" /\ transport' = "connected" /\ listening' = TRUE
        /\ UNCHANGED <<bus, scene, ring, world>>
    BY <1>7 DEF Listen, driverRest, simVars, screenVars
  <2>2. bus = <<>> /\ scene = <<>> /\ ring = <<>>
    BY <2>1 DEF ScreenInv
  <2>3. Orderly(<<>>, <<>>, <<>>, world.origin, world.tick)
    BY DEF Orderly, Fits
  <2> QED  BY <2>1, <2>2, <2>3 DEF ScreenInv
<1>8. ASSUME NEW call \in calls, Arrive(call)  PROVE ScreenInv'
  BY <1>8, SameScreen DEF Arrive, Send, simVars, streamVars, routerVars, screenVars
<1>9. CASE ShowToggled
  BY <1>9, SameScreen DEF ShowToggled, driverVars, simVars, streamVars, routerVars
<1>10. CASE Deliver
  BY <1>10, DeliverScreen
<1>11. CASE UNCHANGED vars
  BY <1>11, SameScreen DEF vars, driverVars, simVars, streamVars, frontVars, routerVars, screenVars
<1> QED  BY <1>1, <1>2, <1>3, <1>4, <1>5, <1>6, <1>7, <1>8, <1>9, <1>10, <1>11
         DEF ShellNext, User, Frontend

LEMMA ShellInvariant == ShellSpec => []ShellInv
<1>1. ShellInit => ShellInv
  <2> SUFFICES ASSUME ShellInit  PROVE ShellInv
    OBVIOUS
  <2>1. DriverInv
    BY InitInv DEF ShellInit
  <2>2. /\ calls = {} /\ transport = "none" /\ scene = <<>> /\ ring = <<>> /\ bus = <<>> /\ listening = FALSE
    BY DEF ShellInit, FrontInit, DriverInit
  <2>3. Len(<<>>) <= RingCap
    BY ShellAssumption
  <2> QED  BY <2>1, <2>2, <2>3 DEF ShellInv, CallsTyped, ScreenInv
<1>2. ShellInv /\ [ShellNext]_vars => ShellInv'
  BY ShellKeepsDriver, ShellKeepsScreen DEF ShellInv
<1> QED  BY <1>1, <1>2, PTL DEF ShellSpec

\* Whatever is reloaded, switched, paused or reconnected while messages are
\* under way, the snapshots on the screen are of the static payload they are
\* drawn with and in the order of their ticks (applySceneStatic and
\* SnapshotBuffer.push).
THEOREM ScreenBelongsTogether == ShellSpec => []SnapshotsMatchScene
<1>1. ShellInv => SnapshotsMatchScene
  <2> SUFFICES ASSUME ShellInv  PROVE SnapshotsMatchScene
    OBVIOUS
  <2>1. /\ ring \in Seq(Snapshots) /\ Len(ring) <= RingCap
        /\ \A i, j \in DOMAIN ring : i < j => Precedes(ring[i], ring[j].origin, ring[j].tick)
        /\ scene # <<>> => \A i \in DOMAIN ring : ring[i].origin = scene[1]
    BY DEF ShellInv, ScreenInv
  <2>2. \A i \in DOMAIN ring : ring[i].kind = "snapshot"
    <3>1. \A i \in DOMAIN ring : ring[i] \in Snapshots
      BY <2>1, ElementOfSeq, LenProperties
    <3> QED  BY <3>1 DEF Snapshots
  <2>3. \A i, j \in DOMAIN ring : i < j => ring[i].tick <= ring[j].tick
    BY <2>1, <2>2 DEF Precedes
  <2> QED  BY <2>1, <2>3 DEF SnapshotsMatchScene
<1> QED  BY <1>1, ShellInvariant, PTL

-----------------------------------------------------------------------------
(***************************************************************************)
(* The switcher.                                                           *)
(***************************************************************************)
\* The set_scene commands of a queue, and those on their way to it.
SetScenes(queue) == {c \in {queue[i] : i \in DOMAIN queue} : c.kind = "set_scene"}
CallScenes       == {c \in calls : c.kind = "set_scene"}
Pending          == SetScenes(held) \union SetScenes(inbox) \union CallScenes

Ascending(queue) ==
  \A i, j \in DOMAIN queue :
    i < j /\ queue[i].kind = "set_scene" /\ queue[j].kind = "set_scene" => queue[i].request < queue[j].request

Before(A, B) == \A a \in A, b \in B : a.request < b.request

\* The choices reach the driver in the order they were made, each once.
InOrder(h, q, arriving) ==
  /\ Ascending(h) /\ Ascending(q)
  /\ Before(SetScenes(h), SetScenes(q)) /\ Before(SetScenes(h), arriving) /\ Before(SetScenes(q), arriving)

LineInv ==
  /\ InOrder(held, inbox, CallScenes)
  /\ \A c, d \in CallScenes : c = d
  /\ ~transitioning => CallScenes = {}
  /\ \A c \in Pending : c.request <= requests /\ answers[c.request] = "none"
  /\ \A r \in 1 .. MaxRequests : r > requests => answers[r] = "none"
  /\ \A switch \in switches : switch.request \in 1 .. MaxRequests

NoError == \A r \in 1 .. MaxRequests : answers[r] # "error"

\* The last choice under way is the one shown; without any, the one that runs is.
ChoiceInv ==
  NoError =>
    /\ \A c \in Pending : (\A d \in Pending : d.request <= c.request) => selected = <<c.scene>>
    /\ Pending = {} => selected \in {<<>>, <<active>>}
    /\ selected = <<>> => view = "gallery"

LEMMA PendingFacts ==
  ASSUME DriverInv, CallsTyped
  PROVE  /\ \A c \in Pending : /\ c \in Command /\ c.kind = "set_scene" /\ c.scene \in Scenes
                               /\ c.request \in 1 .. MaxRequests /\ c.request \in Nat
         /\ requests \in Nat /\ MaxRequests \in Nat
<1>1. held \in Seq(Command) /\ inbox \in Seq(Command) /\ requests \in Nat /\ MaxRequests \in Nat
  BY DriverAssumption DEF DriverInv, QueueTyped
<1>2. \A queue \in Seq(Command) : \A i \in DOMAIN queue : queue[i] \in Command
  OBVIOUS
<1>3. \A c \in Pending : c \in Command /\ c.kind = "set_scene"
  BY <1>1, <1>2 DEF Pending, SetScenes, CallScenes, CallsTyped
<1>4. \A c \in Command : c.kind = "set_scene" => c.scene \in Scenes /\ c.request \in 1 .. MaxRequests
  BY DEF Command
<1> QED  BY <1>1, <1>3, <1>4

\* A command joins a queue.
LEMMA AppendLine ==
  ASSUME NEW q \in Seq(Command), NEW m \in Command
  PROVE  /\ SetScenes(Append(q, m)) = SetScenes(q) \union {c \in {m} : c.kind = "set_scene"}
         /\ Ascending(q) /\ (m.kind = "set_scene" => \A c \in SetScenes(q) : c.request < m.request)
              => Ascending(Append(q, m))
<1> DEFINE n == Len(q)
           s == Append(q, m)
<1>1. /\ n \in Nat /\ DOMAIN q = 1 .. n /\ DOMAIN s = 1 .. n + 1
      /\ s[n + 1] = m /\ (\A i \in 1 .. n : s[i] = q[i])
  BY AppendProperties, LenProperties
<1> HIDE DEF s, n
<1>2. SetScenes(s) = SetScenes(q) \union {c \in {m} : c.kind = "set_scene"}
  <2>1. {s[i] : i \in 1 .. n + 1} = {q[i] : i \in 1 .. n} \union {m}
    <3>1. \A i \in 1 .. n + 1 : i = n + 1 \/ i \in 1 .. n
      BY <1>1
    <3>2. n + 1 \in 1 .. n + 1 /\ \A i \in 1 .. n : i \in 1 .. n + 1
      BY <1>1
    <3> QED  BY <1>1, <3>1, <3>2
  <2> QED  BY <1>1, <2>1 DEF SetScenes
<1>3. ASSUME Ascending(q), m.kind = "set_scene" => \A c \in SetScenes(q) : c.request < m.request,
             NEW i \in 1 .. n + 1, NEW j \in 1 .. n + 1, i < j,
             s[i].kind = "set_scene", s[j].kind = "set_scene"
      PROVE  s[i].request < s[j].request
  <2>1. i \in 1 .. n /\ s[i] = q[i] /\ q[i] \in SetScenes(q)
    BY <1>1, <1>3 DEF SetScenes
  <2>2. CASE j = n + 1
    BY <1>1, <1>3, <2>1, <2>2
  <2>3. CASE j # n + 1
    <3>1. j \in 1 .. n /\ s[j] = q[j]
      BY <1>1, <2>3
    <3> QED  BY <1>1, <1>3, <2>1, <3>1 DEF Ascending
  <2> QED  BY <2>2, <2>3
<1> QED  BY <1>1, <1>2, <1>3 DEF Ascending, s

\* The first command of a queue is taken.
LEMMA TailLine ==
  ASSUME NEW q \in Seq(Command), q # <<>>, Ascending(q)
  PROVE  /\ Head(q) \in Command /\ Tail(q) \in Seq(Command) /\ Ascending(Tail(q))
         /\ SetScenes(q) = SetScenes(Tail(q)) \union {c \in {Head(q)} : c.kind = "set_scene"}
         /\ Head(q).kind = "set_scene" => \A c \in SetScenes(Tail(q)) : Head(q).request < c.request
<1> DEFINE n == Len(q)
           s == Tail(q)
           m == Head(q)
<1>1. n \in Nat \ {0} /\ DOMAIN q = 1 .. n /\ m = q[1] /\ m \in Command
  BY EmptySeq, LenProperties
<1>2. s \in Seq(Command) /\ Len(s) = n - 1 /\ \A i \in 1 .. n - 1 : s[i] = q[i + 1]
  BY HeadTailProperties
<1>3. DOMAIN s = 1 .. n - 1
  BY <1>2, LenProperties
<1> HIDE DEF s, n, m
<1>4. (\A i \in 1 .. n - 1 : i + 1 \in 1 .. n /\ 1 < i + 1) /\ 1 \in 1 .. n
  BY <1>1
<1>5. \A i \in 1 .. n : i = 1 \/ (i - 1 \in 1 .. n - 1 /\ (i - 1) + 1 = i)
  BY <1>1
<1>6. {q[i] : i \in 1 .. n} = {s[i] : i \in 1 .. n - 1} \union {m}
  <2>1. \A i \in 1 .. n : q[i] \in {s[j] : j \in 1 .. n - 1} \union {m}
    <3> SUFFICES ASSUME NEW i \in 1 .. n, i # 1  PROVE \E j \in 1 .. n - 1 : q[i] = s[j]
      BY <1>1
    <3>1. i - 1 \in 1 .. n - 1 /\ q[i] = s[i - 1]
      BY <1>2, <1>5
    <3> QED  BY <3>1
  <2>2. \A i \in 1 .. n - 1 : s[i] \in {q[j] : j \in 1 .. n}
    BY <1>2, <1>4
  <2>3. m \in {q[j] : j \in 1 .. n}
    BY <1>1, <1>4
  <2> QED  BY <2>1, <2>2, <2>3
<1>7. SetScenes(q) = SetScenes(s) \union {c \in {m} : c.kind = "set_scene"}
  BY <1>1, <1>3, <1>6 DEF SetScenes
<1>8. ASSUME NEW i \in 1 .. n - 1, NEW j \in 1 .. n - 1, i < j, s[i].kind = "set_scene", s[j].kind = "set_scene"
      PROVE  s[i].request < s[j].request
  <2>1. s[i] = q[i + 1] /\ s[j] = q[j + 1] /\ i + 1 < j + 1
    BY <1>2, <1>8
  <2> QED  BY <1>1, <1>4, <1>8, <2>1 DEF Ascending
<1>9. ASSUME m.kind = "set_scene", NEW i \in 1 .. n - 1, s[i].kind = "set_scene"  PROVE m.request < s[i].request
  <2>1. s[i] = q[i + 1] /\ 1 < i + 1
    BY <1>2, <1>4
  <2> QED  BY <1>1, <1>4, <1>9, <2>1 DEF Ascending
<1>10. Ascending(s)
  BY <1>3, <1>8 DEF Ascending
<1>11. m.kind = "set_scene" => \A c \in SetScenes(s) : m.request < c.request
  BY <1>3, <1>9 DEF SetScenes
<1> QED  BY <1>1, <1>2, <1>7, <1>10, <1>11 DEF s, m

\* Nothing is chosen, sent or taken.
LEMMA LineSame ==
  ASSUME DriverInv, CallsTyped, LineInv, InOrder(held', inbox', CallScenes), Pending' = Pending,
         UNCHANGED <<answers, transitioning>>, CallScenes' = CallScenes,
         requests' \in Nat, requests <= requests', switches' \subseteq switches
  PROVE  LineInv'
<1>1. \A c \in Pending : c.request \in Nat
  BY PendingFacts
<1>2. requests \in Nat /\ MaxRequests \in Nat
  BY PendingFacts
<1>3. \A c \in Pending' : c.request <= requests' /\ answers'[c.request] = "none"
  BY <1>1, <1>2 DEF LineInv
<1>4. \A r \in 1 .. MaxRequests : r > requests' => answers'[r] = "none"
  BY <1>2 DEF LineInv
<1> QED  BY <1>3, <1>4 DEF LineInv

LEMMA ChoiceSame ==
  ASSUME ChoiceInv, Pending' = Pending, UNCHANGED <<answers, active, selected>>, view' \in {view, "gallery"}
  PROVE  ChoiceInv'
BY DEF ChoiceInv, NoError

LEMMA SameQueues ==
  ASSUME DriverInv, CallsTyped, LineInv, UNCHANGED <<held, inbox, answers, transitioning>>,
         CallScenes' = CallScenes,
         requests' \in Nat, requests <= requests', switches' \subseteq switches
  PROVE  LineInv' /\ Pending' = Pending
<1>1. Pending' = Pending
  BY DEF Pending
<1>2. InOrder(held', inbox', CallScenes)
  BY DEF LineInv
<1> QED  BY <1>1, <1>2, LineSame

\* A command is taken, or none that chooses: of those pending it was the first.
LEMMA SwitchTaken ==
  ASSUME DriverInv, CallsTyped, LineInv, ChoiceInv, NEW command \in Command,
         UNCHANGED <<calls, requests, switches, transitioning, selected, view>>,
         InOrder(held', inbox', CallScenes),
         Pending = Pending' \union {c \in {command} : c.kind = "set_scene"},
         command.kind = "set_scene" =>
           /\ \A d \in Pending' : command.request < d.request
           /\ active' = IF CanLoad(command.scene) THEN command.scene ELSE active
           /\ answers' = [answers EXCEPT ![command.request] =
                            IF CanLoad(command.scene) THEN "ok" ELSE "error"],
         command.kind # "set_scene" => UNCHANGED <<answers, active>>
  PROVE  LineInv' /\ ChoiceInv'
<1>1. \A c \in Pending : c.request \in 1 .. MaxRequests /\ c.request \in Nat
  BY PendingFacts
<1>2. requests \in Nat /\ MaxRequests \in Nat /\ answers \in Answers
  BY PendingFacts DEF DriverInv, SimTyped
<1>3. CallScenes' = CallScenes
  BY DEF CallScenes
<1>4. CASE command.kind # "set_scene"
  <2>1. Pending' = Pending
    BY <1>4
  <2> QED  BY <1>2, <1>3, <1>4, <2>1, LineSame, ChoiceSame
<1>5. CASE command.kind = "set_scene"
  <2>1. command \in Pending /\ Pending' \subseteq Pending /\ \A c \in Pending : c = command \/ c \in Pending'
    BY <1>5
  <2>2. command.request \in 1 .. MaxRequests /\ command.request <= requests /\ answers[command.request] = "none"
    BY <1>1, <2>1 DEF LineInv
  <2>3. \A r \in 1 .. MaxRequests : r # command.request => answers'[r] = answers[r]
    BY <1>2, <1>5, <2>2 DEF Answers
  <2>4. answers'[command.request] = IF CanLoad(command.scene) THEN "ok" ELSE "error"
    BY <1>2, <1>5, <2>2 DEF Answers
  <2>5. \A c \in Pending' : c.request <= requests /\ answers'[c.request] = "none"
    <3> SUFFICES ASSUME NEW c \in Pending'  PROVE c.request <= requests /\ answers'[c.request] = "none"
      OBVIOUS
    <3>1. c.request \in 1 .. MaxRequests /\ c.request # command.request /\ c.request <= requests
          /\ answers[c.request] = "none"
      BY <1>1, <1>5, <2>1, <2>2 DEF LineInv
    <3> QED  BY <2>3, <3>1
  <2>6. \A r \in 1 .. MaxRequests : r > requests => answers'[r] = "none"
    BY <1>2, <2>2, <2>3 DEF LineInv
  <2>7. LineInv'
    BY <1>3, <2>5, <2>6 DEF LineInv
  <2>8. ASSUME NoError'  PROVE NoError /\ CanLoad(command.scene)
    <3>1. answers'[command.request] # "error"
      BY <2>2, <2>8 DEF NoError
    <3>2. \A r \in 1 .. MaxRequests : answers[r] # "error"
      BY <2>2, <2>3, <2>8 DEF NoError
    <3> QED  BY <2>4, <3>1, <3>2 DEF NoError
  <2>9. ASSUME NoError', NEW c \in Pending', \A d \in Pending' : d.request <= c.request
        PROVE  selected' = <<c.scene>>
    <3>1. NoError /\ c \in Pending
      BY <2>1, <2>8, <2>9
    <3>2. \A d \in Pending : d.request <= c.request
      <4>1. command.request < c.request /\ command.request \in Nat /\ c.request \in Nat
        BY <1>1, <1>5, <2>1, <2>9
      <4>2. command.request <= c.request
        BY <4>1
      <4> QED  BY <2>1, <2>9, <4>2
    <3> QED  BY <3>1, <3>2 DEF ChoiceInv
  <2>10. ASSUME NoError', Pending' = {}  PROVE selected' \in {<<>>, <<active'>>}
    <3>1. NoError /\ CanLoad(command.scene)
      BY <2>8, <2>10
    <3>2. \A d \in Pending : d.request <= command.request
      BY <1>1, <2>1, <2>10
    <3>3. selected = <<command.scene>> /\ active' = command.scene
      BY <1>5, <2>1, <3>1, <3>2 DEF ChoiceInv
    <3> QED  BY <3>3
  <2>11. NoError' => (selected' = <<>> => view' = "gallery")
    BY <2>8 DEF ChoiceInv
  <2>12. ChoiceInv'
    BY <2>9, <2>10, <2>11 DEF ChoiceInv
  <2> QED  BY <2>7, <2>12
<1> QED  BY <1>4, <1>5

\* handle_command, as the switcher sees it.
LEMMA CommandSwitches ==
  ASSUME NEW command, HandleCommand(command)
  PROVE  /\ command.kind # "set_scene" => UNCHANGED <<answers, active>>
         /\ command.kind = "set_scene" =>
              /\ active' = IF CanLoad(command.scene) THEN command.scene ELSE active
              /\ answers' = [answers EXCEPT ![command.request] =
                               IF CanLoad(command.scene) THEN "ok" ELSE "error"]
<1>1. CASE command.kind = "set_scene"
  BY <1>1 DEF HandleCommand, SetScene
<1>2. CASE command.kind # "set_scene"
  BY <1>2 DEF HandleCommand, TogglePause, Step, SetSpeed, Reload, LateSubscribe
<1> QED  BY <1>1, <1>2

\* The driver's own steps.
LEMMA DriverSwitches ==
  ASSUME DriverInv, CallsTyped, LineInv, ChoiceInv, Driver, UNCHANGED frontVars
  PROVE  LineInv' /\ ChoiceInv'
<1>1. held \in Seq(Command) /\ inbox \in Seq(Command) /\ requests \in Nat /\ answers \in Answers
  BY PendingFacts DEF DriverInv, QueueTyped, SimTyped
<1>2. UNCHANGED <<calls, switches, transitioning, selected, view>> /\ CallScenes' = CallScenes
  BY DEF frontVars, routerVars, callVars, CallScenes
<1>3. /\ Ascending(held) /\ Ascending(inbox) /\ Before(SetScenes(held), SetScenes(inbox))
      /\ Before(SetScenes(held), CallScenes) /\ Before(SetScenes(inbox), CallScenes)
  BY DEF LineInv, InOrder
<1>4. requests <= requests
  BY <1>1
<1>5. CASE Interval
  <2>1. UNCHANGED <<held, inbox, requests, answers, active>>
    BY <1>5 DEF Interval, IntervalTick, queueVars
  <2> QED  BY <1>1, <1>2, <1>4, <2>1, SameQueues, ChoiceSame
<1>6. CASE TakeCommand
  <2>1. inbox # <<>> /\ HandleCommand(Head(inbox)) /\ held' = held /\ inbox' = Tail(inbox) /\ requests' = requests
        /\ held = <<>>
    BY <1>6 DEF TakeCommand
  <2> DEFINE m == Head(inbox)
             taken == {c \in {m} : c.kind = "set_scene"}
  <2>2. /\ m \in Command /\ Ascending(inbox') /\ SetScenes(inbox) = SetScenes(inbox') \union taken
        /\ m.kind = "set_scene" => \A c \in SetScenes(inbox') : m.request < c.request
    BY <1>1, <1>3, <2>1, TailLine
  <2>3. SetScenes(held) = {} /\ HandleCommand(m)
    BY <2>1 DEF SetScenes
  <2>4. m.kind = "set_scene" => m \in SetScenes(inbox)
    BY <2>2
  <2> HIDE DEF m
  <2>5. InOrder(held', inbox', CallScenes)
    BY <1>3, <2>1, <2>2 DEF InOrder, Before
  <2>6. Pending = Pending' \union taken
    BY <1>2, <2>1, <2>2 DEF Pending
  <2>7. m.kind = "set_scene" => \A d \in Pending' : m.request < d.request
    BY <1>2, <1>3, <2>1, <2>2, <2>3, <2>4 DEF Pending, Before
  <2> QED  BY <1>2, <2>1, <2>2, <2>3, <2>5, <2>6, <2>7, CommandSwitches, SwitchTaken
<1>7. CASE TakeHeld
  <2>1. held # <<>> /\ HandleCommand(Head(held)) /\ held' = Tail(held) /\ inbox' = inbox /\ requests' = requests
    BY <1>7 DEF TakeHeld
  <2> DEFINE m == Head(held)
             taken == {c \in {m} : c.kind = "set_scene"}
  <2>2. /\ m \in Command /\ Ascending(held') /\ SetScenes(held) = SetScenes(held') \union taken
        /\ m.kind = "set_scene" => \A c \in SetScenes(held') : m.request < c.request
    BY <1>1, <1>3, <2>1, TailLine
  <2>3. HandleCommand(m)
    BY <2>1
  <2>4. m.kind = "set_scene" => m \in SetScenes(held)
    BY <2>2
  <2> HIDE DEF m
  <2>5. InOrder(held', inbox', CallScenes)
    BY <1>3, <2>1, <2>2 DEF InOrder, Before
  <2>6. Pending = Pending' \union taken
    BY <1>2, <2>1, <2>2 DEF Pending
  <2>7. m.kind = "set_scene" => \A d \in Pending' : m.request < d.request
    BY <1>2, <1>3, <2>1, <2>2, <2>4 DEF Pending, Before
  <2> QED  BY <1>2, <2>1, <2>2, <2>3, <2>5, <2>6, <2>7, CommandSwitches, SwitchTaken
<1>8. CASE Hold
  <2> DEFINE m == Head(inbox)
             taken == {c \in {m} : c.kind = "set_scene"}
  <2>1. /\ inbox # <<>> /\ held' = Append(held, m) /\ inbox' = Tail(inbox)
        /\ UNCHANGED <<requests, answers, active>>
    BY <1>8 DEF Hold
  <2>2. /\ m \in Command /\ Ascending(inbox') /\ SetScenes(inbox) = SetScenes(inbox') \union taken
        /\ m.kind = "set_scene" => \A c \in SetScenes(inbox') : m.request < c.request
    BY <1>1, <1>3, <2>1, TailLine
  <2>3. m.kind = "set_scene" => m \in SetScenes(inbox)
    BY <2>2
  <2> HIDE DEF m
  <2>4. /\ SetScenes(held') = SetScenes(held) \union taken
        /\ Ascending(held) /\ (m.kind = "set_scene" => \A c \in SetScenes(held) : c.request < m.request)
             => Ascending(held')
    BY <1>1, <2>1, <2>2, AppendLine
  <2>5. Ascending(held')
    BY <1>3, <2>3, <2>4 DEF Before
  <2>6. Before(SetScenes(held'), SetScenes(inbox'))
    BY <1>3, <2>2, <2>4 DEF Before
  <2>7. Before(SetScenes(held'), CallScenes) /\ Before(SetScenes(inbox'), CallScenes)
    BY <1>3, <2>2, <2>4 DEF Before
  <2>8. InOrder(held', inbox', CallScenes)
    BY <2>2, <2>5, <2>6, <2>7 DEF InOrder
  <2>9. Pending' = Pending
    BY <1>2, <2>2, <2>4 DEF Pending
  <2> QED  BY <1>1, <1>2, <1>4, <2>1, <2>8, <2>9, LineSame, ChoiceSame
<1>9. CASE Start
  <2>1. /\ inbox # <<>> /\ Head(inbox).kind = "subscribe" /\ inbox' = Tail(inbox)
        /\ UNCHANGED <<held, requests, answers, active>>
    BY <1>9 DEF Start
  <2>2. Ascending(inbox') /\ SetScenes(inbox') = SetScenes(inbox)
    BY <1>1, <1>3, <2>1, TailLine
  <2>3. InOrder(held', inbox', CallScenes) /\ Pending' = Pending
    BY <1>2, <1>3, <2>1, <2>2 DEF InOrder, Pending
  <2> QED  BY <1>1, <1>2, <1>4, <2>1, <2>3, LineSame, ChoiceSame
<1>10. CASE StartFails
  <2>1. /\ held' = <<>> /\ inbox' = <<>> /\ UNCHANGED <<requests, active>>
        /\ answers' = [r \in DOMAIN answers |-> IF r \in Abandoned THEN "error" ELSE answers[r]]
    BY <1>10 DEF StartFails
  <2>2. SetScenes(<<>>) = {} /\ Ascending(<<>>)
    BY DEF SetScenes, Ascending
  <2>3. Pending' = CallScenes
    BY <1>2, <2>1, <2>2 DEF Pending
  <2>4. Abandoned = {c.request : c \in SetScenes(held) \union SetScenes(inbox)}
    BY DEF Abandoned, SetScenes
  <2>5. /\ \A c \in Pending : c.request \in 1 .. MaxRequests /\ c.request \in Nat
        /\ MaxRequests \in Nat
    BY PendingFacts
  <2>6. \A r \in Abandoned : r \in 1 .. MaxRequests /\ r <= requests
    BY <2>4, <2>5 DEF Pending, LineInv
  <2>7. \A c \in CallScenes : c.request \notin Abandoned
    BY <1>3, <2>4, <2>5 DEF Before, Pending
  <2>8. \A r \in 1 .. MaxRequests : answers'[r] = IF r \in Abandoned THEN "error" ELSE answers[r]
    BY <1>1, <2>1 DEF Answers
  <2>9. \A c \in Pending' : c.request <= requests /\ answers'[c.request] = "none"
    BY <2>3, <2>5, <2>7, <2>8 DEF Pending, LineInv
  <2>10. \A r \in 1 .. MaxRequests : r > requests => answers'[r] = "none"
    BY <1>1, <2>6, <2>8 DEF LineInv
  <2>11. InOrder(held', inbox', CallScenes)
    BY <2>1, <2>2 DEF InOrder, Before
  <2>12. LineInv'
    BY <1>2, <2>1, <2>9, <2>10, <2>11 DEF LineInv
  <2>13. ASSUME NoError'  PROVE NoError /\ Pending' = Pending
    <3>1. Abandoned = {}
      BY <2>6, <2>8, <2>13 DEF NoError
    <3>2. Pending = CallScenes
      BY <2>4, <3>1 DEF Pending
    <3> QED  BY <2>3, <2>8, <2>13, <3>1, <3>2 DEF NoError
  <2>14. ChoiceInv'
    BY <1>2, <2>1, <2>13 DEF ChoiceInv
  <2> QED  BY <2>12, <2>14
<1> QED  BY <1>5, <1>6, <1>7, <1>8, <1>9, <1>10 DEF Driver

\* showSim: another scene is chosen, or the same again.
LEMMA ShowSimSwitches ==
  ASSUME DriverInv, CallsTyped, LineInv, ChoiceInv, NEW chosen \in Scenes, ShowSim(chosen)
  PROVE  LineInv' /\ ChoiceInv'
<1>1. /\ ~transitioning /\ requests < MaxRequests /\ requests' = requests + 1
      /\ transitioning' = TRUE /\ view' = "sim" /\ selected' = <<chosen>>
      /\ UNCHANGED <<held, inbox, answers, active>>
      /\ calls' = calls \union
           {[kind |-> "set_scene", scene |-> chosen, request |-> r] : r \in NewSwitch(chosen)}
      /\ switches' = switches \union
           {[request |-> r, token |-> token + 1, previous |-> selected] : r \in NewSwitch(chosen)}
  BY DEF ShowSim, driverRest
<1>2. CallScenes = {} /\ requests \in Nat /\ MaxRequests \in Nat /\ requests + 1 \in 1 .. MaxRequests
  BY <1>1, PendingFacts DEF LineInv
<1>3. \A c \in Pending : c.request \in Nat /\ c.request <= requests /\ answers[c.request] = "none"
  BY PendingFacts DEF LineInv
<1>4. CASE selected = <<chosen>>
  <2>1. NewSwitch(chosen) = {}
    BY <1>4 DEF NewSwitch
  <2>2. calls' = calls /\ switches' = switches
    BY <1>1, <2>1
  <2>3. CallScenes' = CallScenes /\ Pending' = Pending
    BY <1>1, <2>2 DEF CallScenes, Pending
  <2>4. \A c \in Pending' : c.request <= requests' /\ answers'[c.request] = "none"
    BY <1>1, <1>2, <1>3, <2>3
  <2>5. \A r \in 1 .. MaxRequests : r > requests' => answers'[r] = "none"
    BY <1>1, <1>2 DEF LineInv
  <2>6. LineInv'
    BY <1>1, <2>2, <2>3, <2>4, <2>5 DEF LineInv
  <2>7. selected' = selected /\ selected' # <<>>
    BY <1>1, <1>4
  <2>8. ChoiceInv'
    BY <1>1, <2>3, <2>7 DEF ChoiceInv, NoError
  <2> QED  BY <2>6, <2>8
<1>5. CASE selected # <<chosen>>
  <2> DEFINE c == [kind |-> "set_scene", scene |-> chosen, request |-> requests + 1]
             s == [request |-> requests + 1, token |-> token + 1, previous |-> selected]
  <2>1. NewSwitch(chosen) = {requests + 1}
    BY <1>5 DEF NewSwitch
  <2>2. calls' = calls \union {c} /\ switches' = switches \union {s}
    BY <1>1, <2>1
  <2>3. c.kind = "set_scene" /\ c.scene = chosen /\ c.request = requests + 1 /\ s.request = requests + 1
    OBVIOUS
  <2> HIDE DEF c, s
  <2>4. CallScenes' = {c}
    BY <1>2, <2>2, <2>3 DEF CallScenes
  <2>5. Pending' = Pending \union {c}
    BY <1>1, <1>2, <2>4 DEF Pending
  <2>6. \A d \in Pending : d.request < c.request
    BY <1>2, <1>3, <2>3
  <2>7. InOrder(held', inbox', CallScenes')
    BY <1>1, <2>4, <2>6 DEF LineInv, InOrder, Before, Pending
  <2>8. \A d \in Pending' : d.request <= requests' /\ answers'[d.request] = "none"
    <3>1. answers[requests + 1] = "none"
      BY <1>2 DEF LineInv
    <3>2. c.request <= requests' /\ answers'[c.request] = "none"
      BY <1>1, <1>2, <2>3, <3>1
    <3>3. \A d \in Pending : d.request <= requests' /\ answers'[d.request] = "none"
      BY <1>1, <1>2, <1>3
    <3> QED  BY <2>5, <3>2, <3>3
  <2>9. \A r \in 1 .. MaxRequests : r > requests' => answers'[r] = "none"
    BY <1>1, <1>2 DEF LineInv
  <2>10. \A switch \in switches' : switch.request \in 1 .. MaxRequests
    BY <1>2, <2>2, <2>3 DEF LineInv
  <2>11. LineInv'
    BY <1>1, <2>4, <2>7, <2>8, <2>9, <2>10 DEF LineInv
  <2>12. ASSUME NEW e \in Pending', \A d \in Pending' : d.request <= e.request  PROVE e = c
    <3>1. c.request <= e.request
      BY <2>5, <2>12
    <3>2. CASE e \in Pending
      <4>1. e.request \in Nat /\ c.request \in Nat /\ e.request < c.request
        BY <1>2, <1>3, <2>3, <2>6, <3>2
      <4> QED  BY <3>1, <4>1
    <3> QED  BY <2>5, <2>12, <3>2
  <2>13. ChoiceInv'
    BY <1>1, <2>3, <2>5, <2>12 DEF ChoiceInv
  <2> QED  BY <2>11, <2>13
<1> QED  BY <1>4, <1>5

\* A call arrives.
LEMMA ArriveSwitches ==
  ASSUME DriverInv, CallsTyped, LineInv, ChoiceInv, NEW call \in calls, Arrive(call)
  PROVE  LineInv' /\ ChoiceInv'
<1>1. /\ Send(call) /\ calls' = calls \ {call} /\ call \in Command
      /\ UNCHANGED <<requests, view, selected, transitioning, switches, held, active>>
  BY DEF Arrive, Send, routerVars, CallsTyped
<1>2. held \in Seq(Command) /\ inbox \in Seq(Command) /\ requests \in Nat /\ answers \in Answers
  BY PendingFacts DEF DriverInv, QueueTyped, SimTyped
<1>3. /\ Ascending(held) /\ Ascending(inbox) /\ Before(SetScenes(held), SetScenes(inbox))
      /\ Before(SetScenes(held), CallScenes) /\ Before(SetScenes(inbox), CallScenes)
      /\ \A c, d \in CallScenes : c = d
  BY DEF LineInv, InOrder
<1>4. CallScenes' \subseteq CallScenes
  BY <1>1 DEF CallScenes
<1>5. CASE call.kind = "set_scene"
  <2>1. call \in CallScenes /\ CallScenes' = {} /\ CallScenes = {call}
    BY <1>1, <1>3, <1>5 DEF CallScenes
  <2>2. call \in Pending /\ call.request \in 1 .. MaxRequests /\ call.request <= requests
        /\ answers[call.request] = "none"
    BY <2>1, PendingFacts DEF Pending, LineInv
  <2>3. CASE phase = "stopped"
    <3>1. inbox' = inbox /\ answers' = [answers EXCEPT ![call.request] = "error"]
      BY <1>1, <1>5, <2>3 DEF Send
    <3>2. /\ answers'[call.request] = "error"
          /\ \A r \in 1 .. MaxRequests : r # call.request => answers'[r] = answers[r]
      BY <1>2, <2>2, <3>1 DEF Answers
    <3>3. Pending' = SetScenes(held) \union SetScenes(inbox)
      BY <1>1, <2>1, <3>1 DEF Pending
    <3>4. \A c \in Pending' : c.request <= requests /\ answers'[c.request] = "none"
      <4> SUFFICES ASSUME NEW c \in Pending'  PROVE c.request <= requests /\ answers'[c.request] = "none"
        OBVIOUS
      <4>1. c \in Pending /\ c.request < call.request
        BY <1>3, <2>1, <3>3 DEF Before, Pending
      <4>2. c.request \in 1 .. MaxRequests /\ c.request <= requests /\ answers[c.request] = "none"
            /\ c.request # call.request
        BY <2>2, <4>1, PendingFacts DEF LineInv
      <4> QED  BY <3>2, <4>2
    <3>5. \A r \in 1 .. MaxRequests : r > requests => answers'[r] = "none"
      <4>1. \A r \in 1 .. MaxRequests : r > requests => r # call.request
        BY <1>2, <2>2
      <4> QED  BY <3>2, <4>1 DEF LineInv
    <3>6. InOrder(held', inbox', CallScenes')
      BY <1>1, <1>3, <2>1, <3>1 DEF InOrder, Before
    <3>7. LineInv'
      BY <1>1, <2>1, <3>4, <3>5, <3>6 DEF LineInv
    <3>8. ~NoError'
      BY <2>2, <3>2 DEF NoError
    <3> QED  BY <3>7, <3>8 DEF ChoiceInv
  <2>4. CASE phase # "stopped"
    <3>1. inbox' = Append(inbox, call) /\ answers' = answers
      BY <1>1, <2>4 DEF Send
    <3>2. SetScenes(inbox') = SetScenes(inbox) \union {call} /\ Ascending(inbox')
      <4>1. \A c \in SetScenes(inbox) : c.request < call.request
        BY <1>3, <2>1 DEF Before
      <4> QED  BY <1>1, <1>2, <1>3, <1>5, <3>1, <4>1, AppendLine
    <3>3. Pending' = Pending
      BY <1>1, <2>1, <3>2 DEF Pending
    <3>4. InOrder(held', inbox', CallScenes')
      BY <1>1, <1>3, <2>1, <3>2 DEF InOrder, Before
    <3>5. LineInv'
      BY <1>1, <2>1, <3>1, <3>3, <3>4 DEF LineInv
    <3>6. ChoiceInv'
      BY <1>1, <3>1, <3>3, ChoiceSame
    <3> QED  BY <3>5, <3>6
  <2> QED  BY <2>3, <2>4
<1>6. CASE call.kind # "set_scene"
  <2>1. CallScenes' = CallScenes
    BY <1>1, <1>6 DEF CallScenes
  <2>2. inbox' \in {inbox, Append(inbox, call)} /\ answers' = answers
    BY <1>1, <1>6 DEF Send
  <2>3. SetScenes(inbox') = SetScenes(inbox) /\ Ascending(inbox')
    <3>1. {c \in {call} : c.kind = "set_scene"} = {}
      BY <1>6
    <3>2. SetScenes(Append(inbox, call)) = SetScenes(inbox) /\ Ascending(Append(inbox, call))
      BY <1>1, <1>2, <1>3, <1>6, <3>1, AppendLine
    <3> QED  BY <1>3, <2>2, <3>2
  <2>4. InOrder(held', inbox', CallScenes) /\ Pending' = Pending
    BY <1>1, <1>3, <2>1, <2>3 DEF InOrder, Pending
  <2>5. requests' \in Nat /\ requests <= requests'
    BY <1>1, <1>2
  <2> QED  BY <1>1, <2>1, <2>2, <2>4, <2>5, LineSame, ChoiceSame
<1> QED  BY <1>5, <1>6

LEMMA ShellKeepsSwitcher ==
  ASSUME DriverInv, CallsTyped, LineInv, ChoiceInv, [ShellNext]_vars
  PROVE  LineInv' /\ ChoiceInv'
<1>1. requests \in Nat /\ requests <= requests /\ requests <= requests + 1 /\ requests + 1 \in Nat
  BY PendingFacts
<1>2. \A kind : kind # "set_scene" /\ calls' = calls \union {[kind |-> kind]} => CallScenes' = CallScenes
  BY DEF CallScenes
<1>3. calls' = calls => CallScenes' = CallScenes
  BY DEF CallScenes
<1>4. ASSUME UNCHANGED <<held, inbox, answers, active, transitioning, selected>>, CallScenes' = CallScenes,
             requests' \in {requests, requests + 1}, view' \in {view, "gallery"}, switches' = switches
      PROVE  LineInv' /\ ChoiceInv'
  <2>1. LineInv' /\ Pending' = Pending
    BY <1>1, <1>4, SameQueues
  <2> QED  BY <1>4, <2>1, ChoiceSame
<1>5. CASE Driver /\ UNCHANGED frontVars
  BY <1>5, DriverSwitches
<1>6. ASSUME NEW chosen \in Scenes, ShowSim(chosen)  PROVE LineInv' /\ ChoiceInv'
  BY <1>6, ShowSimSwitches
<1>7. CASE ShowGallery
  BY <1>3, <1>4, <1>7 DEF ShowGallery, LeaveSim, driverRest, callVars
<1>8. ASSUME NEW control \in Controls, Click(control)  PROVE LineInv' /\ ChoiceInv'
  <2>1. control # "set_scene"
    BY ShellAssumption
  <2>2. /\ UNCHANGED <<held, inbox, answers, active, transitioning, selected, view, switches>>
        /\ requests' = requests + 1 /\ calls' = calls \union {[kind |-> control]}
    BY <1>8 DEF Click, driverRest, routerVars
  <2> QED  BY <1>2, <1>4, <2>1, <2>2
<1>9. CASE EndTransition
  <2>1. /\ UNCHANGED <<held, inbox, answers, active, selected, view, switches, requests, calls>>
        /\ CallScenes = {}
    BY <1>9 DEF EndTransition, driverVars, queueVars, callVars, CallScenes
  <2>2. CallScenes' = CallScenes /\ Pending' = Pending
    BY <2>1 DEF CallScenes, Pending
  <2>3. LineInv'
    BY <2>1, <2>2 DEF LineInv
  <2> QED  BY <2>1, <2>2, <2>3, ChoiceSame
<1>10. ASSUME NEW switch \in switches, SwitchResult(switch)  PROVE LineInv' /\ ChoiceInv'
  <2>1. /\ UNCHANGED <<held, inbox, answers, active, transitioning, requests, calls>>
        /\ switches' \subseteq switches /\ answers[switch.request] # "none"
        /\ answers[switch.request] = "ok" => UNCHANGED <<selected, view>>
    BY <1>10 DEF SwitchResult, driverRest, routerVars, LeaveSim
  <2>2. LineInv' /\ Pending' = Pending
    BY <1>1, <1>3, <2>1, SameQueues
  <2>3. answers[switch.request] \in {"none", "ok", "error"} /\ switch.request \in 1 .. MaxRequests
    BY DEF LineInv, DriverInv, SimTyped, Answers
  <2>4. CASE NoError
    <3>1. answers[switch.request] = "ok"
      BY <2>1, <2>3, <2>4 DEF NoError
    <3> QED  BY <2>1, <2>2, <3>1, ChoiceSame
  <2>5. CASE ~NoError
    BY <2>1, <2>2, <2>5 DEF ChoiceInv, NoError
  <2> QED  BY <2>4, <2>5
<1>11. CASE Listen
  <2>1. /\ UNCHANGED <<held, inbox, answers, active, transitioning, selected, view, switches, requests>>
        /\ calls' = calls \union {[kind |-> "subscribe"]}
    BY <1>11 DEF Listen, driverRest
  <2> QED  BY <1>2, <1>4, <2>1
<1>12. ASSUME NEW call \in calls, Arrive(call)  PROVE LineInv' /\ ChoiceInv'
  BY <1>12, ArriveSwitches
<1>13. CASE ShowToggled
  BY <1>3, <1>4, <1>13 DEF ShowToggled, driverVars, queueVars, routerVars
<1>14. CASE Deliver
  BY <1>3, <1>4, <1>14 DEF Deliver, driverRest, routerVars, callVars
<1>15. CASE UNCHANGED vars
  BY <1>3, <1>4, <1>15 DEF vars, driverVars, queueVars, frontVars, routerVars, callVars
<1> QED  BY <1>5, <1>6, <1>7, <1>8, <1>9, <1>10, <1>11, <1>12, <1>13, <1>14, <1>15
         DEF ShellNext, User, Frontend

LEMMA SwitcherInvariant == ShellSpec => [](ShellInv /\ LineInv /\ ChoiceInv)
<1>1. ShellInit => LineInv /\ ChoiceInv
  <2> SUFFICES ASSUME ShellInit  PROVE LineInv /\ ChoiceInv
    OBVIOUS
  <2>1. /\ calls = {} /\ held = <<>> /\ inbox = <<>> /\ switches = {}
        /\ answers = [r \in 1 .. MaxRequests |-> "none"]
        /\ selected = <<>> /\ view = "gallery"
    BY DEF ShellInit, FrontInit, DriverInit
  <2>2. SetScenes(<<>>) = {} /\ Ascending(<<>>)
    BY DEF SetScenes, Ascending
  <2>3. CallScenes = {} /\ Pending = {}
    BY <2>1, <2>2 DEF CallScenes, Pending
  <2>4. LineInv
    BY <2>1, <2>2, <2>3 DEF LineInv, InOrder, Before
  <2> QED  BY <2>1, <2>3, <2>4 DEF ChoiceInv
<1>2. ShellInv /\ LineInv /\ ChoiceInv /\ [ShellNext]_vars => (LineInv /\ ChoiceInv)'
  BY ShellKeepsSwitcher DEF ShellInv
<1> QED  BY <1>1, <1>2, ShellInvariant, PTL DEF ShellSpec

\* However clicks, calls and answers overtake each other, once everything has
\* settled and no switch failed, the scene the switcher names is the one the
\* driver runs (ViewRouter and cmd_set_scene).
THEOREM SwitcherIsRight == ShellSpec => []SelectedSceneRuns
<1>1. ShellInv /\ LineInv /\ ChoiceInv => SelectedSceneRuns
  <2> SUFFICES ASSUME ShellInv, ChoiceInv, Quiet, \A r \in DOMAIN answers : answers[r] # "error"
               PROVE  selected = <<world.origin.scene>>
    BY DEF SelectedSceneRuns
  <2>1. view = "sim" /\ phase = "running" /\ calls = {} /\ held = <<>> /\ inbox = <<>>
    BY DEF Quiet
  <2>2. Pending = {}
    BY <2>1 DEF Pending, SetScenes, CallScenes
  <2>3. DriverInv /\ answers \in Answers
    BY DEF ShellInv, DriverInv, SimTyped
  <2>4. NoError
    BY <2>3 DEF NoError, Answers
  <2>5. selected \in {<<>>, <<active>>} /\ selected # <<>>
    BY <2>1, <2>2, <2>4 DEF ChoiceInv
  <2>6. world.origin.scene = active
    BY <2>1, <2>3 DEF DriverInv, SimInv
  <2> QED  BY <2>5, <2>6
<1> QED  BY <1>1, SwitcherInvariant, PTL
=============================================================================
