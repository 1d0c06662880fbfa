---------------------------- MODULE ComStackProofs ----------------------------
(***************************************************************************)
(* What is proved of the transports of ComStack, for every number of       *)
(* addresses and messages, every length and every size of the buffers.     *)
(***************************************************************************)
EXTENDS ComStack, ProofBasics, FiniteSetTheorems

Byte == (0..Messages) \X Nat
Span == -1..Most(FirstLength, Length)

(* The types of the two ends' stacks.                                      *)
Stack == [tls : BOOLEAN, unix : BOOLEAN, proxy : BOOLEAN, last : Addr,
          state : {"UNBND", "CONNECTING", "DATAXFER", "CLOSED"},
          event : {"NONE", "CONNECT", "DATA"}, io : SUBSET {"READ", "WRITE"},
          ai : 0..(Addresses + 1), pipe : {"none", "running", "done"}, phase : 0..2,
          session : BOOLEAN, towrite : Span, written : Span,
          err : {NULL, "CSYSERR", "CSOUTSTATE", "CSWRONGBUF", "CSDENY"}]

Reader == [listener : {"IDLE", "INCON"}, state : {"none", "ACCEPT", "DATAXFER", "closed"},
           alt : Seq(Byte), altsize : Nat, size : Nat, over : BOOLEAN,
           err : {NULL, "CSBUFSIZE", "CSPROTERR"}]

Links == [Addr -> {"idle", "syn", "up", "refused", "reset", "closed", "fin"}]

-----------------------------------------------------------------------------
(***************************************************************************)
(* What a server's call of cs_get does                                     *)
(***************************************************************************)
(* A buffer is not there, or has room for a chunk at least; what was put   *)
(* aside is in the one that is there for it.                               *)
Room(n) == n = 0 \/ n >= Chunk
Roomy(s) == Room(s.size) /\ Room(s.altsize) /\ (s.alt # <<>> => Len(s.alt) <= s.altsize)

Longest == Most(FirstLength, Length)
Fits == Longest + Chunk <= MaxRecv + 1

\* A message has at least one byte, and at most Longest.
LEMMA Sizes ==
  /\ Longest \in Nat
  /\ \A m : Size(m) \in Nat /\ 1 <= Size(m) /\ Size(m) <= Longest /\ Size(m) \in Span
<1>1. FirstLength \in Nat \ {0} /\ Length \in Nat \ {0}
  BY BoundsAssumption
<1>2. Longest \in Nat /\ FirstLength <= Longest /\ Length <= Longest
  BY <1>1 DEF Longest, Most
<1>3. Span = -1..Longest
  BY DEF Span, Longest
<1> QED BY <1>1, <1>2, <1>3 DEF Size

\* The buffer grows to what the next chunk needs, or not at all.
LEMMA Grown ==
  ASSUME NEW size \in Nat, NEW has \in Nat
  PROVE  LET g == GrowBuffer(size, has)
         IN /\ g \in Nat
            /\ Room(size) => Room(g)
            /\ g # 0 /\ has <= size => has + Chunk <= g
            /\ Room(size) /\ has <= size /\ has + Chunk <= MaxRecv => g # 0
<1>1. Chunk \in Nat \ {0} /\ MaxRecv \in Nat
  BY BoundsAssumption
<1> QED BY <1>1 DEF GrowBuffer, Room

\* What is put aside has room.
LEMMA AltRoom ==
  ASSUME NEW old \in Nat, NEW n \in Nat \ {0}
  PROVE  AltSize(old, n) \in Nat /\ Room(AltSize(old, n)) /\ n <= AltSize(old, n)
<1> DEFINE r == n % Chunk
<1>1. Chunk \in Nat \ {0}
  BY BoundsAssumption
<1>2. r \in 0..(Chunk - 1)
  BY <1>1
<1>3. r = 0 => n >= Chunk
  BY <1>1
<1>4. r <= n
  BY <1>1
<1>5. AltSize(old, n) = Most(old, n + (IF r = 0 THEN 0 ELSE Chunk - r))
  BY DEF AltSize
<1> HIDE DEF r
<1> QED BY <1>1, <1>2, <1>3, <1>4, <1>5 DEF Most, Room

\* What has been received after k calls of recv(2).
LEMMA ReceivedIs ==
  ASSUME NEW s \in Reader, NEW w \in Seq(Byte), NEW k \in Nat
  PROVE  LET c == Least(k * Chunk, Len(w))
         IN /\ c \in 0..Len(w)
            /\ Received(s, w, k) = s.alt \o SubSeq(w, 1, c)
            /\ Received(s, w, k) \in Seq(Byte)
            /\ Len(Received(s, w, k)) = Len(s.alt) + c
<1> DEFINE c == Least(k * Chunk, Len(w))
<1>1. Chunk \in Nat \ {0} /\ Len(w) \in Nat /\ s.alt \in Seq(Byte)
  BY BoundsAssumption, LenProperties DEF Reader
<1>2. k * Chunk \in Nat
  BY <1>1
<1>3. c \in 0..Len(w)
  BY <1>1, <1>2 DEF Least
<1>4. Received(s, w, k) = s.alt \o SubSeq(w, 1, c)
  BY DEF Received
<1> HIDE DEF c
<1>5. SubSeq(w, 1, c) \in Seq(Byte) /\ Len(SubSeq(w, 1, c)) = c
  BY <1>3, Parts
<1>6. Received(s, w, k) \in Seq(Byte) /\ Len(Received(s, w, k)) = Len(s.alt) + c
  BY <1>1, <1>4, <1>5, ConcatProperties
<1> QED BY <1>3, <1>4, <1>6 DEF c

\* One call of recv(2) adds a chunk at most.
LEMMA ReceivedGrows ==
  ASSUME NEW s \in Reader, NEW w \in Seq(Byte), NEW k \in Nat
  PROVE  /\ Len(Received(s, w, 0)) = Len(s.alt)
         /\ Len(Received(s, w, k + 1)) <= Len(Received(s, w, k)) + Chunk
<1> DEFINE c(n) == Least(n * Chunk, Len(w))
<1>1. Chunk \in Nat \ {0} /\ Len(w) \in Nat /\ Len(s.alt) \in Nat
  BY BoundsAssumption, LenProperties DEF Reader
<1>2. \A n \in Nat : Len(Received(s, w, n)) = Len(s.alt) + c(n)
  BY ReceivedIs
<1>3. 0 * Chunk = 0 /\ k * Chunk \in Nat /\ (k + 1) * Chunk = k * Chunk + Chunk
  BY <1>1
<1>4. c(0) = 0
  BY <1>1, <1>3 DEF Least
<1>5. c(k + 1) <= c(k) + Chunk /\ c(k) \in Nat /\ c(k + 1) \in Nat
  <2> DEFINE x == k * Chunk
  <2>1. (k + 1) * Chunk = x + Chunk /\ x \in Nat
    BY <1>3
  <2>2. c(k + 1) = Least(x + Chunk, Len(w)) /\ c(k) = Least(x, Len(w))
    BY <2>1
  <2> HIDE DEF x, c
  <2> QED BY <1>1, <2>1, <2>2 DEF Least
<1> HIDE DEF c
<1>6. Len(Received(s, w, 0)) = Len(s.alt) + c(0)
  BY <1>2
<1>7. Len(Received(s, w, k)) = Len(s.alt) + c(k) /\ Len(Received(s, w, k + 1)) = Len(s.alt) + c(k + 1)
  <2>1. k + 1 \in Nat
    OBVIOUS
  <2> QED BY <1>2, <2>1, Zenon
<1>8. Len(Received(s, w, 0)) = Len(s.alt)
  BY <1>1, <1>4, <1>6
<1>9. Len(Received(s, w, k + 1)) <= Len(Received(s, w, k)) + Chunk
  <2> DEFINE x == c(k)
             y == c(k + 1)
  <2>1. x \in Nat /\ y \in Nat /\ y <= x + Chunk
    BY <1>5
  <2>2. Len(Received(s, w, k)) = Len(s.alt) + x /\ Len(Received(s, w, k + 1)) = Len(s.alt) + y
    BY <1>7
  <2> HIDE DEF x, y
  <2> QED BY <1>1, <2>1, <2>2
<1> QED BY <1>8, <1>9

\* The sizes of the buffer before each call of recv(2).
LEMMA RoomsAre ==
  ASSUME NEW s \in Reader, NEW w \in Seq(Byte), NEW n \in Nat
  PROVE  LET room == Rooms(s, w, n)
         IN /\ room \in [0..n -> Nat]
            /\ room[0] = IF s.alt # <<>> THEN s.altsize ELSE s.size
            /\ \A k \in 1..n : room[k] = GrowBuffer(room[k - 1], Len(Received(s, w, k - 1)))
<1> DEFINE a == IF s.alt # <<>> THEN s.altsize ELSE s.size
           G == [x \in Nat \X Nat |->
                   IF x[2] = 0 THEN 0 ELSE GrowBuffer(x[1], Len(Received(s, w, x[2] - 1)))]
           Body(f) == [k \in 0..n |-> IF k = 0 THEN IF s.alt # <<>> THEN s.altsize ELSE s.size
                         ELSE GrowBuffer(f[k - 1], Len(Received(s, w, k - 1)))]
           g == CHOOSE f : f = Body(f)
<1>1. a \in Nat
  BY DEF Reader
<1>2. \A k \in Nat : Len(Received(s, w, k)) \in Nat
  BY ReceivedIs, LenProperties
<1>3. \A k \in Nat \ {0} : k - 1 \in Nat
  OBVIOUS
<1>4. G \in [Nat \X Nat -> Nat]
  BY <1>2, <1>3, Grown
<1>5. PICK f \in [0..n -> Nat] : \A k \in 0..n : f[k] = IF k = 0 THEN a ELSE G[<<f[k - 1], k>>]
  <2> HIDE DEF G, a
  <2>1. \E f \in [0..n -> Nat] : ByRecursion(f, n, a, G)
    BY <1>1, <1>4, RecursionExists
  <2> QED BY <2>1 DEF ByRecursion
<1>6. ASSUME NEW k \in 0..n, k # 0
      PROVE  G[<<f[k - 1], k>>] = GrowBuffer(f[k - 1], Len(Received(s, w, k - 1)))
  <2>1. k - 1 \in 0..n /\ k \in Nat
    BY <1>6
  <2>2. f[k - 1] \in Nat
    BY <1>5, <2>1
  <2>3. <<f[k - 1], k>> \in Nat \X Nat
    BY <2>1, <2>2
  <2>4. <<f[k - 1], k>>[1] = f[k - 1] /\ <<f[k - 1], k>>[2] = k
    OBVIOUS
  <2> QED BY <1>6, <2>3, <2>4
<1>7. \E x : x = Body(x)
  <2> HIDE DEF G
  <2>1. f = Body(f)
    BY <1>5, <1>6
  <2> QED BY <2>1
<1>8. g = Body(g)
  <2> HIDE DEF Body
  <2> QED BY <1>7
<1>9. Rooms(s, w, n) = g
  BY DEF Rooms
<1> HIDE DEF g
<1>10. DOMAIN g = 0..n /\ g[0] = a /\ \A k \in 1..n : g[k] = GrowBuffer(g[k - 1], Len(Received(s, w, k - 1)))
  <2>1. DOMAIN g = 0..n
    BY <1>8
  <2>2. 0 \in 0..n /\ \A k \in 1..n : k \in 0..n /\ k # 0
    OBVIOUS
  <2>3. g[0] = a
    BY <1>8, <2>2
  <2>4. \A k \in 1..n : g[k] = GrowBuffer(g[k - 1], Len(Received(s, w, k - 1)))
    BY <1>8, <2>2
  <2> QED BY <2>1, <2>3, <2>4
<1> DEFINE S == {k \in Nat : k <= n => g[k] \in Nat}
<1>11. n \in S /\ \A k \in 0..n : g[k] \in Nat
  <2>1. 0 \in S
    BY <1>1, <1>10
  <2>2. ASSUME NEW k \in Nat, k \in S PROVE k + 1 \in S
    <3>1. SUFFICES ASSUME k + 1 <= n PROVE g[k + 1] \in Nat
      OBVIOUS
    <3>2. k <= n /\ k + 1 \in 1..n /\ (k + 1) - 1 = k
      BY <3>1
    <3>3. g[k] \in Nat
      BY <2>2, <3>2
    <3>4. g[k + 1] = GrowBuffer(g[k], Len(Received(s, w, k)))
      BY <1>10, <3>2
    <3> QED BY <1>2, <3>3, <3>4, Grown
  <2> HIDE DEF S
  <2>3. Nat \subseteq S
    BY <2>1, <2>2, SetInduction
  <2> USE DEF S
  <2> QED BY <2>3
<1>12. g \in [0..n -> Nat]
  <2>1. g = [k \in 0..n |-> g[k]]
    <3>1. Body(g) = [k \in 0..n |-> Body(g)[k]]
      OBVIOUS
    <3> HIDE DEF Body
    <3> QED BY <1>8, <3>1
  <2> QED BY <1>11, <2>1
<1> QED BY <1>9, <1>10, <1>12

\* As long as the buffer could grow, it holds what has been received.
LEMMA RoomsHold ==
  ASSUME NEW s \in Reader, Roomy(s), NEW w \in Seq(Byte), NEW n \in Nat
  PROVE  LET room == Rooms(s, w, n)
         IN \A k \in 0..n :
              /\ Room(room[k])
              /\ (\A j \in 1..k : room[j] # 0) => Len(Received(s, w, k)) <= room[k]
<1> DEFINE room == Rooms(s, w, n)
           has(k) == Len(Received(s, w, k))
           Held(k) == /\ Room(room[k])
                      /\ (\A j \in 1..k : room[j] # 0) => has(k) <= room[k]
           S == {k \in Nat : k <= n => Held(k)}
<1>1. /\ room \in [0..n -> Nat]
      /\ room[0] = IF s.alt # <<>> THEN s.altsize ELSE s.size
      /\ \A k \in 1..n : room[k] = GrowBuffer(room[k - 1], has(k - 1))
  BY RoomsAre
<1>2. \A k \in Nat : has(k) \in Nat
  BY ReceivedIs, LenProperties
<1>3. has(0) = Len(s.alt) /\ \A k \in Nat : has(k + 1) <= has(k) + Chunk
  BY ReceivedGrows
<1> HIDE DEF room, has
<1>4. 0 \in S
  <2>1. Room(room[0])
    BY <1>1 DEF Roomy
  <2>2. has(0) <= room[0]
    <3>1. CASE s.alt # <<>>
      BY <1>1, <1>3, <3>1 DEF Roomy
    <3>2. CASE s.alt = <<>>
      <4>1. Len(s.alt) = 0
        BY <3>2
      <4>2. 0 \in 0..n
        OBVIOUS
      <4>3. room[0] \in Nat
        BY <1>1, <4>2
      <4> QED BY <1>3, <4>1, <4>3
    <3> QED BY <3>1, <3>2
  <2> QED BY <2>1, <2>2
<1>5. ASSUME NEW k \in Nat, k \in S PROVE k + 1 \in S
  <2>1. SUFFICES ASSUME k + 1 <= n PROVE Held(k + 1)
    OBVIOUS
  <2>2. k \in 0..n /\ k + 1 \in 1..n /\ (k + 1) - 1 = k
    BY <2>1
  <2>3. Held(k)
    BY <1>5, <2>2
  <2> DEFINE x == room[k]
             y == has(k)
             z == room[k + 1]
  <2>4. x \in Nat /\ y \in Nat /\ z = GrowBuffer(x, y) /\ has(k + 1) <= y + Chunk /\ has(k + 1) \in Nat
    <3>1. x \in Nat
      BY <1>1, <2>2
    <3>2. k + 1 \in Nat
      OBVIOUS
    <3>3. y \in Nat /\ has(k + 1) \in Nat
      BY <1>2, <3>2, Zenon
    <3>4. z = GrowBuffer(x, y)
      BY <1>1, <2>2
    <3>5. has(k + 1) <= y + Chunk
      BY <1>3, Zenon
    <3> QED BY <3>1, <3>3, <3>4, <3>5
  <2> HIDE DEF x, y, z
  <2>5. /\ z \in Nat /\ (Room(x) => Room(z))
        /\ z # 0 /\ y <= x => y + Chunk <= z
    BY <2>4, Grown
  <2>6. Room(x)
    BY <2>3 DEF x
  <2>7. (\A j \in 1..(k + 1) : room[j] # 0) => has(k + 1) <= z
    <3>1. SUFFICES ASSUME \A j \in 1..(k + 1) : room[j] # 0 PROVE has(k + 1) <= z
      OBVIOUS
    <3>2. k + 1 \in 1..(k + 1) /\ \A j \in 1..k : j \in 1..(k + 1)
      OBVIOUS
    <3>3. z # 0
      BY <3>1, <3>2 DEF z
    <3>4. y <= x
      BY <2>3, <3>1, <3>2 DEF x, y
    <3>5. Chunk \in Nat
      BY BoundsAssumption
    <3> QED BY <2>4, <2>5, <3>3, <3>4, <3>5
  <2> QED BY <2>5, <2>6, <2>7 DEF z
<1>6. Nat \subseteq S
  <2> HIDE DEF S
  <2> QED BY <1>4, <1>5, SetInduction
<1>7. \A k \in 0..n : Held(k)
  <2>1. \A k \in 0..n : k \in Nat /\ k <= n
    OBVIOUS
  <2> QED BY <1>6, <2>1
<1> QED BY <1>7 DEF room, has

\* When the message that is awaited leaves room for a chunk below MaxRecv, the
\* buffer always grows.
LEMMA RoomsGrow ==
  ASSUME NEW s \in Reader, Roomy(s), NEW w \in Seq(Byte), NEW n \in Nat, Fits,
         \A k \in 0..(n - 1) : Len(Received(s, w, k)) < Longest
  PROVE  \A k \in 1..n : Rooms(s, w, n)[k] # 0 /\ Len(Received(s, w, k)) <= MaxRecv
<1> DEFINE room == Rooms(s, w, n)
           has(k) == Len(Received(s, w, k))
           Grew(k) == room[k] # 0 /\ has(k) <= MaxRecv
           S == {k \in Nat : k <= n => \A j \in 1..k : Grew(j)}
<1>1. /\ room \in [0..n -> Nat]
      /\ \A k \in 1..n : room[k] = GrowBuffer(room[k - 1], has(k - 1))
  BY RoomsAre
<1>2. \A k \in Nat : has(k) \in Nat
  BY ReceivedIs, LenProperties
<1>3. \A k \in Nat : has(k + 1) <= has(k) + Chunk
  BY ReceivedGrows
<1>4. \A k \in 0..n : Room(room[k]) /\ ((\A j \in 1..k : room[j] # 0) => has(k) <= room[k])
  BY RoomsHold
<1>5. \A k \in 0..(n - 1) : has(k) < Longest
  OBVIOUS
<1>6. Longest \in Nat /\ Chunk \in Nat \ {0} /\ MaxRecv \in Nat /\ Longest + Chunk <= MaxRecv + 1
  BY BoundsAssumption, Sizes DEF Fits
<1> HIDE DEF room, has
<1>7. 0 \in S
  OBVIOUS
<1>8. ASSUME NEW k \in Nat, k \in S PROVE k + 1 \in S
  <2>1. SUFFICES ASSUME k + 1 <= n PROVE \A j \in 1..(k + 1) : Grew(j)
    OBVIOUS
  <2>2. k \in 0..n /\ k \in 0..(n - 1) /\ k + 1 \in 1..n /\ (k + 1) - 1 = k /\ k + 1 \in Nat
    BY <2>1
  <2>3. \A j \in 1..k : Grew(j)
    BY <1>8, <2>2
  <2> DEFINE x == room[k]
             y == has(k)
             z == room[k + 1]
             u == has(k + 1)
  <2>4. x \in Nat /\ y \in Nat /\ u \in Nat
    <3>1. x \in Nat
      BY <1>1, <2>2
    <3>2. y \in Nat /\ u \in Nat
      BY <1>2, <2>2, Zenon
    <3> QED BY <3>1, <3>2
  <2>5. z = GrowBuffer(x, y)
    BY <1>1, <2>2
  <2>6. u <= y + Chunk
    BY <1>3, Zenon
  <2>7. y < Longest
    BY <1>5, <2>2, Zenon
  <2>8. Room(x) /\ y <= x
    BY <1>4, <2>2, <2>3
  <2> HIDE DEF x, y, z, u
  <2>9. y + Chunk <= MaxRecv
    BY <1>6, <2>4, <2>7
  <2>10. z # 0
    BY <2>4, <2>5, <2>8, <2>9, Grown
  <2>11. u <= MaxRecv
    BY <1>6, <2>4, <2>6, <2>9
  <2>12. Grew(k + 1)
    BY <2>10, <2>11 DEF z, u
  <2>13. \A j \in 1..(k + 1) : j \in 1..k \/ j = k + 1
    OBVIOUS
  <2> HIDE DEF Grew
  <2> QED BY <2>3, <2>12, <2>13
<1>9. Nat \subseteq S
  <2> HIDE DEF S
  <2> QED BY <1>7, <1>8, SetInduction
<1>10. \A k \in 1..n : Grew(k)
  BY <1>9
<1> QED BY <1>10 DEF room, has

\* What cs_complete_auto says of a buffer.
LEMMA CompleteIs ==
  ASSUME NEW q \in Seq(Byte)
  PROVE  /\ q = <<>> => Complete(q) = 0
         /\ q # <<>> /\ q[1][2] # 1 => Complete(q) = -1
         /\ q # <<>> /\ q[1][2] = 1 /\ Len(q) < Size(q[1][1]) => Complete(q) = 0
         /\ q # <<>> /\ q[1][2] = 1 /\ Size(q[1][1]) <= Len(q) => Complete(q) = Size(q[1][1])
         /\ q # <<>> => q[1][1] \in 0..Messages
<1>1. q = <<>> => Complete(q) = 0
  BY DEF Complete
<1>2. q # <<>> /\ q[1][2] # 1 => Complete(q) = -1
  BY DEF Complete
<1>3. q # <<>> /\ q[1][2] = 1 =>
        Complete(q) = IF Len(q) >= Size(q[1][1]) THEN Size(q[1][1]) ELSE 0
  BY Zenon DEF Complete
<1>4. Len(q) \in Nat /\ Size(q[1][1]) \in Nat
  BY LenProperties, Sizes
<1>5. q # <<>> => q[1][1] \in 0..Messages
  <2>1. SUFFICES ASSUME q # <<>> PROVE q[1][1] \in 0..Messages
    OBVIOUS
  <2>2. 1 \in 1..Len(q)
    BY <2>1, EmptySeq
  <2>3. q[1] \in Byte
    BY <2>2, ElementOfSeq
  <2> QED BY <2>3 DEF Byte
<1>6. q # <<>> /\ q[1][2] = 1 /\ Len(q) < Size(q[1][1]) => Complete(q) = 0
  BY <1>3, <1>4
<1>7. q # <<>> /\ q[1][2] = 1 /\ Size(q[1][1]) <= Len(q) => Complete(q) = Size(q[1][1])
  BY <1>3, <1>4
<1> QED BY <1>1, <1>2, <1>5, <1>6, <1>7

(* What a call of cs_get, with result o, keeps of the reader's stack s.    *)
GetSafe(s, o) ==
  /\ o.stack \in Reader /\ Roomy(o.stack)
  /\ <<o.stack.listener, o.stack.state, o.stack.over, o.stack.err>> =
       <<s.listener, s.state, s.over, s.err>>
  /\ o.wire \in Seq(Byte) /\ o.over = FALSE
  /\ o.ret \in {"CSBUFSIZE", "eof", "again", "CSPROTERR", "message"}
  /\ Fits => o.ret # "CSBUFSIZE"
  /\ o.ret = "message" => o.msg \in 0..Messages

(* What it does to the bytes q that it finds, in altbuf and on the wire.   *)
GetTakes(q, o) ==
  /\ o.ret = "again" => o.stack.alt \o o.wire = q
  /\ o.ret = "message" =>
       /\ q # <<>> /\ q[1][2] = 1 /\ Size(q[1][1]) <= Len(q) /\ o.msg = q[1][1]
       /\ o.stack.alt \o o.wire = SubSeq(q, Size(q[1][1]) + 1, Len(q))
  /\ o.ret = "CSPROTERR" => q # <<>> /\ q[1][2] # 1

(* has and rest together are q, also without the first n bytes.            *)
Divides(has, rest, q, n) ==
  /\ q \in Seq(Byte) /\ Len(has) <= Len(q) /\ (has # <<>> => q # <<>> /\ q[1] = has[1])
  /\ SubSeq(has, n + 1, Len(has)) \in Seq(Byte)
  /\ SubSeq(has, n + 1, Len(has)) \o rest = SubSeq(q, n + 1, Len(q))
  /\ SubSeq(q, 1, Len(q)) = q

\* The bytes received and those that are left are the bytes that were there.
LEMMA Divided ==
  ASSUME NEW alt \in Seq(Byte), NEW w \in Seq(Byte), NEW c \in 0..Len(w),
         NEW n \in Nat, n <= Len(alt) + c, NEW has, has = alt \o SubSeq(w, 1, c),
         NEW rest, rest = SubSeq(w, c + 1, Len(w)), NEW q, q = alt \o w
  PROVE  Divides(has, rest, q, n)
<1> DEFINE p == SubSeq(w, 1, c)
           more == SubSeq(has, n + 1, Len(has))
           left == SubSeq(q, n + 1, Len(q))
           a == Len(alt)
           b == Len(w)
<1>1. a \in Nat /\ b \in Nat /\ c \in Nat /\ c <= b
  BY LenProperties
<1>2. /\ p \in Seq(Byte) /\ Len(p) = c /\ \A i \in 1..c : p[i] = w[i]
      /\ rest \in Seq(Byte) /\ Len(rest) = b - c /\ \A i \in 1..(b - c) : rest[i] = w[c + i]
  BY Parts
<1>2a. has = alt \o p
  OBVIOUS
<1> HIDE DEF p
<1>3. /\ has \in Seq(Byte) /\ Len(has) = a + c
      /\ \A i \in 1..(a + c) : has[i] = IF i <= a THEN alt[i] ELSE p[i - a]
  <2> DEFINE z == alt \o p
  <2>1. /\ z \in Seq(Byte) /\ Len(z) = Len(alt) + Len(p)
        /\ \A i \in 1..(Len(alt) + Len(p)) : z[i] = IF i <= Len(alt) THEN alt[i] ELSE p[i - Len(alt)]
    <3>1. p \in Seq(Byte) /\ alt \in Seq(Byte)
      BY <1>2
    <3> HIDE DEF Byte
    <3> QED BY ONLY <3>1, ConcatProperties DEF z
  <2>2. has = z /\ Len(p) = c
    BY <1>2, <1>2a
  <2> HIDE DEF z
  <2> QED BY <2>1, <2>2
<1>4. /\ q \in Seq(Byte) /\ Len(q) = a + b
      /\ \A i \in 1..(a + b) : q[i] = IF i <= a THEN alt[i] ELSE w[i - a]
  BY ConcatProperties
<1>5. n \in 0..Len(has) /\ n \in 0..Len(q)
  BY <1>1, <1>3, <1>4
<1>6. /\ more \in Seq(Byte) /\ Len(more) = a + c - n
      /\ \A i \in 1..(a + c - n) : more[i] = has[n + i]
  <2>1. /\ more \in Seq(Byte) /\ Len(more) = Len(has) - n
        /\ \A i \in 1..(Len(has) - n) : more[i] = has[n + i]
    BY <1>3, <1>5, Parts
  <2>2. Len(has) = a + c
    BY <1>3
  <2>3. 1..(Len(has) - n) = 1..(a + c - n) /\ Len(has) - n = a + c - n
    BY <2>2
  <2> HIDE DEF more, a
  <2> QED BY <2>1, <2>3
<1>7. /\ left \in Seq(Byte) /\ Len(left) = a + b - n
      /\ \A i \in 1..(a + b - n) : left[i] = q[n + i]
  <2>1. /\ left \in Seq(Byte) /\ Len(left) = Len(q) - n
        /\ \A i \in 1..(Len(q) - n) : left[i] = q[n + i]
    BY <1>4, <1>5, Parts
  <2>2. Len(q) = a + b
    BY <1>4
  <2>3. 1..(Len(q) - n) = 1..(a + b - n) /\ Len(q) - n = a + b - n
    BY <2>2
  <2> HIDE DEF left, a, b
  <2> QED BY <2>1, <2>3
<1> HIDE DEF more, left
<1>8. \A i \in 1..(a + c) : has[i] = q[i]
  <2> SUFFICES ASSUME NEW i \in 1..(a + c) PROVE has[i] = q[i]
    OBVIOUS
  <2>1. i \in 1..(a + b)
    BY <1>1
  <2>2. CASE i <= a
    BY <1>3, <1>4, <2>1, <2>2
  <2>3. CASE ~(i <= a)
    <3>1. i - a \in 1..c
      BY <1>1, <2>3
    <3>2. has[i] = p[i - a] /\ q[i] = w[i - a]
      BY <1>3, <1>4, <2>1, <2>3
    <3> QED BY <1>2, <3>1, <3>2
  <2> QED BY <2>2, <2>3
<1>9. has # <<>> => q # <<>> /\ q[1] = has[1]
  <2>1. SUFFICES ASSUME has # <<>> PROVE q # <<>> /\ q[1] = has[1]
    OBVIOUS
  <2>2. a + c \in Nat \ {0}
    BY <1>3, <2>1, EmptySeq
  <2>3. 1 \in 1..(a + c) /\ a + b # 0
    BY <1>1, <2>2
  <2>4. q # <<>>
    BY <1>4, <2>3, EmptySeq
  <2> QED BY <1>8, <2>3, <2>4
<1>10. more \o rest = left
  <2> DEFINE z == more \o rest
  <2>1. /\ z \in Seq(Byte) /\ Len(z) = (a + c - n) + (b - c)
        /\ \A i \in 1..((a + c - n) + (b - c)) :
             z[i] = IF i <= a + c - n THEN more[i] ELSE rest[i - (a + c - n)]
    <3>1. /\ z \in Seq(Byte) /\ Len(z) = Len(more) + Len(rest)
          /\ \A i \in 1..(Len(more) + Len(rest)) :
               z[i] = IF i <= Len(more) THEN more[i] ELSE rest[i - Len(more)]
      <4>1. more \in Seq(Byte) /\ rest \in Seq(Byte)
        BY <1>2, <1>6
      <4> QED BY <4>1, ConcatProperties
    <3>2. Len(more) = a + c - n /\ Len(rest) = b - c
      BY <1>2, <1>6
    <3> HIDE DEF z, a, b
    <3> QED BY <3>1, <3>2
  <2> HIDE DEF z
  <2>2. Len(z) = Len(left) /\ Len(z) = a + b - n
    BY <1>1, <1>7, <2>1
  <2>3. ASSUME NEW i \in 1..Len(z) PROVE z[i] = left[i]
    <3>1. i \in 1..((a + c - n) + (b - c)) /\ i \in 1..(a + b - n)
      BY <2>1, <2>2
    <3>2. left[i] = q[n + i]
      BY <1>7, <3>1
    <3>3. CASE i <= a + c - n
      <4>1. i \in 1..(a + c - n) /\ n + i \in 1..(a + c)
        BY <1>1, <3>1, <3>3
      <4>2. z[i] = more[i]
        BY <2>1, <3>1, <3>3
      <4>3. more[i] = has[n + i]
        BY <1>6, <4>1
      <4> QED BY <1>8, <3>2, <4>1, <4>2, <4>3
    <3>4. CASE ~(i <= a + c - n)
      <4> DEFINE j == i - (a + c - n)
      <4>1. j \in 1..(b - c) /\ c + j = (n + i) - a /\ n + i \in 1..(a + b) /\ ~(n + i <= a)
        BY <1>1, <3>1, <3>4
      <4>2. z[i] = rest[j]
        BY <2>1, <3>1, <3>4
      <4>3. rest[j] = w[c + j]
        BY <1>2, <4>1
      <4>4. q[n + i] = w[(n + i) - a]
        BY <1>4, <4>1
      <4> QED BY <3>2, <4>1, <4>2, <4>3, <4>4
    <3> QED BY <3>3, <3>4
  <2> QED BY <1>7, <2>1, <2>2, <2>3, SeqEqual DEF z
<1>11. SubSeq(q, 1, Len(q)) = q
  BY <1>4, SubSeqFull
<1>12. Len(has) <= Len(q)
  BY <1>1, <1>3, <1>4
<1> QED BY <1>2, <1>3, <1>4, <1>6, <1>9, <1>10, <1>11, <1>12 DEF more, left, Divides

\* A message that is awaited is not yet there.
LEMMA Incomplete ==
  ASSUME NEW q \in Seq(Byte), Complete(q) = 0
  PROVE  Len(q) < Longest
<1>1. Len(q) \in Nat /\ Longest \in Nat
      /\ Size(q[1][1]) \in Nat /\ 1 <= Size(q[1][1]) /\ Size(q[1][1]) <= Longest
  BY LenProperties, Sizes
<1>2. CASE q = <<>>
  BY <1>1, <1>2
<1>3. CASE q # <<>>
  <2>1. q[1][2] = 1 /\ ~(Size(q[1][1]) <= Len(q))
    BY <1>1, <1>3, CompleteIs
  <2> QED BY <1>1, <2>1
<1> QED BY <1>2, <1>3

\* A call of cs_get, whatever the wire holds and however often it turns.
LEMMA GetSound ==
  ASSUME NEW s \in Reader, Roomy(s), NEW w \in Seq(Byte), NEW eof \in BOOLEAN,
         NEW turns \in Nat, Turns(s, w, turns)
  PROVE  LET o == TcpipGet(s, w, eof, turns) IN GetSafe(s, o) /\ GetTakes(s.alt \o w, o)
<1> DEFINE waits == Complete(Received(s, w, turns)) = 0
           calls == IF waits THEN turns + 1 ELSE turns
           room == Rooms(s, w, calls)
           has == Received(s, w, turns)
           n == Complete(has)
           tooLong == \E k \in 1..calls : room[k] = 0 \/ Len(Received(s, w, k)) > MaxRecv
           other == IF s.alt # <<>> THEN s.size ELSE s.altsize
           more == SubSeq(has, n + 1, Len(has))
           ret == CASE tooLong -> "CSBUFSIZE"
                    [] ~tooLong /\ n = 0 -> IF eof THEN "eof" ELSE "again"
                    [] OTHER -> IF n < 0 THEN "CSPROTERR" ELSE "message"
           kept == IF ret \in {"again", "message"} THEN more ELSE <<>>
           size == room[calls]
           altsize == IF kept = <<>> THEN other ELSE AltSize(other, Len(kept))
           stack == [s EXCEPT !.size = size, !.alt = kept, !.altsize = altsize]
           rest == SubSeq(w, Least(turns * Chunk, Len(w)) + 1, Len(w))
           over == \E k \in 1..turns : /\ \A j \in 1..k : room[j] # 0
                                       /\ Len(Received(s, w, k)) > room[k]
           msg == IF ret = "message" THEN has[1][1] ELSE -1
           o == TcpipGet(s, w, eof, turns)
           q == s.alt \o w
<1>1. o = [stack |-> stack, wire |-> rest, over |-> over, ret |-> ret, msg |-> msg]
  BY DEF TcpipGet
<1> DEFINE c == Least(turns * Chunk, Len(w))
<1>2. /\ c \in 0..Len(w) /\ has = s.alt \o SubSeq(w, 1, c) /\ has \in Seq(Byte)
      /\ Len(has) = Len(s.alt) + c
  BY ReceivedIs
<1>3. rest = SubSeq(w, c + 1, Len(w)) /\ rest \in Seq(Byte)
  <2>1. rest = SubSeq(w, c + 1, Len(w))
    OBVIOUS
  <2> HIDE DEF c, rest
  <2> QED BY <1>2, <2>1, Parts
<1>4. s.alt \in Seq(Byte) /\ s.size \in Nat /\ s.altsize \in Nat
  BY DEF Reader
<1>5. calls \in Nat /\ (calls = turns \/ (calls = turns + 1 /\ n = 0))
  OBVIOUS
<1>6. \A k \in 0..(calls - 1) : Complete(Received(s, w, k)) = 0
  <2>1. SUFFICES ASSUME NEW k \in 0..(calls - 1) PROVE Complete(Received(s, w, k)) = 0
    OBVIOUS
  <2>2. CASE k \in 0..(turns - 1)
    BY <2>2 DEF Turns, LoopEnds
  <2>3. CASE k \notin 0..(turns - 1)
    <3>1. calls = turns + 1 /\ k = turns
      BY <1>5, <2>3
    <3> QED BY <1>5, <3>1
  <2> QED BY <2>2, <2>3
<1>7. \A k \in 0..(calls - 1) : Len(Received(s, w, k)) < Longest
  <2>1. SUFFICES ASSUME NEW k \in 0..(calls - 1) PROVE Len(Received(s, w, k)) < Longest
    OBVIOUS
  <2>2. Complete(Received(s, w, k)) = 0
    BY <1>6
  <2>3. k \in Nat
    OBVIOUS
  <2>4. Received(s, w, k) \in Seq(Byte)
    BY <2>3, ReceivedIs
  <2> QED BY <2>2, <2>4, Incomplete
<1> HIDE DEF calls
<1>8. \A k \in 0..calls : /\ Room(room[k])
                          /\ (\A j \in 1..k : room[j] # 0) => Len(Received(s, w, k)) <= room[k]
  BY <1>5, RoomsHold
<1>9. size \in Nat /\ Room(size)
  <2>1. calls \in 0..calls
    BY <1>5
  <2>2. room \in [0..calls -> Nat]
    BY <1>5, RoomsAre
  <2> HIDE DEF room
  <2> QED BY <1>8, <2>1, <2>2
<1>10. over = FALSE
  <2>1. SUFFICES ASSUME NEW k \in 1..turns, \A j \in 1..k : room[j] # 0
                 PROVE  ~(Len(Received(s, w, k)) > room[k])
    OBVIOUS
  <2>2. k \in 0..calls /\ k \in Nat
    BY <1>5
  <2>3. Len(Received(s, w, k)) <= room[k]
    BY <1>8, <2>1, <2>2
  <2>4. room[k] \in Nat
    <3>1. room \in [0..calls -> Nat]
      BY <1>5, RoomsAre
    <3> HIDE DEF room
    <3> QED BY <2>2, <3>1
  <2>5. Len(Received(s, w, k)) \in Nat
    BY <2>2, ReceivedIs, LenProperties
  <2> QED BY <2>3, <2>4, <2>5
<1>11. Fits => ~tooLong
  <2>1. SUFFICES ASSUME Fits, NEW k \in 1..calls
                 PROVE  room[k] # 0 /\ ~(Len(Received(s, w, k)) > MaxRecv)
    OBVIOUS
  <2>2. room[k] # 0 /\ Len(Received(s, w, k)) <= MaxRecv
    BY <1>5, <1>7, <2>1, RoomsGrow
  <2>3. k \in Nat
    BY <1>5
  <2>4. Len(Received(s, w, k)) \in Nat /\ MaxRecv \in Nat
    BY <2>3, ReceivedIs, LenProperties, BoundsAssumption
  <2> QED BY <2>2, <2>4
<1>12. /\ ret \in {"CSBUFSIZE", "eof", "again", "CSPROTERR", "message"}
       /\ ret = "CSBUFSIZE" => tooLong
       /\ ret = "again" => n = 0
       /\ ret = "message" => n # 0 /\ ~(n < 0)
       /\ ret = "CSPROTERR" => n < 0
  <2> HIDE DEF tooLong, n
  <2>1. CASE tooLong
    BY <2>1
  <2>2. CASE ~tooLong /\ n = 0
    BY <2>2, Zenon
  <2>3. CASE ~tooLong /\ n # 0
    <3>1. ret = IF n < 0 THEN "CSPROTERR" ELSE "message"
      BY <2>3, Zenon
    <3> HIDE DEF ret
    <3> QED BY <2>3, <3>1
  <2> QED BY <2>1, <2>2, <2>3
<1> HIDE DEF tooLong, room, over, ret
<1> DEFINE sz == Size(has[1][1])
<1>13. /\ has # <<>> => has[1][1] \in 0..Messages
       /\ n = 0 \/ n = -1 \/ n = sz
       /\ n # 0 /\ ~(n < 0) => has # <<>> /\ has[1][2] = 1 /\ n = sz /\ sz <= Len(has)
       /\ n < 0 => has # <<>> /\ has[1][2] # 1
       /\ sz \in Nat /\ 1 <= sz /\ Len(has) \in Nat
  <2>1. Len(has) \in Nat /\ sz \in Nat /\ 1 <= sz
    BY <1>2, LenProperties, Sizes
  <2>2. /\ has = <<>> => n = 0
        /\ has # <<>> /\ has[1][2] # 1 => n = -1
        /\ has # <<>> /\ has[1][2] = 1 /\ Len(has) < sz => n = 0
        /\ has # <<>> /\ has[1][2] = 1 /\ sz <= Len(has) => n = sz
        /\ has # <<>> => has[1][1] \in 0..Messages
    BY <1>2, CompleteIs
  <2> HIDE DEF has, n, sz
  <2> QED BY <2>1, <2>2
<1> HIDE DEF n, rest, c
<1>14. ret \in {"again", "message"} =>
         /\ kept \in Seq(Byte) /\ kept \o rest = SubSeq(q, n + 1, Len(q))
         /\ has # <<>> => q # <<>> /\ q[1] = has[1]
         /\ Len(has) <= Len(q) /\ SubSeq(q, 1, Len(q)) = q
  <2>1. SUFFICES ASSUME ret \in {"again", "message"}
                 PROVE  /\ more \in Seq(Byte) /\ more \o rest = SubSeq(q, n + 1, Len(q))
                        /\ has # <<>> => q # <<>> /\ q[1] = has[1]
                        /\ Len(has) <= Len(q) /\ SubSeq(q, 1, Len(q)) = q
    OBVIOUS
  <2>2. n \in Nat /\ n <= Len(has)
    BY <1>12, <1>13, <2>1
  <2>3. Len(has) = Len(s.alt) + c /\ c \in 0..Len(w)
    BY <1>2
  <2>4. has = s.alt \o SubSeq(w, 1, c) /\ rest = SubSeq(w, c + 1, Len(w))
    BY <1>2, <1>3
  <2>5. n <= Len(s.alt) + c
    BY <2>2, <2>3
  <2>6. q = s.alt \o w
    OBVIOUS
  <2> HIDE DEF has, q
  <2>7. Divides(has, rest, q, n)
    BY <1>4, <2>2, <2>3, <2>4, <2>5, <2>6, Divided
  <2> QED BY <2>7 DEF Divides
<1>15. kept \in Seq(Byte) /\ (ret \notin {"again", "message"} => kept = <<>>)
  <2>1. CASE ret \in {"again", "message"}
    BY <1>14, <2>1
  <2>2. CASE ret \notin {"again", "message"}
    BY <2>2, SeqClosed
  <2> QED BY <2>1, <2>2
<1> HIDE DEF kept
<1>16. altsize \in Nat /\ Room(altsize) /\ (kept # <<>> => Len(kept) <= altsize)
  <2>1. other \in Nat /\ Room(other)
    BY <1>4 DEF Roomy
  <2> HIDE DEF other
  <2>2. CASE kept = <<>>
    BY <2>1, <2>2
  <2>3. CASE kept # <<>>
    <3>1. Len(kept) \in Nat \ {0}
      BY <1>15, <2>3, EmptySeq
    <3> QED BY <2>1, <2>3, <3>1, AltRoom
  <2> QED BY <2>2, <2>3
<1> HIDE DEF altsize, size, o, has
<1>17. /\ stack \in Reader /\ Roomy(stack) /\ stack.alt = kept
       /\ <<stack.listener, stack.state, stack.over, stack.err>> =
            <<s.listener, s.state, s.over, s.err>>
  <2> DEFINE x == stack
  <2>1. /\ x.listener = s.listener /\ x.state = s.state /\ x.over = s.over /\ x.err = s.err
        /\ x.size = size /\ x.alt = kept /\ x.altsize = altsize /\ x \in Reader
    BY <1>9, <1>15, <1>16 DEF Reader
  <2>2. x = stack
    OBVIOUS
  <2> HIDE DEF x, stack
  <2> QED BY <1>9, <1>16, <2>1, <2>2 DEF Roomy
<1> HIDE DEF stack
<1>18. o.stack = stack /\ o.wire = rest /\ o.over = over /\ o.ret = ret /\ o.msg = msg
  BY <1>1
<1>19. ret = "message" => msg = has[1][1]
  OBVIOUS
<1> HIDE DEF msg, q
<1>20. GetSafe(s, o)
  BY <1>3, <1>10, <1>11, <1>12, <1>13, <1>17, <1>18, <1>19 DEF GetSafe
<1>21. ret = "again" => kept \o rest = q
  <2>1. SUFFICES ASSUME ret = "again" PROVE kept \o rest = q
    OBVIOUS
  <2>2. n = 0 /\ 0 + 1 = 1
    BY <1>12, <2>1
  <2> QED BY <1>14, <2>1, <2>2
<1>22. ret = "message" =>
         /\ q # <<>> /\ q[1][2] = 1 /\ Size(q[1][1]) <= Len(q) /\ msg = q[1][1]
         /\ kept \o rest = SubSeq(q, Size(q[1][1]) + 1, Len(q))
  <2>1. SUFFICES ASSUME ret = "message"
                 PROVE  /\ q # <<>> /\ q[1][2] = 1 /\ Size(q[1][1]) <= Len(q) /\ msg = q[1][1]
                        /\ kept \o rest = SubSeq(q, Size(q[1][1]) + 1, Len(q))
    OBVIOUS
  <2>2. has # <<>> /\ has[1][2] = 1 /\ n = sz /\ sz <= Len(has)
    BY <1>12, <1>13, <2>1
  <2>3. q # <<>> /\ q[1] = has[1] /\ Len(has) <= Len(q) /\ kept \o rest = SubSeq(q, n + 1, Len(q))
    BY <1>14, <2>1, <2>2
  <2>4. sz = Size(q[1][1])
    BY <2>3
  <2>5. Len(q) \in Nat
    BY <1>4, ConcatProperties, LenProperties DEF q
  <2> HIDE DEF sz
  <2>6. sz <= Len(q)
    BY <1>13, <2>2, <2>3, <2>5
  <2> QED BY <1>19, <2>1, <2>2, <2>3, <2>4, <2>6
<1>23. ret = "CSPROTERR" => q # <<>> /\ q[1][2] # 1
  <2>1. SUFFICES ASSUME ret = "CSPROTERR" PROVE q # <<>> /\ q[1][2] # 1
    OBVIOUS
  <2>2. has # <<>> /\ has[1][2] # 1
    BY <1>12, <1>13, <2>1
  <2>3. 0 <= Len(s.alt) + c /\ 0 \in Nat
    BY <1>2, <1>4, LenProperties
  <2>4. q = s.alt \o w /\ c \in 0..Len(w) /\ has = s.alt \o SubSeq(w, 1, c)
    BY <1>2 DEF q
  <2>5. Divides(has, SubSeq(w, c + 1, Len(w)), q, 0)
    BY <1>4, <2>3, <2>4, Divided
  <2> QED BY <2>2, <2>5 DEF Divides
<1>24. GetTakes(q, o)
  BY <1>17, <1>18, <1>21, <1>22, <1>23 DEF GetTakes
<1> QED BY <1>20, <1>24 DEF o, q

-----------------------------------------------------------------------------
(***************************************************************************)
(* The client's stack and its connections                                  *)
(***************************************************************************)
(* A message is half written, or none is.                                  *)
Half(s) == IF s.towrite < 0 THEN s.written = -1 ELSE s.written \in 0..(s.towrite - 1)

Open == {"syn", "up", "refused", "reset"}
Busy == {"CONNECTING", "DATAXFER"}

(* A connection is open to the address being tried, if to any; those that  *)
(* come after it were not tried.                                           *)
OneOpen ==
  /\ h.state = "UNBND" => h.ai <= 1 /\ \A a \in Addr : link[a] = "idle"
  /\ h.state \in Busy =>
       /\ h.ai \in 1..h.last
       /\ \A a \in Addr : (a # h.ai => link[a] \notin Open) /\ (a > h.ai => link[a] = "idle")
  /\ h.state = "CLOSED" => \A a \in Addr : link[a] \notin Open

(* The resolver's thread is joined before the first address is tried.      *)
Joined(s) == s.pipe # "none" => s.state \in {"UNBND", "CONNECTING"} /\ s.ai = 1 /\ ~s.unix

ClientInv == h \in Stack /\ Half(h) /\ Joined(h) /\ link \in Links /\ OneOpen

(* What every call at the client, with result o, keeps of its stack s.     *)
Moves(s, o) ==
  /\ o.stack \in Stack /\ Half(o.stack) /\ o.ret \in {-1, 0, 1}
  /\ o.ret # -1 => /\ o.stack.state \in Busy /\ o.stack.ai \in 1..o.stack.last
                   /\ s.ai <= o.stack.ai /\ Joined(o.stack)
  /\ <<o.stack.tls, o.stack.unix, o.stack.proxy, o.stack.last>> = <<s.tls, s.unix, s.proxy, s.last>>

Codes == {"CSYSERR", "CSOUTSTATE", "CSWRONGBUF", "CSDENY"}

\* The numbers of a stack.
LEMMA StackNumbers ==
  ASSUME NEW s \in Stack
  PROVE  /\ Addresses \in Nat \ {0} /\ s.last \in Nat /\ 1 <= s.last /\ s.last <= Addresses
         /\ s.ai \in Nat /\ s.ai <= Addresses + 1
         /\ s.towrite \in Int /\ s.written \in Int /\ -1 <= s.towrite /\ -1 <= s.written
<1>1. Addresses \in Nat \ {0}
  BY BoundsAssumption
<1>2. Longest \in Nat /\ Span = -1..Longest
  BY Sizes DEF Span, Longest
<1>3. s.last \in 1..Addresses /\ s.ai \in 0..(Addresses + 1) /\ s.towrite \in Span /\ s.written \in Span
  BY DEF Stack, Addr
<1> QED BY <1>1, <1>2, <1>3

LEMMA FailsMoves ==
  ASSUME NEW s \in Stack, Half(s), NEW code \in Codes
  PROVE  Moves(s, Fails(s, code)) /\ Fails(s, code).ret = -1
<1> DEFINE x == [s EXCEPT !.err = code]
<1>1. Fails(s, code).stack = x /\ Fails(s, code).ret = -1
  BY DEF Fails
<1>2. /\ x \in Stack /\ x.towrite = s.towrite /\ x.written = s.written
      /\ <<x.tls, x.unix, x.proxy, x.last>> = <<s.tls, s.unix, s.proxy, s.last>>
  BY DEF Stack, Codes
<1> HIDE DEF x
<1>3. Half(x)
  BY <1>2 DEF Half
<1> QED BY <1>1, <1>2, <1>3 DEF Moves

(* The calls of connect(2): the address, what it does to the stack.        *)
Tries(s, a, o) ==
  \/ /\ o.ret = 1 /\ o.stack.state = "CONNECTING" /\ o.stack.ai \in a..s.last
     /\ <<o.stack.pipe, o.stack.phase, o.stack.towrite, o.stack.written>> =
          <<s.pipe, s.phase, s.towrite, s.written>>
  \/ o.ret = -1

LEMMA TryFromMoves ==
  ASSUME NEW s \in Stack, Half(s), NEW a \in Nat, 1 <= a, s.ai <= a, s.pipe = "none",
         NEW o \in TryFrom(s, a)
  PROVE  Moves(s, o) /\ Tries(s, a, o) /\ o = [stack |-> o.stack, ret |-> o.ret]
<1>1. CASE o = [stack |-> [s EXCEPT !.err = "CSYSERR", !.ai = Addresses + 1], ret |-> -1]
  <2> DEFINE x == [s EXCEPT !.err = "CSYSERR", !.ai = Addresses + 1]
  <2>1. o.stack = x /\ o.ret = -1 /\ o = [stack |-> o.stack, ret |-> o.ret]
    BY <1>1
  <2>2. Addresses + 1 \in 0..(Addresses + 1)
    BY StackNumbers
  <2>3. /\ x \in Stack /\ x.towrite = s.towrite /\ x.written = s.written
        /\ <<x.tls, x.unix, x.proxy, x.last>> = <<s.tls, s.unix, s.proxy, s.last>>
    BY <2>2 DEF Stack
  <2> HIDE DEF x
  <2>4. Half(x)
    BY <2>3 DEF Half
  <2> QED BY <2>1, <2>3, <2>4 DEF Moves, Tries
<1>2. ASSUME NEW b \in a..s.last,
             o = [stack |-> [s EXCEPT !.state = "CONNECTING", !.event = "CONNECT", !.ai = b,
                               !.session = FALSE,
                               !.io = IF s.unix THEN {"WRITE"} ELSE {"WRITE", "READ"}], ret |-> 1]
      PROVE  Moves(s, o) /\ Tries(s, a, o) /\ o = [stack |-> o.stack, ret |-> o.ret]
  <2> DEFINE io == IF s.unix THEN {"WRITE"} ELSE {"WRITE", "READ"}
             x == [s EXCEPT !.state = "CONNECTING", !.event = "CONNECT", !.ai = b,
                            !.session = FALSE, !.io = io]
  <2>1. o.stack = x /\ o.ret = 1 /\ o = [stack |-> o.stack, ret |-> o.ret]
    BY <1>2
  <2>2. b \in 1..s.last /\ b \in 0..(Addresses + 1) /\ s.ai <= b
    BY StackNumbers
  <2>3. io \in SUBSET {"READ", "WRITE"}
    OBVIOUS
  <2> HIDE DEF io
  <2>4. /\ x \in Stack /\ x.towrite = s.towrite /\ x.written = s.written
        /\ x.state = "CONNECTING" /\ x.ai = b /\ x.pipe = s.pipe /\ x.phase = s.phase
        /\ x.tls = s.tls /\ x.unix = s.unix /\ x.proxy = s.proxy /\ x.last = s.last
    BY <2>2, <2>3 DEF Stack
  <2> HIDE DEF x
  <2>5. Half(x) /\ Joined(x)
    BY <2>4 DEF Half, Joined
  <2>6. Moves(s, o)
    BY <2>1, <2>2, <2>4, <2>5 DEF Moves, Busy
  <2>7. Tries(s, a, o)
    BY <2>1, <2>4 DEF Tries
  <2> QED BY <2>1, <2>6, <2>7
<1> QED BY <1>1, <1>2 DEF TryFrom

LEMMA ContConnectMoves ==
  ASSUME NEW s \in Stack, Half(s), s.pipe = "none", NEW o \in ContConnect(s)
  PROVE  Moves(s, o) /\ Tries(s, s.ai + 1, o) /\ o = [stack |-> o.stack, ret |-> o.ret]
<1>1. CASE s.ai >= s.last
  <2>1. o = Fails(s, "CSYSERR") /\ "CSYSERR" \in Codes
    BY <1>1 DEF ContConnect, Codes
  <2>2. o = [stack |-> o.stack, ret |-> o.ret]
    BY <2>1 DEF Fails
  <2>3. Moves(s, o) /\ o.ret = -1
    BY <2>1, FailsMoves
  <2> QED BY <2>2, <2>3 DEF Tries
<1>2. CASE ~(s.ai >= s.last)
  <2>1. o \in TryFrom(s, s.ai + 1)
    BY <1>2 DEF ContConnect
  <2>2. s.ai + 1 \in Nat /\ 1 <= s.ai + 1 /\ s.ai <= s.ai + 1
    BY StackNumbers
  <2> QED BY <2>1, <2>2, TryFromMoves
<1> QED BY <1>1, <1>2

\* tcpip_connect of a stack that was not used before.
LEMMA TcpipConnectMoves ==
  ASSUME NEW s \in Stack, Half(s), s.state = "UNBND", s.ai = 1, Joined(s),
         NEW o \in TcpipConnect(s)
  PROVE  /\ Moves(s, o)
         /\ o = [stack |-> o.stack, ret |-> o.ret]
         /\ Tries(s, 1, o)
<1>1. CASE s.pipe # "none"
  <2> DEFINE x == [s EXCEPT !.event = "CONNECT", !.state = "CONNECTING", !.io = {"READ"}]
  <2>1. o = [stack |-> x, ret |-> 1]
    BY <1>1, Zenon DEF TcpipConnect
  <2>2. /\ x \in Stack /\ x.towrite = s.towrite /\ x.written = s.written
        /\ x.state = "CONNECTING" /\ x.ai = 1 /\ x.pipe = s.pipe /\ x.phase = s.phase
        /\ x.tls = s.tls /\ x.unix = s.unix /\ x.proxy = s.proxy /\ x.last = s.last
    BY DEF Stack
  <2> HIDE DEF x
  <2>3. 1 \in 1..s.last
    BY StackNumbers
  <2>4. Half(x) /\ Joined(x)
    BY <2>2 DEF Half, Joined
  <2>5. o.stack = x /\ o.ret = 1
    BY <2>1
  <2> QED BY <2>1, <2>2, <2>3, <2>4, <2>5 DEF Moves, Busy, Tries
<1>2. CASE s.pipe = "none"
  <2>1. o \in TryFrom(s, 1)
    BY <1>2, Zenon DEF TcpipConnect
  <2> QED BY <1>2, <2>1, TryFromMoves
<1> QED BY <1>1, <1>2

\* unix_connect.
LEMMA UnixConnectMoves ==
  ASSUME NEW s \in Stack, Half(s), s.state = "UNBND", s.ai = 1, s.pipe = "none",
         NEW o \in UnixConnect(s)
  PROVE  Moves(s, o) /\ o = [stack |-> o.stack, ret |-> o.ret] /\ Tries(s, 1, o)
<1>1. o \in TryFrom(s, 1)
  BY DEF UnixConnect
<1> QED BY <1>1, TryFromMoves

(* How far a message is written when a call of cs_put begins.              *)
Before(s) == IF s.towrite < 0 THEN 0 ELSE s.written

(* What cs_put of message m does, with result o.                           *)
Puts(s, m, o) ==
  /\ o = [stack |-> o.stack, ret |-> o.ret, wire |-> o.wire]
  /\ <<o.stack.state, o.stack.ai, o.stack.pipe>> = <<s.state, s.ai, s.pipe>>
  /\ \/ o.ret = -1 /\ o.wire = <<>>
     \/ /\ o.ret = 1 /\ Before(s) \in 0..(Size(m) - 1)
        /\ o.stack.phase = s.phase
        /\ o.stack.towrite = Size(m) /\ o.stack.written \in (Before(s) + 1)..(Size(m) - 1)
        /\ o.wire = SubSeq(Bytes(m), Before(s) + 1, o.stack.written)
     \/ /\ o.ret = 0 /\ Before(s) \in 0..(Size(m) - 1)
        /\ o.stack.phase = s.phase
        /\ o.stack.towrite = -1 /\ o.stack.written = -1
        /\ o.wire = SubSeq(Bytes(m), Before(s) + 1, Size(m))

LEMMA TcpipPutMoves ==
  ASSUME NEW s \in Stack, Half(s), s.state \in Busy, s.ai \in 1..s.last, Joined(s),
         NEW m, NEW sent \in Nat \ {0}, NEW o \in TcpipPut(s, m, sent)
  PROVE  Moves(s, o) /\ Puts(s, m, o)
<1> DEFINE wrong == s.towrite >= 0 /\ s.towrite # Size(m)
           begun == IF s.towrite < 0 THEN [s EXCEPT !.towrite = Size(m), !.written = 0] ELSE s
           left == begun.towrite - begun.written
           bytes == SubSeq(Bytes(m), begun.written + 1, begun.written + Least(left, sent))
           x1 == [s EXCEPT !.err = "CSWRONGBUF", !.io = {}, !.event = "DATA"]
           x2 == [begun EXCEPT !.io = {"WRITE"}, !.event = "DATA", !.written = @ + sent]
           x3 == [s EXCEPT !.io = {}, !.event = "DATA", !.towrite = -1, !.written = -1]
<1>1. TcpipPut(s, m, sent) =
        CASE wrong -> {[stack |-> x1, ret |-> -1, wire |-> <<>>]}
          [] ~wrong /\ sent < left -> {[stack |-> x2, ret |-> 1, wire |-> bytes]}
          [] OTHER -> {[stack |-> x3, ret |-> 0, wire |-> bytes]}
  BY DEF TcpipPut
<1>2. /\ Size(m) \in Nat /\ 1 <= Size(m) /\ Size(m) \in Span
      /\ Span = -1..Longest /\ Longest \in Nat /\ Size(m) <= Longest
  BY Sizes DEF Span, Longest
<1>3. s.towrite \in Int /\ s.written \in Int /\ -1 <= s.towrite /\ -1 <= s.written
  BY StackNumbers
<1>4. CASE wrong
  <2>1. o = [stack |-> x1, ret |-> -1, wire |-> <<>>]
    BY <1>1, <1>4, Zenon
  <2>2. /\ x1 \in Stack /\ x1.towrite = s.towrite /\ x1.written = s.written
        /\ x1.state = s.state /\ x1.ai = s.ai /\ x1.pipe = s.pipe
        /\ <<x1.tls, x1.unix, x1.proxy, x1.last>> = <<s.tls, s.unix, s.proxy, s.last>>
    BY DEF Stack
  <2> HIDE DEF x1
  <2>3. Half(x1)
    BY <2>2 DEF Half
  <2>4. o.stack = x1 /\ o.ret = -1 /\ o.wire = <<>>
    BY <2>1
  <2> QED BY <2>1, <2>2, <2>3, <2>4 DEF Moves, Puts
<1>5. CASE ~wrong
  <2> DEFINE w0 == Before(s)
  <2>1. /\ begun \in Stack /\ begun.towrite = Size(m) /\ begun.written = w0 /\ w0 \in 0..(Size(m) - 1)
        /\ begun.state = s.state /\ begun.ai = s.ai /\ begun.pipe = s.pipe /\ begun.phase = s.phase
        /\ <<begun.tls, begun.unix, begun.proxy, begun.last>> = <<s.tls, s.unix, s.proxy, s.last>>
    <3>1. CASE s.towrite < 0
      <4> DEFINE y == [s EXCEPT !.towrite = Size(m), !.written = 0]
      <4>1. begun = y /\ w0 = 0
        BY <3>1 DEF Before
      <4>2. 0 \in Span /\ 0 \in 0..(Size(m) - 1)
        BY <1>2
      <4>3. /\ y \in Stack /\ y.towrite = Size(m) /\ y.written = 0
            /\ y.state = s.state /\ y.ai = s.ai /\ y.pipe = s.pipe /\ y.phase = s.phase
            /\ <<y.tls, y.unix, y.proxy, y.last>> = <<s.tls, s.unix, s.proxy, s.last>>
        BY <1>2, <4>2 DEF Stack
      <4> HIDE DEF y, begun, w0
      <4> QED BY <4>1, <4>2, <4>3
    <3>2. CASE ~(s.towrite < 0)
      <4>1. begun = s /\ w0 = s.written /\ s.towrite = Size(m)
        BY <1>3, <1>5, <3>2 DEF Before
      <4>2. s.written \in 0..(s.towrite - 1)
        BY <3>2 DEF Half
      <4> HIDE DEF begun, w0
      <4> QED BY <4>1, <4>2
    <3> QED BY <3>1, <3>2
  <2> HIDE DEF begun, w0
  <2>2. left = Size(m) - w0
    BY <2>1
  <2>3. CASE sent < left
    <3>1. o = [stack |-> x2, ret |-> 1, wire |-> bytes]
      <4> HIDE DEF left, wrong, x1, x2, x3, bytes
      <4> QED BY <1>1, <1>5, <2>3, Zenon
    <3> DEFINE u == w0 + sent
    <3>2. Least(left, sent) = sent /\ u \in Span /\ u \in (w0 + 1)..(Size(m) - 1)
      BY <1>2, <2>1, <2>2, <2>3 DEF Least
    <3>3. bytes = SubSeq(Bytes(m), w0 + 1, u)
      BY <2>1, <3>2
    <3>4. x2 = [begun EXCEPT !.io = {"WRITE"}, !.event = "DATA", !.written = u]
      BY <2>1
    <3> HIDE DEF u, bytes, x2, left, wrong
    <3>5. /\ x2 \in Stack /\ x2.towrite = Size(m) /\ x2.written = u
          /\ x2.state = s.state /\ x2.ai = s.ai /\ x2.pipe = s.pipe /\ x2.phase = s.phase
          /\ x2.tls = s.tls /\ x2.unix = s.unix /\ x2.proxy = s.proxy /\ x2.last = s.last
      BY <2>1, <3>2, <3>4 DEF Stack
    <3>6. o.stack = x2 /\ o.ret = 1 /\ o.wire = bytes
          /\ o = [stack |-> o.stack, ret |-> o.ret, wire |-> o.wire]
      BY <3>1
    <3>7. Half(x2)
      BY <1>2, <2>1, <3>2, <3>5 DEF Half
    <3>8. Joined(x2)
      BY <3>5 DEF Joined
    <3>9. Moves(s, o)
      <4>1. s.ai <= s.ai
        BY StackNumbers
      <4> QED BY <3>5, <3>6, <3>7, <3>8, <4>1 DEF Moves
    <3>10. Puts(s, m, o)
      BY <2>1, <3>2, <3>3, <3>5, <3>6 DEF Puts, w0
    <3> QED BY <3>9, <3>10
  <2>4. CASE ~(sent < left)
    <3>1. o = [stack |-> x3, ret |-> 0, wire |-> bytes]
      <4> HIDE DEF left, wrong, x1, x2, x3, bytes
      <4> QED BY <1>1, <1>5, <2>4, Zenon
    <3>2. Least(left, sent) = left /\ w0 + left = Size(m)
      BY <1>2, <2>1, <2>2, <2>4 DEF Least
    <3>3. bytes = SubSeq(Bytes(m), w0 + 1, Size(m))
      BY <2>1, <3>2
    <3>4. -1 \in Span
      BY <1>2
    <3>5. /\ x3 \in Stack /\ x3.towrite = -1 /\ x3.written = -1
          /\ x3.state = s.state /\ x3.ai = s.ai /\ x3.pipe = s.pipe /\ x3.phase = s.phase
          /\ x3.tls = s.tls /\ x3.unix = s.unix /\ x3.proxy = s.proxy /\ x3.last = s.last
      BY <3>4 DEF Stack
    <3> HIDE DEF x3, bytes, left, wrong
    <3>6. o.stack = x3 /\ o.ret = 0 /\ o.wire = bytes
          /\ o = [stack |-> o.stack, ret |-> o.ret, wire |-> o.wire]
      BY <3>1
    <3>7. Half(x3) /\ Joined(x3)
      BY <3>5 DEF Half, Joined
    <3>8. Moves(s, o)
      <4>1. s.ai <= s.ai
        BY StackNumbers
      <4> QED BY <3>5, <3>6, <3>7, <4>1 DEF Moves
    <3>9. Puts(s, m, o)
      BY <2>1, <3>3, <3>5, <3>6 DEF Puts, w0
    <3> QED BY <3>8, <3>9
  <2> QED BY <2>3, <2>4
<1> QED BY <1>4, <1>5

(* What a call whose send(2) fails does.                                   *)
PutFailed(s, o) ==
  /\ o = [stack |-> o.stack, ret |-> o.ret]
  /\ \/ o.ret = -1
     \/ /\ o.ret = 1 /\ o.stack.state = "CONNECTING" /\ o.stack.ai \in (s.ai + 1)..s.last
        /\ <<o.stack.pipe, o.stack.phase, o.stack.written>> = <<s.pipe, s.phase, Before(s)>>

LEMMA PutFailsMoves ==
  ASSUME NEW s \in Stack, Half(s), s.pipe = "none", NEW m, NEW o \in PutFails(s, m)
  PROVE  Moves(s, o) /\ PutFailed(s, o)
<1> DEFINE wrong == s.towrite >= 0 /\ s.towrite # Size(m)
           begun == IF s.towrite < 0 THEN [s EXCEPT !.towrite = Size(m), !.written = 0] ELSE s
<1>1. PutFails(s, m) = CASE wrong -> {Fails(s, "CSWRONGBUF")}
                         [] ~wrong /\ s.unix -> {Fails(begun, "CSYSERR")}
                         [] OTHER -> ContConnect(begun)
  BY DEF PutFails
<1>2. "CSWRONGBUF" \in Codes /\ "CSYSERR" \in Codes
  BY DEF Codes
<1>3. \A r, c : Fails(r, c) = [stack |-> Fails(r, c).stack, ret |-> Fails(r, c).ret]
  BY DEF Fails
<1>4. CASE wrong
  <2>1. o = Fails(s, "CSWRONGBUF")
    BY <1>1, <1>4, Zenon
  <2> QED BY <1>2, <1>3, <2>1, FailsMoves DEF PutFailed
<1>5. CASE ~wrong
  <2>1. /\ begun \in Stack /\ Half(begun) /\ begun.written = Before(s)
        /\ begun.ai = s.ai /\ begun.pipe = s.pipe /\ begun.phase = s.phase
        /\ begun.tls = s.tls /\ begun.unix = s.unix /\ begun.proxy = s.proxy /\ begun.last = s.last
    <3>1. CASE s.towrite < 0
      <4> DEFINE y == [s EXCEPT !.towrite = Size(m), !.written = 0]
      <4>1. begun = y /\ Before(s) = 0
        BY <3>1 DEF Before
      <4>2. Size(m) \in Nat /\ 1 <= Size(m) /\ Size(m) \in Span /\ 0 \in Span
        BY Sizes DEF Span, Longest
      <4>3. /\ y \in Stack /\ y.towrite = Size(m) /\ y.written = 0
            /\ y.ai = s.ai /\ y.pipe = s.pipe /\ y.phase = s.phase
            /\ y.tls = s.tls /\ y.unix = s.unix /\ y.proxy = s.proxy /\ y.last = s.last
        BY <4>2 DEF Stack
      <4> HIDE DEF y, begun
      <4>4. Half(y)
        BY <4>2, <4>3 DEF Half
      <4> QED BY <4>1, <4>3, <4>4
    <3>2. CASE ~(s.towrite < 0)
      BY <3>2 DEF Before
    <3> QED BY <3>1, <3>2
  <2> HIDE DEF begun
  <2>2. ASSUME NEW r, Moves(begun, r) PROVE Moves(s, r)
    BY <2>1, <2>2 DEF Moves
  <2>3. CASE s.unix
    <3>1. o = Fails(begun, "CSYSERR")
      <4> HIDE DEF wrong
      <4> QED BY <1>1, <1>5, <2>3, Zenon
    <3>2. Moves(begun, o) /\ o.ret = -1
      BY <1>2, <2>1, <3>1, FailsMoves
    <3>3. o = [stack |-> o.stack, ret |-> o.ret]
      BY <1>3, <3>1
    <3> QED BY <2>2, <3>2, <3>3 DEF PutFailed
  <2>4. CASE ~s.unix
    <3>1. o \in ContConnect(begun)
      <4> HIDE DEF wrong
      <4> QED BY <1>1, <1>5, <2>4, Zenon
    <3>2. Moves(begun, o) /\ Tries(begun, begun.ai + 1, o) /\ o = [stack |-> o.stack, ret |-> o.ret]
      BY <2>1, <3>1, ContConnectMoves
    <3> QED BY <2>1, <2>2, <3>2 DEF PutFailed, Tries
  <2> QED BY <2>3, <2>4
<1> QED BY <1>4, <1>5

\* What becomes of the connections at the end of a call: those before the
\* address being tried, or all of them, are closed, and that one is begun.
LEMMA OutcomeLinks ==
  ASSUME NEW o, Outcome(o), link \in Links
  PROVE  /\ o.ret < 0 => h' = [o.stack EXCEPT !.state = "CLOSED", !.pipe = "none"]
         /\ ~(o.ret < 0) => h' = o.stack
         /\ link' \in Links
         /\ \A a \in Addr :
              LET over == a < o.stack.ai \/ o.ret < 0
              IN /\ over /\ link[a] \in {"idle", "syn", "refused"} => link'[a] = "closed"
                 /\ over /\ link[a] \in {"up", "reset"} => link'[a] = "fin"
                 /\ over /\ link[a] \in {"closed", "fin"} => link'[a] = link[a]
                 /\ ~over /\ a = o.stack.ai /\ o.stack.pipe = "none" /\ link[a] = "idle" =>
                      link'[a] = "syn"
                 /\ ~over /\ ~(a = o.stack.ai /\ o.stack.pipe = "none" /\ link[a] = "idle") =>
                      link'[a] = link[a]
<1> DEFINE dead == o.ret < 0
           now == o.stack.ai
           L(a) == CASE (a < now \/ dead) /\ link[a] \in {"idle", "syn", "refused"} -> "closed"
                     [] (a < now \/ dead) /\ link[a] \in {"up", "reset"} -> "fin"
                     [] a = now /\ ~dead /\ o.stack.pipe = "none" /\ link[a] = "idle" -> "syn"
                     [] OTHER -> link[a]
<1>1. h' = (IF dead THEN [o.stack EXCEPT !.state = "CLOSED", !.pipe = "none"] ELSE o.stack)
      /\ link' = [a \in Addr |-> L(a)]
  BY DEF Outcome
<1>2. ASSUME NEW a \in Addr
      PROVE  LET over == a < o.stack.ai \/ o.ret < 0
             IN /\ L(a) \in {"idle", "syn", "up", "refused", "reset", "closed", "fin"}
                /\ over /\ link[a] \in {"idle", "syn", "refused"} => L(a) = "closed"
                /\ over /\ link[a] \in {"up", "reset"} => L(a) = "fin"
                /\ over /\ link[a] \in {"closed", "fin"} => L(a) = link[a]
                /\ ~over /\ a = o.stack.ai /\ o.stack.pipe = "none" /\ link[a] = "idle" =>
                     L(a) = "syn"
                /\ ~over /\ ~(a = o.stack.ai /\ o.stack.pipe = "none" /\ link[a] = "idle") =>
                     L(a) = link[a]
  <2> DEFINE over == a < now \/ dead
             begins == a = now /\ ~dead /\ o.stack.pipe = "none" /\ link[a] = "idle"
  <2>1. L(a) = CASE over /\ link[a] \in {"idle", "syn", "refused"} -> "closed"
                 [] over /\ link[a] \in {"up", "reset"} -> "fin"
                 [] begins -> "syn"
                 [] OTHER -> link[a]
    OBVIOUS
  <2>2. link[a] \in {"idle", "syn", "up", "refused", "reset", "closed", "fin"}
    BY DEF Links
  <2> HIDE DEF L
  <2>3. CASE over
    <3> DEFINE early == link[a] \in {"idle", "syn", "refused"}
               late == link[a] \in {"up", "reset"}
               ended == link[a] \in {"closed", "fin"}
    <3>1. ~(early /\ late) /\ (ended => ~early /\ ~late)
      OBVIOUS
    <3>1a. ~begins
      <4>1. a \in Int
        BY BoundsAssumption DEF Addr
      <4> QED BY <2>3, <4>1
    <3>2. L(a) = CASE over /\ early -> "closed" [] over /\ late -> "fin" [] begins -> "syn"
                   [] OTHER -> link[a]
      BY <2>1
    <3> HIDE DEF over, begins, early, late, ended
    <3>3. early => L(a) = "closed"
      BY <2>3, <3>1, <3>1a, <3>2, Zenon
    <3>4. late => L(a) = "fin"
      BY <2>3, <3>1, <3>1a, <3>2, Zenon
    <3>5. ended => L(a) = link[a]
      BY <2>3, <3>1, <3>1a, <3>2, Zenon
    <3> QED BY <2>2, <2>3, <3>3, <3>4, <3>5 DEF over, early, late, ended
  <2>4. CASE ~over
    <3> HIDE DEF over, begins
    <3>1. begins => L(a) = "syn"
      BY <2>1, <2>4, Zenon
    <3>2. ~begins => L(a) = link[a]
      BY <2>1, <2>4, Zenon
    <3> QED BY <2>2, <2>4, <3>1, <3>2 DEF over, begins
  <2> QED BY <2>3, <2>4
<1> HIDE DEF L
<1>3. link' \in Links
  BY <1>1, <1>2 DEF Links
<1>4. \A a \in Addr : link'[a] = L(a)
  BY <1>1
<1> QED BY <1>1, <1>2, <1>3, <1>4

\* A call at the client keeps its part of the invariant.
LEMMA OutcomeKeeps ==
  ASSUME ClientInv, h.state \in {"UNBND"} \cup Busy, NEW o, Moves(h, o), Outcome(o)
  PROVE  ClientInv'
<1>1. /\ h \in Stack /\ link \in Links /\ OneOpen
      /\ o.stack \in Stack /\ Half(o.stack) /\ o.ret \in {-1, 0, 1}
  BY DEF ClientInv, Moves
<1>2. Addr = 1..Addresses /\ Addresses \in Nat
  BY BoundsAssumption DEF Addr
<1>3. \A a \in Addr : link[a] \in {"idle", "syn", "up", "refused", "reset", "closed", "fin"}
  BY <1>1 DEF Links
<1>4. CASE o.ret = -1
  <2> DEFINE x == [o.stack EXCEPT !.state = "CLOSED", !.pipe = "none"]
  <2>1. o.ret < 0
    BY <1>4
  <2>2. h' = x /\ link' \in Links
    BY <1>1, <2>1, OutcomeLinks
  <2>3. \A a \in Addr : link'[a] \in {"closed", "fin"}
    BY <1>1, <1>3, <2>1, OutcomeLinks
  <2>4. /\ x \in Stack /\ x.state = "CLOSED" /\ x.pipe = "none"
        /\ x.towrite = o.stack.towrite /\ x.written = o.stack.written
    BY <1>1 DEF Stack
  <2> HIDE DEF x
  <2>5. Half(x) /\ Joined(x)
    BY <1>1, <2>4 DEF Half, Joined
  <2>6. h' \in Stack /\ Half(h') /\ Joined(h') /\ h'.state = "CLOSED"
    BY <2>2, <2>4, <2>5
  <2>7. OneOpen'
    BY <2>3, <2>6 DEF OneOpen, Busy, Open
  <2> QED BY <2>2, <2>6, <2>7 DEF ClientInv, Half, Joined
<1>5. CASE o.ret # -1
  <2>1. ~(o.ret < 0)
    BY <1>1, <1>5
  <2>2. h' = o.stack /\ link' \in Links
    BY <1>1, <2>1, OutcomeLinks
  <2> DEFINE now == o.stack.ai
  <2>3. /\ o.stack.state \in Busy /\ now \in 1..o.stack.last
        /\ h.ai <= now /\ Joined(o.stack)
    BY <1>5 DEF Moves
  <2>4. now \in Nat /\ h.ai \in Nat
    BY <1>1, StackNumbers
  <2>5. \A a \in Addr : a > now => link[a] = "idle"
    <3>1. CASE h.state = "UNBND"
      BY <1>1, <3>1 DEF OneOpen
    <3>2. CASE h.state \in Busy
      <4>1. SUFFICES ASSUME NEW a \in Addr, a > now PROVE link[a] = "idle"
        OBVIOUS
      <4>2. a > h.ai
        BY <1>2, <2>3, <2>4, <4>1
      <4> QED BY <1>1, <3>2, <4>2 DEF OneOpen
    <3> QED BY <3>1, <3>2
  <2>6. ASSUME NEW a \in Addr
        PROVE  (a # now => link'[a] \notin Open) /\ (a > now => link'[a] = "idle")
    <3>1. CASE a < now
      <4>1. link'[a] \in {"closed", "fin"}
        BY <1>1, <1>3, <3>1, OutcomeLinks
      <4> QED BY <1>2, <2>4, <3>1, <4>1 DEF Open
    <3>2. CASE a = now
      BY <1>2, <2>4, <3>2
    <3>3. CASE a > now
      <4>1. ~(a < now \/ o.ret < 0) /\ a # now
        BY <1>2, <2>1, <2>4, <3>3
      <4>2. link'[a] = link[a]
        BY <1>1, <4>1, OutcomeLinks
      <4>3. link[a] = "idle"
        BY <2>5, <3>3
      <4> QED BY <4>2, <4>3 DEF Open
    <3> QED BY <1>2, <2>4, <3>1, <3>2, <3>3
  <2>7. h'.state # "UNBND" /\ h'.state # "CLOSED"
    BY <2>2, <2>3 DEF Busy
  <2>8. OneOpen'
    BY <2>2, <2>3, <2>6, <2>7 DEF OneOpen
  <2> QED BY <1>1, <2>2, <2>3, <2>8 DEF ClientInv, Half, Joined
<1> QED BY <1>4, <1>5

-----------------------------------------------------------------------------
(***************************************************************************)
(* The readers stay within their buffers, the client has one socket        *)
(***************************************************************************)
ServersInv ==
  /\ app \in 1..(Messages + 1)
  /\ wire \in [Addr -> Seq(Byte)] /\ got \in [Addr -> Seq(0..Messages)]
  /\ srv \in [Addr -> Reader]
  /\ \A a \in Addr : /\ Roomy(srv[a]) /\ srv[a].over = FALSE
                     /\ Fits => srv[a].err # "CSBUFSIZE"

TInv == ClientInv /\ ServersInv

\* The stack that the client starts with.
LEMMA HostsAre ==
  ASSUME NEW scheme, NEW proxy, NEW c \in CreateHosts(scheme, proxy)
  PROVE  c.connect \in BOOLEAN /\ c.mode \in BOOLEAN
<1> DEFINE v == ParseHost(scheme)
           p == ParseHost(proxy)
           tunnel == v.type = "ssl" \/ (v.proto = "Z3950" /\ p.proto = "HTTP")
           plain == proxy # NULL /\ p.type # "tcp"
           asks == tunnel /\ v.type # "unix"
           mode == ~tunnel
           c1 == [type |-> v.type, connect |-> FALSE, mode |-> FALSE]
           c2 == [type |-> v.type, connect |-> asks, mode |-> mode]
<1>1. CreateHosts(scheme, proxy) = CASE proxy = NULL -> {c1} [] plain -> {} [] OTHER -> {c2}
  BY DEF CreateHosts
<1>2. ~(proxy = NULL /\ plain)
  OBVIOUS
<1> HIDE DEF plain, v, p
<1>3. c = c1 \/ c = c2
  <2> HIDE DEF c1, c2
  <2>1. CreateHosts(scheme, proxy) \in {{c1}, {}, {c2}}
    BY <1>1, <1>2, Zenon
  <2> QED BY <2>1
<1>4. asks \in BOOLEAN /\ mode \in BOOLEAN
  OBVIOUS
<1> HIDE DEF asks, mode
<1>5. CASE c = c1
  BY <1>5
<1>6. CASE c = c2
  <2>1. c2.connect = asks /\ c2.mode = mode
    BY Zenon
  <2> HIDE DEF c2
  <2> QED BY <1>4, <1>6, <2>1
<1> QED BY <1>3, <1>5, <1>6

LEMMA NewStackIs ==
  ASSUME NEW scheme, NEW proxy, NEW c \in CreateHosts(scheme, proxy)
  PROVE  LET s == NewStack(c)
         IN /\ s \in Stack /\ s.state = "UNBND" /\ s.ai = 0 /\ s.pipe = "none"
            /\ s.towrite = -1 /\ s.written = -1 /\ s.phase = 0
            /\ s.proxy = c.connect /\ s.unix = (c.type = "unix")
            /\ s.unix => s.last = 1
            /\ ~s.unix /\ c.connect => s.last = ProxyAddresses
<1> DEFINE through == c.type # "unix" /\ (c.connect \/ c.mode)
           last == CASE c.type = "unix" -> 1
                     [] c.type # "unix" /\ (c.connect \/ c.mode) -> ProxyAddresses
                     [] OTHER -> Addresses
           tls == c.type = "ssl"
           unix == c.type = "unix"
           s == [tls |-> tls, unix |-> unix, proxy |-> c.connect,
                 last |-> last,
                 state |-> "UNBND", event |-> "NONE", io |-> {}, ai |-> 0, pipe |-> "none",
                 phase |-> 0, session |-> FALSE, towrite |-> -1, written |-> -1, err |-> NULL]
<1>1. NewStack(c) = s
  BY DEF NewStack
<1>2. Addresses \in Nat \ {0} /\ ProxyAddresses \in 1..Addresses
  BY BoundsAssumption
<1>3. /\ c.type = "unix" => last = 1
      /\ through => last = ProxyAddresses
      /\ ~through /\ c.type # "unix" => last = Addresses
  <2>1. last = CASE c.type = "unix" -> 1 [] through -> ProxyAddresses [] OTHER -> Addresses
    OBVIOUS
  <2>2. ~(c.type = "unix" /\ through)
    OBVIOUS
  <2> HIDE DEF last, through
  <2> QED BY <2>1, <2>2, Zenon
<1> HIDE DEF last
<1>4. last \in Addr
  BY <1>2, <1>3 DEF Addr
<1>5. c.connect \in BOOLEAN
  BY HostsAre
<1>6. 0 \in 0..(Addresses + 1) /\ -1 \in Span
  BY <1>2, Sizes DEF Span, Longest
<1>7. tls \in BOOLEAN /\ unix \in BOOLEAN
  OBVIOUS
<1>8. /\ unix => last = 1
      /\ ~unix /\ c.connect => last = ProxyAddresses
  BY <1>3
<1>9. unix = (c.type = "unix")
  OBVIOUS
<1> HIDE DEF tls, unix, through
<1>10. s \in Stack
  BY <1>4, <1>5, <1>6, <1>7 DEF Stack
<1>11. /\ s.state = "UNBND" /\ s.ai = 0 /\ s.pipe = "none" /\ s.towrite = -1 /\ s.written = -1
       /\ s.phase = 0 /\ s.proxy = c.connect /\ s.unix = unix /\ s.last = last
  OBVIOUS
<1> HIDE DEF s
<1>12. /\ s.unix => s.last = 1
       /\ ~s.unix /\ c.connect => s.last = ProxyAddresses
  BY <1>8, <1>11
<1> QED BY <1>1, <1>9, <1>10, <1>11, <1>12, Zenon

LEMMA TInvInit == ASSUME Init PROVE TInv
<1>0. PICK scheme \in Schemes, proxy \in ProxySchemes :
        \E c \in CreateHosts(scheme, proxy) : h = NewStack(c)
  BY DEF Init
<1>1. PICK c \in CreateHosts(scheme, proxy) : h = NewStack(c)
  BY <1>0
<1>2. h \in Stack /\ h.state = "UNBND" /\ h.ai = 0 /\ h.pipe = "none" /\ h.towrite = -1 /\ h.written = -1
  BY <1>1, NewStackIs
<1>3. /\ app = 1 /\ link = [a \in Addr |-> "idle"] /\ wire = [a \in Addr |-> <<>>]
      /\ srv = [a \in Addr |-> NewServer] /\ got = [a \in Addr |-> <<>>]
  BY DEF Init
<1>4. ClientInv
  BY <1>2, <1>3 DEF ClientInv, Half, Joined, OneOpen, Links, Busy
<1>5. /\ NewServer \in Reader /\ Roomy(NewServer) /\ NewServer.over = FALSE
      /\ NewServer.err # "CSBUFSIZE"
  <2>1. <<>> \in Seq(Byte)
    BY SeqClosed
  <2>2. NewServer \in Reader
    BY <2>1 DEF NewServer, Reader
  <2> QED BY <2>2 DEF NewServer, Roomy, Room, NULL
<1>6. <<>> \in Seq(Byte) /\ <<>> \in Seq(0..Messages) /\ app \in 1..(Messages + 1)
  BY <1>3, SeqClosed, BoundsAssumption
<1>7. ServersInv
  BY <1>3, <1>5, <1>6 DEF ServersInv
<1> QED BY <1>4, <1>7 DEF TInv

\* The calls that only move the client's stack: the address list and its thread.
LEMMA ResolverKeeps ==
  ASSUME ClientInv, Straddr \/ ResolverThread
  PROVE  ClientInv'
<1>1. h \in Stack /\ Half(h) /\ Joined(h) /\ link \in Links /\ OneOpen
  BY DEF ClientInv
<1>2. CASE Straddr
  <2> DEFINE pipe == IF Resolver /\ ~h.unix THEN "running" ELSE "none"
             x == [h EXCEPT !.pipe = pipe, !.ai = 1]
  <2>1. h' = x /\ link' = link /\ h.state = "UNBND"
    BY <1>2 DEF Straddr
  <2>2. pipe \in {"none", "running", "done"} /\ (pipe # "none" => ~h.unix) /\ 1 \in 0..(Addresses + 1)
    BY BoundsAssumption
  <2> HIDE DEF pipe
  <2>3. /\ x \in Stack /\ x.towrite = h.towrite /\ x.written = h.written /\ x.state = "UNBND"
        /\ x.ai = 1 /\ x.pipe = pipe /\ x.unix = h.unix
    BY <1>1, <2>1, <2>2 DEF Stack
  <2> HIDE DEF x
  <2>4. Half(x) /\ Joined(x)
    BY <1>1, <2>2, <2>3 DEF Half, Joined
  <2>5. OneOpen'
    BY <1>1, <2>1, <2>3 DEF OneOpen, Busy
  <2> QED BY <1>1, <2>1, <2>3, <2>4, <2>5 DEF ClientInv, Half, Joined
<1>3. CASE ResolverThread
  <2> DEFINE x == [h EXCEPT !.pipe = "done"]
  <2>1. h' = x /\ link' = link /\ h.pipe # "none"
    BY <1>3 DEF ResolverThread
  <2>2. /\ x \in Stack /\ x.towrite = h.towrite /\ x.written = h.written /\ x.state = h.state
        /\ x.ai = h.ai /\ x.unix = h.unix /\ x.last = h.last
    BY <1>1 DEF Stack
  <2> HIDE DEF x
  <2>3. Half(x) /\ Joined(x)
    BY <1>1, <2>1, <2>2 DEF Half, Joined
  <2>4. OneOpen'
    BY <1>1, <2>1, <2>2 DEF OneOpen, Busy
  <2> QED BY <1>1, <2>1, <2>2, <2>3, <2>4 DEF ClientInv, Half, Joined
<1> QED BY <1>2, <1>3

\* What is written of a message consists of bytes.
LEMMA PutBytes ==
  ASSUME NEW s, NEW m \in 0..Messages, NEW o, Puts(s, m, o)
  PROVE  o.wire \in Seq(Byte)
<1>1. ASSUME NEW a \in Nat \ {0}, NEW b \in Int, b <= Size(m)
      PROVE  SubSeq(Bytes(m), a, b) \in Seq(Byte)
  <2>1. Size(m) \in Nat
    BY Sizes
  <2>2. \A i \in a..b : Bytes(m)[i] \in Byte
    <3>1. SUFFICES ASSUME NEW i \in a..b PROVE Bytes(m)[i] \in Byte
      OBVIOUS
    <3>2. i \in 1..Size(m) /\ i \in Nat
      BY <1>1, <2>1
    <3>3. Bytes(m)[i] = <<m, i>>
      BY <3>2 DEF Bytes
    <3> QED BY <3>2, <3>3 DEF Byte
  <2>3. a \in Int
    OBVIOUS
  <2> HIDE DEF Bytes, Byte
  <2> QED BY <2>2, <2>3, SubSeqProperties
<1>2. CASE o.wire = <<>>
  BY <1>2, SeqClosed
<1>3. CASE Before(s) \in 0..(Size(m) - 1) /\ o.stack.written \in (Before(s) + 1)..(Size(m) - 1)
           /\ o.wire = SubSeq(Bytes(m), Before(s) + 1, o.stack.written)
  <2>1. Size(m) \in Nat
    BY Sizes
  <2>2. Before(s) + 1 \in Nat \ {0} /\ o.stack.written \in Int /\ o.stack.written <= Size(m)
    BY <1>3, <2>1
  <2> QED BY <1>1, <1>3, <2>2
<1>4. CASE Before(s) \in 0..(Size(m) - 1) /\ o.wire = SubSeq(Bytes(m), Before(s) + 1, Size(m))
  <2>1. Size(m) \in Nat
    BY Sizes
  <2>2. Before(s) + 1 \in Nat \ {0} /\ Size(m) \in Int /\ Size(m) <= Size(m)
    BY <1>4, <2>1
  <2> QED BY <1>1, <1>4, <2>2
<1> QED BY <1>2, <1>3, <1>4 DEF Puts

(* What the handshake with a proxy adds to the result o of a call: an      *)
(* event and a phase.                                                      *)
Also(o, phase, o2) ==
  /\ o2.ret = o.ret
  /\ \/ o2.stack = [o.stack EXCEPT !.event = "CONNECT", !.phase = phase]
     \/ o2.stack = [o.stack EXCEPT !.event = "CONNECT"] /\ phase = o.stack.phase

Alike(s, o, phase, o2) ==
  /\ Moves(s, o2) /\ o2.stack.phase = phase
  /\ o2.stack.state = o.stack.state /\ o2.stack.ai = o.stack.ai
  /\ o2.stack.pipe = o.stack.pipe /\ o2.stack.written = o.stack.written

LEMMA MovesAlso ==
  ASSUME NEW s, NEW o, Moves(s, o), NEW phase \in 0..2, NEW o2, Also(o, phase, o2)
  PROVE  Alike(s, o, phase, o2)
<1> DEFINE y == o.stack
           x == o2.stack
<1>1. y \in Stack /\ Half(y)
  BY DEF Moves
<1>2. /\ y = o.stack /\ x = o2.stack /\ o2.ret = o.ret
      /\ \/ x = [y EXCEPT !.event = "CONNECT", !.phase = phase]
         \/ x = [y EXCEPT !.event = "CONNECT"] /\ phase = y.phase
  BY DEF Also
<1> HIDE DEF x, y
<1>3. /\ x \in Stack /\ x.phase = phase /\ x.state = y.state /\ x.ai = y.ai /\ x.pipe = y.pipe
      /\ x.written = y.written /\ x.towrite = y.towrite
      /\ x.tls = y.tls /\ x.unix = y.unix /\ x.proxy = y.proxy /\ x.last = y.last
  <2>1. CASE x = [y EXCEPT !.event = "CONNECT", !.phase = phase]
    BY <1>1, <2>1 DEF Stack
  <2>2. CASE x = [y EXCEPT !.event = "CONNECT"] /\ phase = y.phase
    BY <1>1, <2>2 DEF Stack
  <2> QED BY <1>2, <2>1, <2>2
<1>4. Half(x) /\ (Joined(y) => Joined(x))
  BY <1>1, <1>3 DEF Half, Joined
<1>5. Moves(s, o2)
  BY <1>2, <1>3, <1>4 DEF Moves
<1> QED BY <1>2, <1>3, <1>5 DEF Alike

(* The result of a call at the client in which its stack s moves.          *)
Calls(o) == Moves(h, o) /\ Outcome(o)

LEMMA ConnectCalls ==
  ASSUME ClientInv, Connect
  PROVE  \E o : Calls(o) /\ Tries(h, 1, o)
<1>1. PICK o \in IF h.unix THEN UnixConnect(h) ELSE TcpipConnect(h) : Outcome(o)
  BY DEF Connect
<1>2. h \in Stack /\ Half(h) /\ Joined(h) /\ h.state = "UNBND" /\ h.ai = 1
  BY DEF ClientInv, Connect
<1>3. CASE h.unix
  <2>1. o \in UnixConnect(h) /\ h.pipe = "none"
    BY <1>1, <1>2, <1>3 DEF Joined
  <2>2. Moves(h, o) /\ Tries(h, 1, o)
    BY <1>2, <2>1, UnixConnectMoves
  <2> QED BY <1>1, <2>2 DEF Calls
<1>4. CASE ~h.unix
  <2>1. o \in TcpipConnect(h)
    BY <1>1, <1>4
  <2>2. Moves(h, o) /\ Tries(h, 1, o)
    BY <1>2, <2>1, TcpipConnectMoves
  <2> QED BY <1>1, <2>2 DEF Calls
<1> QED BY <1>3, <1>4

LEMMA JoinCalls ==
  ASSUME ClientInv, JoinResolver
  PROVE  \E o : Calls(o) /\ Tries([h EXCEPT !.pipe = "none"], 1, o)
<1> DEFINE s == [h EXCEPT !.pipe = "none", !.state = "UNBND"]
           y == [h EXCEPT !.pipe = "none"]
<1>1. PICK o \in TcpipConnect(s) : Outcome(o)
  BY DEF JoinResolver
<1>2. h \in Stack /\ Half(h) /\ h.ai = 1
  BY DEF ClientInv, JoinResolver, Joined
<1>3. /\ s \in Stack /\ s.state = "UNBND" /\ s.pipe = "none" /\ s.ai = 1 /\ s.phase = h.phase
      /\ s.towrite = h.towrite /\ s.written = h.written
      /\ <<s.tls, s.unix, s.proxy, s.last>> = <<h.tls, h.unix, h.proxy, h.last>>
      /\ y.pipe = "none" /\ y.phase = h.phase /\ y.last = h.last
      /\ y.towrite = h.towrite /\ y.written = h.written
  BY <1>2 DEF Stack
<1> HIDE DEF s, y
<1>4. Half(s) /\ Joined(s)
  BY <1>2, <1>3 DEF Half, Joined
<1>5. Moves(s, o) /\ Tries(s, 1, o)
  BY <1>1, <1>3, <1>4, TcpipConnectMoves
<1>6. Moves(h, o)
  BY <1>2, <1>3, <1>5 DEF Moves
<1>7. Tries(y, 1, o)
  BY <1>3, <1>5 DEF Tries
<1> QED BY <1>1, <1>6, <1>7 DEF Calls, y

\* The client's state when a connection attempt is answered.
LEMMA ReadyIs ==
  ASSUME ClientInv, Ready
  PROVE  /\ h \in Stack /\ Half(h) /\ Joined(h) /\ h.state \in Busy /\ h.ai \in 1..h.last
         /\ h.pipe = "none" /\ h.ai \in Addr /\ h.state = "CONNECTING"
<1>1. h \in Stack /\ h.ai \in 1..h.last
  BY DEF ClientInv, OneOpen, Ready, Busy
<1>2. h.ai \in Addr
  BY <1>1, StackNumbers DEF Addr
<1> QED BY <1>1, <1>2 DEF ClientInv, Ready, Busy

(* What AskProxy does: a part of the request is written, or the next       *)
(* address is tried.                                                       *)
Asks(o, r) ==
  \/ /\ Alive /\ Puts(h, 0, r) /\ o.ret = r.ret
     /\ o.stack.phase = IF r.ret = 0 THEN 1 ELSE 0
     /\ <<o.stack.state, o.stack.ai, o.stack.pipe>> = <<r.stack.state, r.stack.ai, r.stack.pipe>>
     /\ o.stack.written = r.stack.written
     /\ wire' = [wire EXCEPT ![h.ai] = @ \o r.wire]
  \/ /\ ~Alive /\ PutFailed(h, r) /\ o.ret = r.ret /\ UNCHANGED wire
     /\ <<o.stack.state, o.stack.ai, o.stack.pipe>> = <<r.stack.state, r.stack.ai, r.stack.pipe>>
     /\ o.stack.written = r.stack.written

LEMMA AskCalls ==
  ASSUME ClientInv, AskProxy
  PROVE  \E o, r : Calls(o) /\ Asks(o, r)
<1>1. /\ h \in Stack /\ Half(h) /\ Joined(h) /\ h.state \in Busy /\ h.ai \in 1..h.last
      /\ h.pipe = "none"
  BY ReadyIs DEF AskProxy
<1>2. CASE Alive /\ \E n \in 1..Size(0) : \E r \in TcpipPut(h, 0, n) :
             /\ Outcome([r EXCEPT !.stack.event = "CONNECT",
                                  !.stack.phase = IF r.ret = 0 THEN 1 ELSE 0])
             /\ wire' = [wire EXCEPT ![h.ai] = @ \o r.wire]
  <2>1. PICK n \in 1..Size(0) : \E r \in TcpipPut(h, 0, n) :
             /\ Outcome([r EXCEPT !.stack.event = "CONNECT",
                                  !.stack.phase = IF r.ret = 0 THEN 1 ELSE 0])
             /\ wire' = [wire EXCEPT ![h.ai] = @ \o r.wire]
    BY <1>2
  <2>2. PICK r \in TcpipPut(h, 0, n) :
             /\ Outcome([r EXCEPT !.stack.event = "CONNECT",
                                  !.stack.phase = IF r.ret = 0 THEN 1 ELSE 0])
             /\ wire' = [wire EXCEPT ![h.ai] = @ \o r.wire]
    BY <2>1
  <2>3. n \in Nat \ {0}
    BY <2>1
  <2>4. Moves(h, r) /\ Puts(h, 0, r)
    BY <1>1, <2>2, <2>3, TcpipPutMoves
  <2> DEFINE phase == IF r.ret = 0 THEN 1 ELSE 0
             o == [r EXCEPT !.stack.event = "CONNECT", !.stack.phase = phase]
             y == r.stack
  <2>5. r = [stack |-> y, ret |-> r.ret, wire |-> r.wire]
    BY <2>4 DEF Puts
  <2>6. o.stack = [y EXCEPT !.event = "CONNECT", !.phase = phase] /\ o.ret = r.ret
    BY <2>5, Zenon
  <2>7. phase \in 0..2 /\ Outcome(o)
    BY <2>2
  <2> HIDE DEF o, phase
  <2>8. Also(r, phase, o)
    BY <2>6 DEF Also
  <2>9. Alike(h, r, phase, o)
    BY <2>4, <2>7, <2>8, MovesAlso
  <2>10. Asks(o, r)
    BY <1>2, <2>2, <2>4, <2>6, <2>9 DEF Asks, Alike, phase
  <2> QED BY <2>7, <2>9, <2>10 DEF Calls, Alike
<1>3. CASE /\ ~Alive /\ \E r \in PutFails(h, 0) : Outcome([r EXCEPT !.stack.event = "CONNECT"])
           /\ UNCHANGED wire
  <2>1. PICK r \in PutFails(h, 0) : Outcome([r EXCEPT !.stack.event = "CONNECT"])
    BY <1>3
  <2>2. Moves(h, r) /\ PutFailed(h, r)
    BY <1>1, <2>1, PutFailsMoves
  <2> DEFINE o == [r EXCEPT !.stack.event = "CONNECT"]
             y == r.stack
  <2>3. r = [stack |-> y, ret |-> r.ret]
    BY <2>2 DEF PutFailed
  <2>4. y \in Stack
    BY <2>2 DEF Moves
  <2>5. o.stack = [y EXCEPT !.event = "CONNECT"] /\ o.ret = r.ret
    BY <2>3, Zenon
  <2>6. Outcome(o) /\ y.phase \in 0..2
    BY <2>1, <2>4 DEF Stack
  <2> HIDE DEF o
  <2>7. Also(r, y.phase, o)
    BY <2>5 DEF Also
  <2>8. Alike(h, r, y.phase, o)
    BY <2>2, <2>6, <2>7, MovesAlso
  <2>9. Asks(o, r)
    BY <1>3, <2>2, <2>5, <2>8 DEF Asks, Alike
  <2> QED BY <2>6, <2>8, <2>9 DEF Calls, Alike
<1> QED BY <1>2, <1>3 DEF AskProxy

(* What a call may do to the stack besides moving it to another address:   *)
(* nothing to the address and to what is written of a message.             *)
Stays(o) ==
  /\ o.stack.ai = h.ai /\ o.stack.pipe = "none"
  /\ o.stack.written = h.written /\ o.stack.towrite = h.towrite

\* An answer of the proxy: the handshake goes on, or the client gives up.
LEMMA ProxyCalls ==
  ASSUME ClientInv, ProxyAnswers
  PROVE  \E o : Calls(o) /\ (o.ret = -1 \/ (Alive /\ Stays(o) /\ o.stack.phase = 2
                                            /\ o.stack.state = "CONNECTING"))
<1>1. /\ h \in Stack /\ Half(h) /\ Joined(h) /\ h.state \in Busy /\ h.ai \in 1..h.last
      /\ h.pipe = "none" /\ h.state = "CONNECTING"
  BY ReadyIs DEF ProxyAnswers
<1>2. CASE Alive /\ Outcome([stack |-> [h EXCEPT !.phase = 2], ret |-> 1])
  <2> DEFINE x == [h EXCEPT !.phase = 2]
             o == [stack |-> x, ret |-> 1]
  <2>1. o.stack = x /\ o.ret = 1 /\ Outcome(o)
    BY <1>2
  <2>2. /\ x \in Stack /\ x.phase = 2 /\ x.state = h.state /\ x.ai = h.ai /\ x.pipe = h.pipe
        /\ x.written = h.written /\ x.towrite = h.towrite
        /\ <<x.tls, x.unix, x.proxy, x.last>> = <<h.tls, h.unix, h.proxy, h.last>>
    BY <1>1 DEF Stack
  <2> HIDE DEF x, o
  <2>3. Half(x) /\ Joined(x) /\ h.ai <= h.ai
    BY <1>1, <2>2, StackNumbers DEF Half, Joined
  <2>4. Moves(h, o)
    BY <1>1, <2>1, <2>2, <2>3 DEF Moves
  <2> QED BY <1>1, <1>2, <2>1, <2>2, <2>4 DEF Calls, Stays
<1>3. CASE Outcome(Fails(h, "CSDENY"))
  <2>1. "CSDENY" \in Codes
    BY DEF Codes
  <2>2. Moves(h, Fails(h, "CSDENY")) /\ Fails(h, "CSDENY").ret = -1
    BY <1>1, <2>1, FailsMoves
  <2> QED BY <1>3, <2>2 DEF Calls
<1> QED BY <1>2, <1>3 DEF ProxyAnswers

(* The end of tcpip_rcvconnect: the stack is connected, a TLS handshake    *)
(* goes on, or it fails and the next address is tried.                     *)
Receives(o) ==
  \/ /\ o.stack.state = "DATAXFER" /\ Stays(o) /\ o.stack.phase = h.phase /\ app' = 1
  \/ /\ o.stack.state = "CONNECTING" /\ Stays(o) /\ o.stack.phase = h.phase /\ UNCHANGED app
  \/ Tries(h, h.ai + 1, o) /\ UNCHANGED app

LEMMA RcvCalls ==
  ASSUME ClientInv, RcvConnect
  PROVE  \E o : Calls(o) /\ Receives(o)
<1>1. /\ h \in Stack /\ Half(h) /\ Joined(h) /\ h.state \in Busy /\ h.ai \in 1..h.last
      /\ h.pipe = "none" /\ h.state = "CONNECTING"
  BY ReadyIs DEF RcvConnect
<1>2. h.ai <= h.ai
  BY <1>1, StackNumbers
<1>3. CASE Outcome(Connected([h EXCEPT !.session = h.tls])) /\ app' = 1
  <2> DEFINE x == [h EXCEPT !.session = h.tls]
             y == [x EXCEPT !.event = "DATA", !.state = "DATAXFER"]
             o == Connected(x)
  <2>1. o.stack = y /\ o.ret = 0 /\ Outcome(o)
    BY <1>3 DEF Connected
  <2>2. x \in Stack /\ x.ai = h.ai /\ x.pipe = h.pipe /\ x.phase = h.phase /\ x.written = h.written
        /\ x.towrite = h.towrite /\ x.tls = h.tls /\ x.unix = h.unix /\ x.proxy = h.proxy
        /\ x.last = h.last
    BY <1>1 DEF Stack
  <2> HIDE DEF x
  <2>3. /\ y \in Stack /\ y.state = "DATAXFER" /\ y.ai = h.ai /\ y.pipe = h.pipe /\ y.phase = h.phase
        /\ y.written = h.written /\ y.towrite = h.towrite
        /\ y.tls = h.tls /\ y.unix = h.unix /\ y.proxy = h.proxy /\ y.last = h.last
    BY <2>2 DEF Stack
  <2> HIDE DEF y, o
  <2>4. Half(y) /\ Joined(y)
    BY <1>1, <2>3 DEF Half, Joined
  <2>5. Moves(h, o)
    BY <1>1, <1>2, <2>1, <2>3, <2>4 DEF Moves, Busy
  <2>6. Receives(o)
    BY <1>1, <1>3, <2>1, <2>3 DEF Receives, Stays
  <2> QED BY <2>1, <2>5, <2>6 DEF Calls
<1>4. CASE /\ \E want \in {"READ", "WRITE"} : Outcome([stack |-> [h EXCEPT !.io = {want}], ret |-> 1])
           /\ UNCHANGED app
  <2>1. PICK want \in {"READ", "WRITE"} : Outcome([stack |-> [h EXCEPT !.io = {want}], ret |-> 1])
    BY <1>4
  <2> DEFINE x == [h EXCEPT !.io = {want}]
             o == [stack |-> x, ret |-> 1]
  <2>2. o.stack = x /\ o.ret = 1 /\ Outcome(o)
    BY <2>1
  <2>3. /\ x \in Stack /\ x.state = h.state /\ x.ai = h.ai /\ x.pipe = h.pipe
        /\ x.written = h.written /\ x.towrite = h.towrite /\ x.phase = h.phase
        /\ <<x.tls, x.unix, x.proxy, x.last>> = <<h.tls, h.unix, h.proxy, h.last>>
    BY <1>1 DEF Stack
  <2> HIDE DEF x, o
  <2>4. Half(x) /\ Joined(x)
    BY <1>1, <2>3 DEF Half, Joined
  <2>5. Moves(h, o)
    BY <1>1, <1>2, <2>2, <2>3, <2>4 DEF Moves
  <2>6. Receives(o)
    BY <1>1, <1>4, <2>2, <2>3 DEF Receives, Stays
  <2> QED BY <2>2, <2>5, <2>6 DEF Calls
<1>5. CASE (\E o \in ContConnect(h) : Outcome(o)) /\ UNCHANGED app
  <2>1. PICK o \in ContConnect(h) : Outcome(o)
    BY <1>5
  <2>2. Moves(h, o) /\ Tries(h, h.ai + 1, o)
    BY <1>1, <2>1, ContConnectMoves
  <2> QED BY <1>5, <2>1, <2>2 DEF Calls, Receives
<1> QED BY <1>3, <1>4, <1>5 DEF RcvConnect

(* What Put does: a part of the message is written, or the next address is *)
(* tried.                                                                  *)
Sends(o) ==
  \/ /\ Alive /\ Puts(h, app, o)
     /\ wire' = [wire EXCEPT ![h.ai] = @ \o o.wire]
     /\ app' = IF o.ret = 0 THEN app + 1 ELSE app
  \/ ~Alive /\ PutFailed(h, o) /\ UNCHANGED <<wire, app>>

\* The client's state while it writes.
LEMMA WritingIs ==
  ASSUME ClientInv, h.state = "DATAXFER"
  PROVE  /\ h \in Stack /\ Half(h) /\ Joined(h) /\ h.state \in Busy /\ h.ai \in 1..h.last
         /\ h.pipe = "none" /\ h.ai \in Addr
<1>1. h \in Stack /\ h.ai \in 1..h.last
  BY DEF ClientInv, OneOpen, Busy
<1>2. h.ai \in Addr
  BY <1>1, StackNumbers DEF Addr
<1>3. h.pipe = "none"
  BY DEF ClientInv, Joined
<1> QED BY <1>1, <1>2, <1>3 DEF ClientInv, Busy

LEMMA PutCalls ==
  ASSUME ClientInv, Put
  PROVE  \E o : Calls(o) /\ Sends(o)
<1>1. /\ h \in Stack /\ Half(h) /\ Joined(h) /\ h.state \in Busy /\ h.ai \in 1..h.last
      /\ h.pipe = "none"
  BY WritingIs DEF Put
<1>2. CASE /\ Alive
           /\ \E n \in 1..Size(app) : \E o \in TcpipPut(h, app, n) :
                /\ Outcome(o)
                /\ wire' = [wire EXCEPT ![h.ai] = @ \o o.wire]
                /\ app' = IF o.ret = 0 THEN app + 1 ELSE app
  <2>1. PICK n \in 1..Size(app) : \E o \in TcpipPut(h, app, n) :
                /\ Outcome(o)
                /\ wire' = [wire EXCEPT ![h.ai] = @ \o o.wire]
                /\ app' = IF o.ret = 0 THEN app + 1 ELSE app
    BY <1>2
  <2>2. PICK o \in TcpipPut(h, app, n) :
                /\ Outcome(o)
                /\ wire' = [wire EXCEPT ![h.ai] = @ \o o.wire]
                /\ app' = IF o.ret = 0 THEN app + 1 ELSE app
    BY <2>1
  <2>3. n \in Nat \ {0}
    BY <2>1
  <2>4. Moves(h, o) /\ Puts(h, app, o)
    BY <1>1, <2>2, <2>3, TcpipPutMoves
  <2> QED BY <1>2, <2>2, <2>4 DEF Calls, Sends
<1>3. CASE ~Alive /\ (\E o \in PutFails(h, app) : Outcome(o)) /\ UNCHANGED <<wire, app>>
  <2>1. PICK o \in PutFails(h, app) : Outcome(o)
    BY <1>3
  <2>2. Moves(h, o) /\ PutFailed(h, o)
    BY <1>1, <2>1, PutFailsMoves
  <2> QED BY <1>3, <2>1, <2>2 DEF Calls, Sends
<1> QED BY <1>2, <1>3 DEF Put

LEMMA CloseCalls ==
  ASSUME ClientInv, Close
  PROVE  \E o : Calls(o) /\ o.ret = -1
<1> DEFINE x == [h EXCEPT !.io = {}]
           o == [stack |-> x, ret |-> -1]
<1>1. h \in Stack /\ Half(h)
  BY DEF ClientInv
<1>2. o.stack = x /\ o.ret = -1 /\ Outcome(o)
  BY DEF Close
<1>3. /\ x \in Stack /\ x.written = h.written /\ x.towrite = h.towrite
      /\ <<x.tls, x.unix, x.proxy, x.last>> = <<h.tls, h.unix, h.proxy, h.last>>
  BY <1>1 DEF Stack
<1> HIDE DEF x, o
<1>4. Half(x)
  BY <1>1, <1>3 DEF Half
<1>5. Moves(h, o)
  BY <1>2, <1>3, <1>4 DEF Moves
<1> QED BY <1>2, <1>5 DEF Calls

\* More bytes on the wire are still bytes.
LEMMA WireGrows ==
  ASSUME wire \in [Addr -> Seq(Byte)], NEW a \in Addr, NEW b \in Seq(Byte),
         wire' = [wire EXCEPT ![a] = @ \o b]
  PROVE  /\ wire' \in [Addr -> Seq(Byte)] /\ wire'[a] = wire[a] \o b
         /\ \A c \in Addr : c # a => wire'[c] = wire[c]
<1> DEFINE w == wire[a] \o b
<1>1. w \in Seq(Byte)
  BY ConcatProperties
<1>2. wire' = [wire EXCEPT ![a] = w]
  OBVIOUS
<1>3. wire[a] \o b = w
  OBVIOUS
<1> HIDE DEF w
<1> QED BY <1>1, <1>2, <1>3

\* The calls at the client keep the invariant.
LEMMA ClientKeeps ==
  ASSUME TInv, Client \/ Close \/ ResolverThread
  PROVE  TInv'
<1>1. ClientInv /\ ServersInv
  BY DEF TInv
<1>2. ClientInv'
  <2>1. CASE Straddr \/ ResolverThread
    BY <1>1, <2>1, ResolverKeeps
  <2>2. CASE Connect
    <3>1. PICK o : Calls(o)
      BY <1>1, <2>2, ConnectCalls
    <3> QED BY <1>1, <2>2, <3>1, OutcomeKeeps DEF Calls, Connect
  <2>3. CASE JoinResolver
    <3>1. PICK o : Calls(o)
      BY <1>1, <2>3, JoinCalls
    <3> QED BY <1>1, <2>3, <3>1, OutcomeKeeps DEF Calls, JoinResolver, Busy
  <2>4. CASE AskProxy
    <3>1. PICK o, r : Calls(o) /\ Asks(o, r)
      BY <1>1, <2>4, AskCalls
    <3> QED BY <1>1, <2>4, <3>1, OutcomeKeeps DEF Calls, AskProxy, Ready, Busy
  <2>5. CASE ProxyAnswers
    <3>1. PICK o : Calls(o)
      BY <1>1, <2>5, ProxyCalls
    <3> QED BY <1>1, <2>5, <3>1, OutcomeKeeps DEF Calls, ProxyAnswers, Ready, Busy
  <2>6. CASE RcvConnect
    <3>1. PICK o : Calls(o)
      BY <1>1, <2>6, RcvCalls
    <3> QED BY <1>1, <2>6, <3>1, OutcomeKeeps DEF Calls, RcvConnect, Ready, Busy
  <2>7. CASE Put
    <3>1. PICK o : Calls(o)
      BY <1>1, <2>7, PutCalls
    <3> QED BY <1>1, <2>7, <3>1, OutcomeKeeps DEF Calls, Put, Busy
  <2>8. CASE Close
    <3>1. PICK o : Calls(o)
      BY <1>1, <2>8, CloseCalls
    <3> QED BY <1>1, <2>8, <3>1, OutcomeKeeps DEF Calls, Close, Busy
  <2> QED BY <2>1, <2>2, <2>3, <2>4, <2>5, <2>6, <2>7, <2>8 DEF Client
<1>3. srv' = srv /\ got' = got
  BY DEF Client, Straddr, Connect, JoinResolver, AskProxy, ProxyAnswers, RcvConnect, Put, Close,
         ResolverThread
<1>4. wire' \in [Addr -> Seq(Byte)]
  <2>1. CASE AskProxy
    <3>1. PICK o, r : Asks(o, r)
      BY <1>1, <2>1, AskCalls
    <3>2. CASE Puts(h, 0, r) /\ wire' = [wire EXCEPT ![h.ai] = @ \o r.wire]
      <4>1. 0 \in 0..Messages
        BY BoundsAssumption
      <4>2. r.wire \in Seq(Byte)
        BY <3>2, <4>1, PutBytes
      <4>3. h.ai \in Addr
        BY <1>1, <2>1, ReadyIs DEF AskProxy
      <4> QED BY <1>1, <3>2, <4>2, <4>3, WireGrows DEF ServersInv
    <3>3. CASE wire' = wire
      BY <1>1, <3>3 DEF ServersInv
    <3> QED BY <3>1, <3>2, <3>3 DEF Asks
  <2>2. CASE Put
    <3>1. PICK o : Sends(o)
      BY <1>1, <2>2, PutCalls
    <3>2. CASE Puts(h, app, o) /\ wire' = [wire EXCEPT ![h.ai] = @ \o o.wire]
      <4>1. app \in 0..Messages
        BY <1>1, <2>2, BoundsAssumption DEF Put, ServersInv
      <4>2. o.wire \in Seq(Byte)
        BY <3>2, <4>1, PutBytes
      <4>3. h.ai \in Addr
        BY <1>1, <2>2, WritingIs DEF Put
      <4> QED BY <1>1, <3>2, <4>2, <4>3, WireGrows DEF ServersInv
    <3>3. CASE wire' = wire
      BY <1>1, <3>3 DEF ServersInv
    <3> QED BY <3>1, <3>2, <3>3 DEF Sends
  <2>3. CASE ~AskProxy /\ ~Put
    <3>1. wire' = wire
      BY <2>3 DEF Client, Straddr, Connect, JoinResolver, ProxyAnswers, RcvConnect, Close,
                  ResolverThread
    <3> QED BY <1>1, <3>1 DEF ServersInv
  <2> QED BY <2>1, <2>2, <2>3
<1>5. app' \in 1..(Messages + 1)
  <2>1. CASE Put
    <3>1. PICK o : Sends(o)
      BY <1>1, <2>1, PutCalls
    <3>2. app' = app \/ app' = app + 1
      BY <3>1 DEF Sends
    <3>3. app \in 1..(Messages + 1) /\ app <= Messages
      BY <1>1, <2>1 DEF Put, ServersInv
    <3> QED BY <3>2, <3>3, BoundsAssumption
  <2>2. CASE ~Put
    <3>1. app' = app \/ app' = 1
      BY <2>2 DEF Client, Straddr, Connect, JoinResolver, AskProxy, ProxyAnswers, RcvConnect,
                  Close, ResolverThread
    <3> QED BY <1>1, <3>1, BoundsAssumption DEF ServersInv
  <2> QED BY <2>1, <2>2
<1>6. ServersInv'
  BY <1>1, <1>3, <1>4, <1>5 DEF ServersInv
<1> QED BY <1>2, <1>6 DEF TInv

\* So does what happens at and between the servers.
LEMMA LinkKeeps ==
  ASSUME TInv, NEW a \in Addr, Answers(a) \/ Reset(a)
  PROVE  TInv'
<1>1. ClientInv /\ ServersInv
  BY DEF TInv
<1>2. h' = h /\ app' = app /\ srv' = srv /\ got' = got
  BY DEF Answers, Reset
<1>3. link' \in Links /\ \E s \in {"up", "refused", "reset"} : link' = [link EXCEPT ![a] = s]
  <2>1. link \in Links
    BY <1>1 DEF ClientInv
  <2>2. \E s \in {"up", "refused", "reset"} : link' = [link EXCEPT ![a] = s]
    BY DEF Answers, Reset
  <2> QED BY <2>1, <2>2 DEF Links
<1>4. link[a] \in Open
  BY DEF Answers, Reset, Open
<1>5. OneOpen'
  <2>1. OneOpen /\ link \in Links
    BY <1>1 DEF ClientInv
  <2>2. h.state # "UNBND" /\ h.state # "CLOSED"
    BY <1>4, <2>1 DEF OneOpen, Open
  <2>3. h.state \in Busy => a = h.ai
    BY <1>4, <2>1 DEF OneOpen
  <2>4. \A c \in Addr : c # a => link'[c] = link[c]
    BY <1>3, <2>1 DEF Links
  <2>5. h.state \in Busy => h.ai \in Int
    BY <1>1, StackNumbers DEF ClientInv
  <2>6. ~(a > a)
    BY BoundsAssumption DEF Addr
  <2> QED BY <1>2, <2>1, <2>2, <2>3, <2>4, <2>6 DEF OneOpen
<1>6. ClientInv'
  BY <1>1, <1>2, <1>3, <1>5 DEF ClientInv, Half, Joined
<1>7. wire' \in [Addr -> Seq(Byte)]
  <2>1. <<>> \in Seq(Byte)
    BY SeqClosed
  <2>2. wire' = wire \/ wire' = [wire EXCEPT ![a] = <<>>]
    BY DEF Answers, Reset
  <2> QED BY <1>1, <2>1, <2>2 DEF ServersInv
<1>8. ServersInv'
  BY <1>1, <1>2, <1>7 DEF ServersInv
<1> QED BY <1>6, <1>8 DEF TInv

(* The reader s whose call of cs_get had the result o, and is x then: it is *)
(* closed after the last byte and after an error.                          *)
Read(s, o, x) ==
  /\ x.listener = s.listener /\ x.size = o.stack.size /\ x.alt = o.stack.alt
  /\ x.altsize = o.stack.altsize /\ x.over = FALSE
  /\ x.state = IF o.ret \in {"eof", "CSBUFSIZE", "CSPROTERR"} THEN "closed" ELSE s.state
  /\ x.err = IF o.ret \in {"CSBUFSIZE", "CSPROTERR"} THEN o.ret ELSE s.err

(* What Get does at server a.                                              *)
Reads(a, o) ==
  /\ GetSafe(srv[a], o) /\ GetTakes(srv[a].alt \o wire[a], o)
  /\ \E x \in Reader : srv' = [srv EXCEPT ![a] = x] /\ Read(srv[a], o, x)
  /\ wire' = [wire EXCEPT ![a] = o.wire]
  /\ got' = [got EXCEPT ![a] = IF o.ret = "message" THEN Append(@, o.msg) ELSE @]

LEMMA GetReads ==
  ASSUME TInv, NEW a \in Addr, Get(a)
  PROVE  \E o : Reads(a, o)
<1>1. /\ srv \in [Addr -> Reader] /\ srv[a] \in Reader /\ Roomy(srv[a]) /\ srv[a].over = FALSE
      /\ wire \in [Addr -> Seq(Byte)] /\ got \in [Addr -> Seq(0..Messages)]
  BY DEF TInv, ServersInv
<1> DEFINE eof == link[a] \in {"fin", "reset"}
<1>2. PICK k \in 0..Len(wire[a]) :
        /\ Turns(srv[a], wire[a], k)
        /\ \E o \in {TcpipGet(srv[a], wire[a], eof, k)} :
             /\ srv' = [srv EXCEPT ![a] = [o.stack EXCEPT !.over = @ \/ o.over,
                     !.state = IF o.ret \in {"eof", "CSBUFSIZE", "CSPROTERR"}
                               THEN "closed" ELSE @,
                     !.err = IF o.ret \in {"CSBUFSIZE", "CSPROTERR"} THEN o.ret ELSE @]]
             /\ wire' = [wire EXCEPT ![a] = o.wire]
             /\ got' = [got EXCEPT ![a] = IF o.ret = "message" THEN Append(@, o.msg) ELSE @]
  BY DEF Get
<1> DEFINE o == TcpipGet(srv[a], wire[a], eof, k)
           state == IF o.ret \in {"eof", "CSBUFSIZE", "CSPROTERR"} THEN "closed" ELSE o.stack.state
           err == IF o.ret \in {"CSBUFSIZE", "CSPROTERR"} THEN o.ret ELSE o.stack.err
           over == o.stack.over \/ o.over
           x == [o.stack EXCEPT !.over = over, !.state = state, !.err = err]
<1>3. GetSafe(srv[a], o) /\ GetTakes(srv[a].alt \o wire[a], o)
  <2>1. wire[a] \in Seq(Byte) /\ eof \in BOOLEAN /\ k \in Nat
    BY <1>1, LenProperties
  <2> HIDE DEF eof
  <2> QED BY <1>1, <1>2, <2>1, GetSound
<1>4. /\ srv' = [srv EXCEPT ![a] = x] /\ wire' = [wire EXCEPT ![a] = o.wire]
      /\ got' = [got EXCEPT ![a] = IF o.ret = "message" THEN Append(@, o.msg) ELSE @]
  <2> HIDE DEF o
  <2>1. \E r \in {o} :
             /\ srv' = [srv EXCEPT ![a] = [r.stack EXCEPT !.over = @ \/ r.over,
                     !.state = IF r.ret \in {"eof", "CSBUFSIZE", "CSPROTERR"}
                               THEN "closed" ELSE @,
                     !.err = IF r.ret \in {"CSBUFSIZE", "CSPROTERR"} THEN r.ret ELSE @]]
             /\ wire' = [wire EXCEPT ![a] = r.wire]
             /\ got' = [got EXCEPT ![a] = IF r.ret = "message" THEN Append(@, r.msg) ELSE @]
    BY <1>2 DEF o
  <2>2. /\ srv' = [srv EXCEPT ![a] = [o.stack EXCEPT !.over = @ \/ o.over,
                     !.state = IF o.ret \in {"eof", "CSBUFSIZE", "CSPROTERR"}
                               THEN "closed" ELSE @,
                     !.err = IF o.ret \in {"CSBUFSIZE", "CSPROTERR"} THEN o.ret ELSE @]]
        /\ wire' = [wire EXCEPT ![a] = o.wire]
        /\ got' = [got EXCEPT ![a] = IF o.ret = "message" THEN Append(@, o.msg) ELSE @]
    BY <2>1
  <2>3. x = [o.stack EXCEPT !.over = @ \/ o.over,
                     !.state = IF o.ret \in {"eof", "CSBUFSIZE", "CSPROTERR"}
                               THEN "closed" ELSE @,
                     !.err = IF o.ret \in {"CSBUFSIZE", "CSPROTERR"} THEN o.ret ELSE @]
    BY <1>3 DEF GetSafe, Reader
  <2> QED BY <2>2, <2>3
<1> HIDE DEF o
<1>5. /\ o.stack \in Reader /\ o.over = FALSE /\ o.stack.over = FALSE
      /\ o.stack.listener = srv[a].listener /\ o.stack.state = srv[a].state
      /\ o.stack.err = srv[a].err
      /\ o.ret \in {"CSBUFSIZE", "eof", "again", "CSPROTERR", "message"}
  BY <1>1, <1>3 DEF GetSafe
<1>6. /\ state \in {"none", "ACCEPT", "DATAXFER", "closed"}
      /\ err \in {NULL, "CSBUFSIZE", "CSPROTERR"} /\ over = FALSE
      /\ state = IF o.ret \in {"eof", "CSBUFSIZE", "CSPROTERR"} THEN "closed" ELSE srv[a].state
      /\ err = IF o.ret \in {"CSBUFSIZE", "CSPROTERR"} THEN o.ret ELSE srv[a].err
  BY <1>1, <1>5 DEF Reader
<1> HIDE DEF state, err, over
<1>7. /\ x \in Reader /\ x.size = o.stack.size /\ x.alt = o.stack.alt
      /\ x.altsize = o.stack.altsize /\ x.over = over /\ x.err = err /\ x.state = state
      /\ x.listener = o.stack.listener
  BY <1>5, <1>6 DEF Reader
<1> HIDE DEF x
<1>8. Read(srv[a], o, x)
  BY <1>5, <1>6, <1>7 DEF Read
<1> QED BY <1>3, <1>4, <1>7, <1>8 DEF Reads

LEMMA ServerKeeps ==
  ASSUME TInv, NEW a \in Addr, Server(a)
  PROVE  TInv'
<1>1. ClientInv /\ ServersInv
  BY DEF TInv
<1>2. h' = h /\ app' = app /\ link' = link
  BY DEF Server, Listen, Accept, Get
<1>3. ClientInv'
  BY <1>1, <1>2 DEF ClientInv, Half, Joined, OneOpen
<1>4. srv \in [Addr -> Reader] /\ srv[a] \in Reader /\ Roomy(srv[a]) /\ srv[a].over = FALSE
      /\ (Fits => srv[a].err # "CSBUFSIZE")
      /\ wire \in [Addr -> Seq(Byte)] /\ got \in [Addr -> Seq(0..Messages)]
  BY <1>1 DEF ServersInv
(* A server whose new stack is x.                                          *)
<1> DEFINE Fine(x) == x \in Reader /\ Roomy(x) /\ x.over = FALSE /\ (Fits => x.err # "CSBUFSIZE")
<1>5. ASSUME NEW x, Fine(x), srv' = [srv EXCEPT ![a] = x],
             wire' \in [Addr -> Seq(Byte)], got' \in [Addr -> Seq(0..Messages)]
      PROVE  TInv'
  <2>1. ServersInv'
    BY <1>1, <1>2, <1>5 DEF ServersInv
  <2> QED BY <1>3, <2>1 DEF TInv
<1>6. CASE Listen(a)
  <2> DEFINE x == [srv[a] EXCEPT !.listener = "INCON"]
  <2>1. srv' = [srv EXCEPT ![a] = x] /\ wire' = wire /\ got' = got
    BY <1>4, <1>6 DEF Listen
  <2>2. /\ x \in Reader /\ x.size = srv[a].size /\ x.alt = srv[a].alt /\ x.altsize = srv[a].altsize
        /\ x.over = srv[a].over /\ x.err = srv[a].err
    BY <1>4 DEF Reader
  <2> HIDE DEF x
  <2>3. Fine(x)
    BY <1>4, <2>2 DEF Roomy
  <2> QED BY <1>4, <1>5, <2>1, <2>3
<1>7. CASE Accept(a)
  <2>1. PICK s \in {"ACCEPT", "DATAXFER", "closed"} :
          srv' = [srv EXCEPT ![a].listener = "IDLE", ![a].state = s]
    BY <1>7 DEF Accept
  <2> DEFINE x == [srv[a] EXCEPT !.listener = "IDLE", !.state = s]
  <2>2. srv' = [srv EXCEPT ![a] = x] /\ wire' = wire /\ got' = got
    BY <1>4, <1>7, <2>1 DEF Accept
  <2>3. /\ x \in Reader /\ x.size = srv[a].size /\ x.alt = srv[a].alt /\ x.altsize = srv[a].altsize
        /\ x.over = srv[a].over /\ x.err = srv[a].err
    BY <1>4 DEF Reader
  <2> HIDE DEF x
  <2>4. Fine(x)
    BY <1>4, <2>3 DEF Roomy
  <2> QED BY <1>4, <1>5, <2>2, <2>4
<1>8. CASE Get(a)
  <2>1. PICK o : Reads(a, o)
    BY <1>8, GetReads
  <2>2. PICK x \in Reader : srv' = [srv EXCEPT ![a] = x] /\ Read(srv[a], o, x)
    BY <2>1 DEF Reads
  <2>3. /\ Roomy(o.stack) /\ o.wire \in Seq(Byte) /\ (Fits => o.ret # "CSBUFSIZE")
        /\ (o.ret = "message" => o.msg \in 0..Messages)
    BY <2>1 DEF Reads, GetSafe
  <2>4. Fine(x)
    BY <1>4, <2>2, <2>3 DEF Read, Roomy
  <2>5. got' \in [Addr -> Seq(0..Messages)]
    <3>1. got[a] \in Seq(0..Messages)
      BY <1>4
    <3>2. o.ret = "message" => Append(got[a], o.msg) \in Seq(0..Messages)
      BY <2>3, <3>1, AppendProperties
    <3> QED BY <1>4, <2>1, <3>1, <3>2 DEF Reads
  <2>6. wire' \in [Addr -> Seq(Byte)]
    BY <1>4, <2>1, <2>3 DEF Reads
  <2> HIDE DEF Fine
  <2> QED BY <1>5, <2>2, <2>4, <2>5, <2>6
<1> QED BY <1>6, <1>7, <1>8 DEF Server

\* The invariant holds in every state of every behaviour.
LEMMA TransportInvariant == Spec => []TInv
<1>1. TInv /\ [Next]_vars => TInv'
  <2>1. SUFFICES ASSUME TInv, [Next]_vars PROVE TInv'
    OBVIOUS
  <2>2. CASE UNCHANGED vars
    BY <2>1, <2>2 DEF vars, TInv, ClientInv, ServersInv, Half, Joined, OneOpen
  <2>3. CASE Client \/ Close \/ ResolverThread
    BY <2>1, <2>3, ClientKeeps
  <2>4. ASSUME NEW a \in Addr, Answers(a) \/ Reset(a) \/ Server(a) PROVE TInv'
    BY <2>1, <2>4, LinkKeeps, ServerKeeps
  <2> QED BY <2>1, <2>2, <2>3, <2>4 DEF Next
<1> QED BY <1>1, TInvInit, PTL DEF Spec

\* What the invariant says of the types.
LEMMA TInvTypes == ASSUME TInv PROVE TypeOK
<1>1. h \in Stack /\ link \in Links /\ ServersInv
  BY DEF TInv, ClientInv
<1>2. /\ h.state \in {"UNBND", "CONNECTING", "DATAXFER", "CLOSED"}
      /\ h.event \in {"NONE", "CONNECT", "DATA"} /\ h.io \subseteq {"READ", "WRITE"}
      /\ h.ai \in 0..(Addresses + 1) /\ h.phase \in 0..2 /\ h.session \in BOOLEAN
      /\ h.towrite \in Span /\ h.written \in Span
  BY <1>1 DEF Stack
<1>3. /\ app \in 1..(Messages + 1) /\ wire \in [Addr -> Seq(Byte)]
      /\ got \in [Addr -> Seq(0..Messages)] /\ srv \in [Addr -> Reader]
  BY <1>1 DEF ServersInv
<1>4. ASSUME NEW a \in Addr
      PROVE  /\ srv[a].listener \in {"IDLE", "INCON"}
             /\ srv[a].state \in {"none", "ACCEPT", "DATAXFER", "closed"}
             /\ srv[a].altsize \in Nat /\ srv[a].size \in Nat
             /\ wire[a] \in Seq(Byte) /\ got[a] \in Seq(0..Messages)
  <2>1. srv[a] \in Reader
    BY <1>3
  <2> QED BY <1>3, <2>1 DEF Reader
<1> QED BY <1>1, <1>2, <1>3, <1>4 DEF TypeOK, Links, Byte, Span

(* However the bytes come and whatever is refused, reset or closed, a      *)
(* server receives no byte past the end of its buffer and keeps what it    *)
(* puts aside within altbuf, it never refuses a message that leaves room   *)
(* for a chunk below max_recv_bytes, and the client never has two sockets  *)
(* (src/src/tcpip.c:684, :1248, :1250).                                    *)
THEOREM TransportSafeHolds == Spec => []TransportSafe
<1>1. TInv => TransportSafe
  <2>1. SUFFICES ASSUME TInv PROVE TransportSafe
    OBVIOUS
  <2>2. ClientInv /\ ServersInv
    BY <2>1 DEF TInv
  <2>3. BufferSafe
    BY <2>2 DEF ServersInv, Roomy, BufferSafe
  <2>4. FitsIsTaken
    BY <2>2 DEF ServersInv, Fits, Longest, FitsIsTaken
  <2>5. OneSocket
    <3> DEFINE S == {a \in Addr : link[a] \in {"syn", "up", "refused", "reset"}}
    <3>1. h.state \in {"UNBND", "CLOSED"} \cup Busy
      BY <2>2 DEF ClientInv, Stack, Busy
    <3>2. S \subseteq {h.ai}
      <4>1. SUFFICES ASSUME NEW a \in Addr, link[a] \in Open PROVE a = h.ai
        BY DEF Open
      <4> QED BY <2>2, <3>1, <4>1 DEF ClientInv, OneOpen, Open
    <3>3. IsFiniteSet({h.ai}) /\ Cardinality({h.ai}) = 1
      BY FS_Singleton
    <3>4. IsFiniteSet(S) /\ Cardinality(S) <= Cardinality({h.ai})
      BY <3>2, <3>3, FS_Subset
    <3> QED BY <3>3, <3>4 DEF OneSocket
  <2>6. TypeOK
    BY <2>1, TInvTypes
  <2> QED BY <2>3, <2>4, <2>5, <2>6 DEF TransportSafe
<1> QED BY <1>1, TransportInvariant, PTL

-----------------------------------------------------------------------------
(***************************************************************************)
(* The order of the messages                                               *)
(***************************************************************************)
(* The byte after byte b: the next of its message, or the first of the     *)
(* message that comes next.                                                *)
After(b) == IF b[2] < Size(b[1]) THEN <<b[1], b[2] + 1>> ELSE <<b[1] + 1, 1>>

(* The bytes of q follow one another, from byte x on.                      *)
Follows(q, x) == \A i \in 1..Len(q) : q[i] = IF i = 1 THEN x ELSE After(q[i - 1])

(* The byte that is to come after those of q, which begin with x.          *)
End(q, x) == IF q = <<>> THEN x ELSE After(q[Len(q)])

\* Bytes that follow one another, and those that follow them.
LEMMA FollowsJoin ==
  ASSUME NEW q \in Seq(Byte), NEW r \in Seq(Byte), NEW x, Follows(q, x), Follows(r, End(q, x))
  PROVE  Follows(q \o r, x) /\ End(q \o r, x) = End(r, End(q, x))
<1> DEFINE n == Len(q)
           m == Len(r)
           z == q \o r
           y == End(q, x)
<1>1. n \in Nat /\ m \in Nat
  BY LenProperties
<1>2. /\ z \in Seq(Byte) /\ Len(z) = n + m
      /\ \A i \in 1..(n + m) : z[i] = IF i <= n THEN q[i] ELSE r[i - n]
  BY ConcatProperties
<1>3. y = IF n = 0 THEN x ELSE After(q[n])
  <2>1. q = <<>> <=> n = 0
    BY EmptySeq
  <2> QED BY <2>1 DEF End
<1>4. \A i \in 1..n : q[i] = IF i = 1 THEN x ELSE After(q[i - 1])
  BY DEF Follows
<1>5. \A i \in 1..m : r[i] = IF i = 1 THEN y ELSE After(r[i - 1])
  BY DEF Follows
<1> HIDE DEF z, y
<1>6. ASSUME NEW i \in 1..(n + m)
      PROVE  z[i] = IF i = 1 THEN x ELSE After(z[i - 1])
  <2>1. CASE i <= n
    <3>1. i \in 1..n /\ z[i] = q[i]
      BY <1>1, <1>2, <2>1
    <3>2. CASE i = 1
      BY <1>4, <3>1, <3>2
    <3>3. CASE i # 1
      <4>1. i - 1 \in 1..(n + m) /\ i - 1 <= n
        BY <1>1, <2>1, <3>3
      <4>2. z[i - 1] = q[i - 1]
        BY <1>2, <4>1
      <4> QED BY <1>4, <3>1, <3>3, <4>2
    <3> QED BY <3>2, <3>3
  <2>2. CASE ~(i <= n)
    <3> DEFINE j == i - n
    <3>1. j \in 1..m
      BY <1>1, <2>2
    <3>2. z[i] = r[j]
      BY <1>2, <2>2
    <3>3. CASE j = 1
      <4>1. r[j] = y /\ i - 1 = n
        BY <1>1, <1>5, <3>1, <3>3
      <4>2. CASE n = 0
        BY <1>1, <1>3, <3>2, <3>3, <4>1, <4>2
      <4>3. CASE n # 0
        <5>1. n \in 1..(n + m) /\ n <= n /\ i # 1
          BY <1>1, <4>1, <4>3
        <5>2. z[n] = q[n]
          BY <1>2, <5>1
        <5> QED BY <1>3, <3>2, <4>1, <4>3, <5>1, <5>2
      <4> QED BY <4>2, <4>3
    <3>4. CASE j # 1
      <4>1. i # 1 /\ i - 1 \in 1..(n + m) /\ ~(i - 1 <= n) /\ (i - 1) - n = j - 1
        BY <1>1, <3>1, <3>4
      <4>2. z[i - 1] = r[j - 1]
        BY <1>2, <4>1
      <4>3. r[j] = After(r[j - 1])
        BY <1>5, <3>1, <3>4
      <4> QED BY <3>2, <4>1, <4>2, <4>3
    <3> QED BY <3>3, <3>4
  <2> QED BY <2>1, <2>2
<1>7. Follows(z, x)
  BY <1>2, <1>6 DEF Follows
<1>8. End(z, x) = End(r, y)
  <2>1. CASE m = 0
    <3>1. r = <<>>
      BY <2>1, EmptySeq
    <3>2. z = q
      BY <3>1, ConcatEmptySeq DEF z
    <3> QED BY <3>1, <3>2 DEF End, y
  <2>2. CASE m # 0
    <3>1. r # <<>> /\ z # <<>>
      BY <1>1, <1>2, <2>2, EmptySeq
    <3>2. n + m \in 1..(n + m) /\ ~(n + m <= n) /\ (n + m) - n = m
      BY <1>1, <2>2
    <3>3. z[Len(z)] = r[m]
      BY <1>2, <3>2
    <3> QED BY <3>1, <3>3 DEF End
  <2> QED BY <2>1, <2>2
<1> QED BY <1>7, <1>8 DEF z, y

\* The bytes a to b of a message follow one another.
LEMMA FollowsBytes ==
  ASSUME NEW m \in Int, NEW a \in Nat \ {0}, NEW b \in Nat, a <= b, b <= Size(m),
         NEW r, r = SubSeq(Bytes(m), a, b), r \in Seq(Byte)
  PROVE  /\ Follows(r, <<m, a>>)
         /\ End(r, <<m, a>>) = IF b < Size(m) THEN <<m, b + 1>> ELSE <<m + 1, 1>>
<1>1. Size(m) \in Nat
  BY Sizes
<1>2. \A i \in a..b : Bytes(m)[i] = <<m, i>>
  BY <1>1 DEF Bytes
<1> DEFINE n == b - a + 1
<1>3. Len(r) = n /\ \A i \in 1..n : r[i] = <<m, a + i - 1>>
  <2> DEFINE S == {Bytes(m)[i] : i \in a..b}
             u == SubSeq(Bytes(m), a, b)
  <2>1. a \in Int /\ b \in Int /\ \A i \in a..b : Bytes(m)[i] \in S
    OBVIOUS
  <2> HIDE DEF S, Bytes
  <2>2. /\ Len(u) = IF a <= b THEN b - a + 1 ELSE 0
        /\ \A i \in 1..(b - a + 1) : u[i] = Bytes(m)[a + i - 1]
    BY <2>1, SubSeqProperties
  <2>3. \A i \in 1..n : a + i - 1 \in a..b
    OBVIOUS
  <2>4. u = r
    OBVIOUS
  <2> HIDE DEF u
  <2> QED BY <1>2, <2>2, <2>3, <2>4
<1>4. Follows(r, <<m, a>>)
  <2>1. SUFFICES ASSUME NEW i \in 1..n PROVE r[i] = IF i = 1 THEN <<m, a>> ELSE After(r[i - 1])
    BY <1>3 DEF Follows
  <2>2. r[i] = <<m, a + i - 1>>
    BY <1>3
  <2>3. CASE i = 1
    BY <2>2, <2>3
  <2>4. CASE i # 1
    <3>1. i - 1 \in 1..n /\ a + (i - 1) - 1 < Size(m) /\ a + (i - 1) - 1 + 1 = a + i - 1
      BY <1>1, <2>4
    <3>2. r[i - 1] = <<m, a + (i - 1) - 1>>
      BY <1>3, <3>1
    <3>3. After(r[i - 1]) = <<m, a + (i - 1) - 1 + 1>>
      BY <3>1, <3>2 DEF After
    <3> QED BY <2>2, <2>4, <3>1, <3>3
  <2> QED BY <2>3, <2>4
<1>5. End(r, <<m, a>>) = IF b < Size(m) THEN <<m, b + 1>> ELSE <<m + 1, 1>>
  <2>1. r # <<>> /\ n \in 1..n /\ a + n - 1 = b
    <3>1. n >= 1 /\ n \in 1..n /\ a + n - 1 = b
      OBVIOUS
    <3>2. Len(r) # 0
      BY <1>3, <3>1
    <3>3. r # <<>>
      BY <3>2, EmptySeq
    <3> QED BY <3>1, <3>3
  <2>2. r[n] = <<m, b>>
    BY <1>3, <2>1
  <2>3. End(r, <<m, a>>) = After(r[n])
    BY <1>3, <2>1 DEF End
  <2> QED BY <2>2, <2>3 DEF After
<1> QED BY <1>4, <1>5

\* A stream that begins with a message, and holds all of it, goes on with the
\* next one.
LEMMA FollowsRest ==
  ASSUME NEW q \in Seq(Byte), NEW m \in Int, Follows(q, <<m, 1>>), Size(m) <= Len(q)
  PROVE  LET rest == SubSeq(q, Size(m) + 1, Len(q))
         IN Follows(rest, <<m + 1, 1>>) /\ End(rest, <<m + 1, 1>>) = End(q, <<m, 1>>)
<1> DEFINE z == Size(m)
           n == Len(q)
           rest == SubSeq(q, z + 1, n)
           S == {i \in Nat : i + 1 <= z => q[i + 1] = <<m, i + 1>>}
<1>1. z \in Nat /\ 1 <= z /\ n \in Nat /\ z <= n
  BY Sizes, LenProperties
<1>2. \A i \in 1..n : q[i] = IF i = 1 THEN <<m, 1>> ELSE After(q[i - 1])
  BY DEF Follows
<1> HIDE DEF z, n
<1>3. Nat \subseteq S
  <2>1. 0 \in S
    <3>1. 1 \in 1..n /\ 0 + 1 = 1
      BY <1>1
    <3>2. q[1] = <<m, 1>>
      BY <1>2, <3>1
    <3> QED BY <3>1, <3>2
  <2>2. ASSUME NEW i \in Nat, i \in S PROVE i + 1 \in S
    <3>1. SUFFICES ASSUME (i + 1) + 1 <= z PROVE q[(i + 1) + 1] = <<m, (i + 1) + 1>>
      OBVIOUS
    <3>2. i + 1 <= z /\ (i + 1) + 1 \in 1..n /\ (i + 1) + 1 # 1 /\ ((i + 1) + 1) - 1 = i + 1 /\ i + 1 < z
      BY <1>1, <3>1
    <3>3. q[i + 1] = <<m, i + 1>>
      BY <2>2, <3>2
    <3>4. q[(i + 1) + 1] = After(q[i + 1])
      BY <1>2, <3>2
    <3> QED BY <3>2, <3>3, <3>4 DEF After, z
  <2> HIDE DEF S
  <2> QED BY <2>1, <2>2, SetInduction
<1>4. q[z] = <<m, z>>
  <2>1. z - 1 \in Nat /\ (z - 1) + 1 = z
    BY <1>1
  <2>2. z - 1 \in S
    BY <1>3, <2>1
  <2> QED BY <2>1, <2>2
<1>5. After(q[z]) = <<m + 1, 1>>
  BY <1>1, <1>4 DEF After, z
<1>6. /\ rest \in Seq(Byte) /\ Len(rest) = n - z
      /\ \A i \in 1..(n - z) : rest[i] = q[z + i]
  <2>1. z \in 0..Len(q)
    BY <1>1 DEF n
  <2> QED BY <2>1, Parts DEF n
<1> HIDE DEF rest
<1>7. Follows(rest, <<m + 1, 1>>)
  <2>1. SUFFICES ASSUME NEW i \in 1..(n - z)
                 PROVE  rest[i] = IF i = 1 THEN <<m + 1, 1>> ELSE After(rest[i - 1])
    BY <1>6 DEF Follows
  <2>2. z + i \in 1..n /\ z + i # 1 /\ (z + i) - 1 = z + (i - 1)
    BY <1>1
  <2>3. rest[i] = After(q[z + (i - 1)])
    BY <1>2, <1>6, <2>2
  <2>4. CASE i = 1
    <3>1. z + (i - 1) = z
      BY <1>1, <2>4
    <3> QED BY <1>5, <2>3, <2>4, <3>1
  <2>5. CASE i # 1
    <3>1. i - 1 \in 1..(n - z)
      BY <1>1, <2>5
    <3>2. rest[i - 1] = q[z + (i - 1)]
      BY <1>6, <3>1
    <3> QED BY <2>3, <2>5, <3>2
  <2> QED BY <2>4, <2>5
<1>8. End(rest, <<m + 1, 1>>) = End(q, <<m, 1>>)
  <2>1. q # <<>> /\ End(q, <<m, 1>>) = After(q[n])
    <3>1. q # <<>>
      BY <1>1, EmptySeq DEF n
    <3> QED BY <3>1 DEF End, n
  <2>2. CASE n = z
    <3>1. rest = <<>>
      BY <1>1, <1>6, <2>2, EmptySeq
    <3> QED BY <1>5, <2>1, <2>2, <3>1 DEF End
  <2>3. CASE n # z
    <3>1. n - z \in 1..(n - z) /\ z + (n - z) = n
      BY <1>1, <2>3
    <3>2. rest # <<>>
      BY <1>6, <3>1, EmptySeq
    <3>3. rest[Len(rest)] = q[n]
      BY <1>6, <3>1
    <3> QED BY <2>1, <3>2, <3>3 DEF End
  <2> QED BY <2>2, <2>3
<1> QED BY <1>7, <1>8 DEF rest, z, n

-----------------------------------------------------------------------------
(* The bytes that server b has put aside or that are on the way to it; the *)
(* byte that it expects, and the byte that the client writes next.         *)
First == IF h.proxy THEN 0 ELSE 1
Kept(b) == srv[b].alt \o wire[b]
Start(b) == <<First + Len(got[b]), 1>>
Pos ==
  IF h.state = "DATAXFER" THEN <<app, Most(h.written, 0) + 1>>
  ELSE IF h.proxy /\ h.phase = 0 THEN <<0, Most(h.written, 0) + 1>> ELSE <<1, 1>>

(* Connections that carry nothing.                                         *)
Quiet == {"idle", "syn", "refused", "closed"}

(* What a server keeps is the rest of the client's stream, as far as it is *)
(* written: the messages before it have been read.                         *)
Stream(b) ==
  /\ \A i \in DOMAIN got[b] : got[b][i] = First + i - 1
  /\ srv[b].err # "CSPROTERR"
  /\ srv[b].listener = "INCON" => srv[b].state = "none"
  /\ link[b] \in Quiet => Kept(b) = <<>> /\ got[b] = <<>>
  /\ srv[b].state # "closed" =>
       /\ Follows(Kept(b), Start(b))
       /\ link[b] = "up" => End(Kept(b), Start(b)) = Pos

(* How far the client can be in its messages: a connection that does not   *)
(* stand yet, or that was lost, has carried nothing of them.               *)
Written ==
  /\ h.proxy => h.last = 1
  /\ h.pipe # "none" => \A a \in Addr : link[a] = "idle"
  /\ h.state = "UNBND" => h.written = -1 /\ h.phase = 0
  /\ h.state = "CONNECTING" =>
       IF h.proxy THEN h.phase # 0 => h.written = -1 ELSE h.written <= 0
  /\ h.state \in Busy =>
       /\ h.proxy \/ h.phase = 0
       /\ link[h.ai] \in {"idle", "syn"} =>
            h.state = "CONNECTING" /\ h.phase = 0 /\ h.written <= 0
  /\ h.state = "DATAXFER" /\ link[h.ai] # "up" => h.proxy \/ h.written <= 0

OrderInv == Written /\ \A b \in Addr : Stream(b)

\* The stream of a server in the next state, by its parts.
LEMMA StreamIf ==
  ASSUME NEW b, NEW q, q = srv'[b].alt \o wire'[b], NEW x, x = <<First' + Len(got'[b]), 1>>,
         \A i \in DOMAIN got'[b] : got'[b][i] = First' + i - 1,
         srv'[b].err # "CSPROTERR",
         srv'[b].listener = "INCON" => srv'[b].state = "none",
         link'[b] \in Quiet => q = <<>> /\ got'[b] = <<>>,
         srv'[b].state # "closed" =>
           Follows(q, x) /\ (link'[b] = "up" => End(q, x) = Pos')
  PROVE  Stream(b)'
<1>1. q = Kept(b)' /\ x = Start(b)'
  BY DEF Kept, Start
<1>2. Follows(q, x) => Follows(Kept(b), Start(b))'
  BY <1>1 DEF Follows
<1>3. End(q, x) = End(Kept(b), Start(b))'
  BY <1>1 DEF End
<1> QED BY <1>1, <1>2, <1>3 DEF Stream, Quiet

\* A step that leaves a server's stream alone keeps it, if the connection
\* carries what it carried and the client goes on where it was.
LEMMA StreamKept ==
  ASSUME NEW b, Stream(b), srv'[b] = srv[b], wire'[b] = wire[b], got'[b] = got[b], First' = First,
         link'[b] \in Quiet => link[b] \in Quiet,
         link'[b] = "up" => link[b] = "up" /\ Pos' = Pos
  PROVE  Stream(b)'
<1> DEFINE q == Kept(b)
           x == Start(b)
<1>1. q = srv'[b].alt \o wire'[b] /\ x = <<First' + Len(got'[b]), 1>>
  BY DEF Kept, Start
<1>2. srv'[b].state # "closed" => Follows(q, x) /\ (link'[b] = "up" => End(q, x) = Pos')
  BY DEF Stream
<1>3. link'[b] \in Quiet => q = <<>> /\ got'[b] = <<>>
  BY DEF Stream
<1>4. /\ \A i \in DOMAIN got'[b] : got'[b][i] = First' + i - 1
      /\ srv'[b].err # "CSPROTERR" /\ (srv'[b].listener = "INCON" => srv'[b].state = "none")
  BY DEF Stream
<1> HIDE DEF q, x
<1> QED BY <1>1, <1>2, <1>3, <1>4, StreamIf

\* What a call at the client does to the connections.
LEMMA LinksMove ==
  ASSUME ClientInv, NEW o, Calls(o), NEW b \in Addr
  PROVE  /\ link'[b] \in Quiet => link[b] \in Quiet
         /\ link'[b] = "up" => link[b] = "up" /\ o.ret # -1 /\ ~(b < o.stack.ai)
         /\ h'.proxy = h.proxy /\ h'.last = h.last
         /\ o.ret = -1 => h'.state = "CLOSED" /\ h'.pipe = "none"
         /\ o.ret # -1 => h' = o.stack
<1>1. Moves(h, o) /\ Outcome(o) /\ link \in Links /\ o.stack \in Stack
  BY DEF Calls, ClientInv, Moves
<1>2. link[b] \in {"idle", "syn", "up", "refused", "reset", "closed", "fin"}
  BY <1>1 DEF Links
<1>3. o.ret < 0 <=> o.ret = -1
  BY <1>1 DEF Moves
<1>4. LET over == b < o.stack.ai \/ o.ret < 0
      IN /\ over /\ link[b] \in {"idle", "syn", "refused"} => link'[b] = "closed"
         /\ over /\ link[b] \in {"up", "reset"} => link'[b] = "fin"
         /\ over /\ link[b] \in {"closed", "fin"} => link'[b] = link[b]
         /\ ~over /\ b = o.stack.ai /\ o.stack.pipe = "none" /\ link[b] = "idle" => link'[b] = "syn"
         /\ ~over /\ ~(b = o.stack.ai /\ o.stack.pipe = "none" /\ link[b] = "idle") =>
              link'[b] = link[b]
  BY <1>1, OutcomeLinks
<1> DEFINE over == b < o.stack.ai \/ o.ret < 0
<1>6. link'[b] \in Quiet => link[b] \in Quiet
  BY <1>2, <1>4 DEF Quiet
<1>7. link'[b] = "up" => link[b] = "up" /\ ~over
  BY <1>2, <1>4
<1>8. o.ret < 0 => h' = [o.stack EXCEPT !.state = "CLOSED", !.pipe = "none"]
  BY <1>1, OutcomeLinks
<1>9. ~(o.ret < 0) => h' = o.stack
  BY <1>1, OutcomeLinks
<1>10. o.stack.proxy = h.proxy /\ o.stack.last = h.last
  BY <1>1 DEF Moves
<1>11. /\ o.ret = -1 => h'.state = "CLOSED" /\ h'.pipe = "none"
       /\ h'.proxy = h.proxy /\ h'.last = h.last
  BY <1>1, <1>3, <1>8, <1>9, <1>10 DEF Stack
<1> QED BY <1>3, <1>6, <1>7, <1>9, <1>11

\* A call that gives up keeps the order of the messages.
LEMMA GoneKeeps ==
  ASSUME TInv, OrderInv, NEW o, Calls(o), o.ret = -1, UNCHANGED <<wire, srv, got>>
  PROVE  OrderInv'
<1>1. ClientInv
  BY DEF TInv
<1>2. 1 \in Addr
  BY BoundsAssumption DEF Addr
<1>3. h'.proxy = h.proxy /\ h'.last = h.last /\ h'.state = "CLOSED" /\ h'.pipe = "none"
  BY <1>1, <1>2, LinksMove
<1>4. Written'
  BY <1>3 DEF OrderInv, Written, Busy
<1>5. ASSUME NEW b \in Addr PROVE Stream(b)'
  <2>1. link'[b] \in Quiet => link[b] \in Quiet
    BY <1>1, LinksMove
  <2>2. link'[b] # "up"
    BY <1>1, LinksMove
  <2>3. First' = First
    BY <1>3 DEF First
  <2> QED BY <2>1, <2>2, <2>3, StreamKept DEF OrderInv
<1> QED BY <1>4, <1>5 DEF OrderInv

(* A call that tries an address while nothing of a message is written.     *)
Fresh(o) ==
  /\ o.ret # -1 /\ o.stack.state = "CONNECTING" /\ o.stack.phase = 0 /\ o.stack.written <= 0
  /\ o.stack.pipe # "none" => \A a \in Addr : link[a] = "idle"
  /\ \A a \in Addr : link[a] = "up" => a < o.stack.ai

LEMMA FreshKeeps ==
  ASSUME TInv, OrderInv, NEW o, Calls(o), Fresh(o), UNCHANGED <<wire, srv, got>>
  PROVE  OrderInv'
<1>1. ClientInv
  BY DEF TInv
<1>2. 1 \in Addr /\ \A a \in Addr : ~(a < 1)
  BY BoundsAssumption DEF Addr
<1>3. h'.proxy = h.proxy /\ h'.last = h.last /\ h' = o.stack
  BY <1>1, <1>2, LinksMove DEF Fresh
<1>4. h'.state = "CONNECTING" /\ h'.phase = 0 /\ h'.written <= 0
  BY <1>3 DEF Fresh
<1>5. h'.pipe # "none" => \A a \in Addr : link'[a] = "idle"
  <2>1. SUFFICES ASSUME h'.pipe # "none", NEW a \in Addr PROVE link'[a] = "idle"
    OBVIOUS
  <2>2. Moves(h, o) /\ Outcome(o) /\ link \in Links
    BY <1>1 DEF Calls, ClientInv
  <2>3. o.stack.ai = 1 /\ ~(o.ret < 0) /\ o.stack.pipe # "none"
    BY <1>3, <2>1, <2>2 DEF Moves, Joined, Fresh
  <2>4. ~(a < o.stack.ai \/ o.ret < 0)
    BY <1>2, <2>3
  <2>5. link'[a] = link[a]
    BY <2>2, <2>3, <2>4, OutcomeLinks
  <2> QED BY <2>3, <2>5 DEF Fresh
<1>6. Written'
  BY <1>3, <1>4, <1>5 DEF OrderInv, Written, Busy
<1>7. ASSUME NEW b \in Addr PROVE Stream(b)'
  <2>1. link'[b] \in Quiet => link[b] \in Quiet
    BY <1>1, LinksMove
  <2>2. link'[b] # "up"
    BY <1>1, LinksMove DEF Fresh
  <2>3. First' = First
    BY <1>3 DEF First
  <2> QED BY <2>1, <2>2, <2>3, StreamKept DEF OrderInv
<1> QED BY <1>6, <1>7 DEF OrderInv

\* A call that goes on at the address being tried.
LEMMA SamePlace ==
  ASSUME ClientInv, h.state \in Busy, NEW o, Calls(o), o.ret # -1, o.stack.ai = h.ai,
         o.stack.pipe = "none", link[h.ai] \notin {"idle", "syn"}
  PROVE  /\ link'[h.ai] = link[h.ai] /\ h' = o.stack /\ h'.ai = h.ai
         /\ \A b \in Addr : b # h.ai => link'[b] # "up"
<1>1. /\ Moves(h, o) /\ Outcome(o) /\ link \in Links /\ h \in Stack /\ OneOpen
      /\ h.ai \in 1..h.last
  BY DEF Calls, ClientInv, OneOpen
<1>2. h.ai \in Addr /\ h.ai \in Nat
  BY <1>1, StackNumbers DEF Addr
<1>3. ~(h.ai < o.stack.ai \/ o.ret < 0)
  BY <1>1, <1>2 DEF Moves
<1>4. link'[h.ai] = link[h.ai]
  BY <1>1, <1>2, <1>3, OutcomeLinks
<1>5. ASSUME NEW b \in Addr, b # h.ai PROVE link'[b] # "up"
  <2>1. link[b] \notin Open
    BY <1>1, <1>5 DEF OneOpen
  <2> QED BY <2>1, LinksMove DEF Open
<1> QED BY <1>2, <1>4, <1>5, LinksMove

\* Bytes that are written follow those that were: the stream goes on.
LEMMA StreamGrows ==
  ASSUME TInv, OrderInv, NEW m \in 0..Messages, NEW o, Puts(h, m, o), o.ret # -1,
         NEW a \in Addr, link[a] = "up", link'[a] = "up",
         Pos = <<m, Before(h) + 1>>,
         Pos' = IF o.ret = 1 THEN <<m, o.stack.written + 1>> ELSE <<m + 1, 1>>,
         First' = First, srv' = srv, got' = got, wire' = [wire EXCEPT ![a] = @ \o o.wire]
  PROVE  Stream(a)'
<1> DEFINE q == Kept(a)
           r == o.wire
           x == Start(a)
           last == IF o.ret = 1 THEN o.stack.written ELSE Size(m)
<1>1. /\ wire \in [Addr -> Seq(Byte)] /\ srv \in [Addr -> Reader]
      /\ Size(m) \in Nat
  BY Sizes DEF TInv, ServersInv
<1>2. srv[a].alt \in Seq(Byte) /\ wire[a] \in Seq(Byte) /\ r \in Seq(Byte)
  BY <1>1, PutBytes DEF Reader
<1>3. wire'[a] = wire[a] \o r
  <2>1. wire' = [wire EXCEPT ![a] = @ \o r]
    OBVIOUS
  <2> HIDE DEF r
  <2> QED BY <1>1, <1>2, <2>1, WireGrows
<1>4. q \in Seq(Byte) /\ srv'[a].alt \o wire'[a] = q \o r
  <2>1. q = srv[a].alt \o wire[a]
    BY DEF Kept
  <2>2. (srv[a].alt \o wire[a]) \o r = srv[a].alt \o (wire[a] \o r)
    <3> DEFINE s == srv[a].alt
               w == wire[a]
    <3>1. s \in Seq(Byte) /\ w \in Seq(Byte) /\ r \in Seq(Byte)
      BY <1>2
    <3> HIDE DEF s, w, r
    <3>2. (s \o w) \o r = s \o (w \o r)
      BY <3>1, ConcatAssociative
    <3> QED BY <3>2 DEF s, w
  <2>3. srv[a].alt \o wire[a] \in Seq(Byte)
    BY <1>2, ConcatProperties
  <2> HIDE DEF q, r
  <2> QED BY <1>3, <2>1, <2>2, <2>3
<1>5. /\ Before(h) \in 0..(Size(m) - 1) /\ last \in (Before(h) + 1)..Size(m)
      /\ r = SubSeq(Bytes(m), Before(h) + 1, last)
      /\ Pos' = IF last < Size(m) THEN <<m, last + 1>> ELSE <<m + 1, 1>>
  <2>1. CASE o.ret = 1
    <3>1. /\ Before(h) \in 0..(Size(m) - 1) /\ o.stack.written \in (Before(h) + 1)..(Size(m) - 1)
          /\ r = SubSeq(Bytes(m), Before(h) + 1, o.stack.written) /\ last = o.stack.written
      BY <2>1 DEF Puts
    <3> HIDE DEF last, r
    <3>2. last \in (Before(h) + 1)..Size(m) /\ last < Size(m)
      BY <1>1, <3>1
    <3> QED BY <2>1, <3>1, <3>2
  <2>2. CASE o.ret = 0
    <3>1. /\ Before(h) \in 0..(Size(m) - 1) /\ r = SubSeq(Bytes(m), Before(h) + 1, Size(m))
          /\ last = Size(m)
      BY <2>2 DEF Puts
    <3> HIDE DEF last, r
    <3>2. last \in (Before(h) + 1)..Size(m) /\ ~(last < Size(m))
      BY <1>1, <3>1
    <3> QED BY <2>2, <3>1, <3>2
  <2> QED BY <2>1, <2>2 DEF Puts
<1> HIDE DEF last
<1>6. /\ Follows(r, <<m, Before(h) + 1>>)
      /\ End(r, <<m, Before(h) + 1>>) = Pos'
  <2>1. /\ Before(h) + 1 \in Nat \ {0} /\ last \in Nat /\ Before(h) + 1 <= last /\ last <= Size(m)
    <3> DEFINE n == Before(h)
               z == Size(m)
    <3>1. z \in Nat /\ n \in 0..(z - 1) /\ last \in (n + 1)..z
      BY <1>1, <1>5
    <3> HIDE DEF n, z
    <3>2. n + 1 \in Nat \ {0} /\ last \in Nat /\ n + 1 <= last /\ last <= z
      BY <3>1
    <3> QED BY <3>2 DEF n, z
  <2>2. m \in Int
    OBVIOUS
  <2> HIDE DEF r
  <2> QED BY <1>2, <1>5, <2>1, <2>2, FollowsBytes
<1>7. Stream(a)
  BY DEF OrderInv
<1>8. srv'[a] = srv[a] /\ got'[a] = got[a] /\ x = <<First' + Len(got'[a]), 1>>
  BY DEF Start
<1>9. srv[a].state # "closed" => Follows(q \o r, x) /\ End(q \o r, x) = Pos'
  <2>1. SUFFICES ASSUME srv[a].state # "closed" PROVE Follows(q \o r, x) /\ End(q \o r, x) = Pos'
    OBVIOUS
  <2>2. Follows(q, x) /\ End(q, x) = Pos
    BY <1>7, <2>1 DEF Stream
  <2>3. Follows(r, End(q, x)) /\ End(r, End(q, x)) = Pos'
    BY <1>6, <2>2
  <2>4. q \in Seq(Byte) /\ r \in Seq(Byte)
    BY <1>2, <1>4
  <2> HIDE DEF q, r, x
  <2>5. Follows(q \o r, x) /\ End(q \o r, x) = End(r, End(q, x))
    BY ONLY <2>2, <2>3, <2>4, FollowsJoin
  <2> QED BY <2>3, <2>5
<1>10. link'[a] \notin Quiet
  BY DEF Quiet
<1>11. /\ \A i \in DOMAIN got'[a] : got'[a][i] = First' + i - 1
       /\ srv'[a].err # "CSPROTERR" /\ (srv'[a].listener = "INCON" => srv'[a].state = "none")
  BY <1>7, <1>8 DEF Stream
<1> DEFINE z == q \o r
<1>12. z = srv'[a].alt \o wire'[a]
  BY <1>4
<1>13. srv'[a].state # "closed" => Follows(z, x) /\ (link'[a] = "up" => End(z, x) = Pos')
  BY <1>8, <1>9
<1> HIDE DEF q, r, x, z
<1> QED BY <1>8, <1>10, <1>11, <1>12, <1>13, StreamIf

\* The resolver's steps keep the order of the messages.
LEMMA ResolverOrder ==
  ASSUME TInv, OrderInv, Straddr \/ ResolverThread
  PROVE  OrderInv'
<1>1. h \in Stack /\ OneOpen
  BY DEF TInv, ClientInv
<1>2. UNCHANGED <<app, link, wire, srv, got>>
  BY DEF Straddr, ResolverThread
<1>3. /\ <<h'.state, h'.proxy, h'.phase>> = <<h.state, h.proxy, h.phase>>
      /\ h'.written = h.written /\ h'.last = h.last
      /\ h'.state \in Busy => h'.ai = h.ai
      /\ \A a \in Addr : link[a] = "idle"
  <2>1. CASE Straddr
    <3> DEFINE pipe == IF Resolver /\ ~h.unix THEN "running" ELSE "none"
               x == [h EXCEPT !.pipe = pipe, !.ai = 1]
    <3>1. h' = x /\ h.state = "UNBND"
      BY <2>1 DEF Straddr
    <3> HIDE DEF pipe
    <3>2. /\ x.state = h.state /\ x.proxy = h.proxy /\ x.phase = h.phase
          /\ x.written = h.written /\ x.last = h.last
      BY <1>1 DEF Stack
    <3> HIDE DEF x
    <3> QED BY <1>1, <3>1, <3>2 DEF OneOpen, Busy
  <2>2. CASE ResolverThread
    <3> DEFINE x == [h EXCEPT !.pipe = "done"]
    <3>1. h' = x /\ h.pipe # "none"
      BY <2>2 DEF ResolverThread
    <3>2. /\ x.state = h.state /\ x.proxy = h.proxy /\ x.phase = h.phase
          /\ x.written = h.written /\ x.last = h.last /\ x.ai = h.ai
      BY <1>1 DEF Stack
    <3> HIDE DEF x
    <3> QED BY <3>1, <3>2 DEF OrderInv, Written
  <2> QED BY <2>1, <2>2
<1>4. Written'
  BY <1>2, <1>3 DEF OrderInv, Written, Busy
<1>5. First' = First /\ Pos' = Pos
  BY <1>2, <1>3 DEF First, Pos
<1>6. ASSUME NEW b \in Addr PROVE Stream(b)'
  BY <1>2, <1>5, StreamKept DEF OrderInv
<1> QED BY <1>4, <1>6 DEF OrderInv

\* So do the calls that try the first address.
LEMMA ConnectOrder ==
  ASSUME TInv, OrderInv, Connect \/ JoinResolver
  PROVE  OrderInv'
<1>1. ClientInv /\ h \in Stack /\ OneOpen /\ UNCHANGED <<wire, srv, got>>
  BY DEF TInv, ClientInv, Connect, JoinResolver
<1>2. CASE Connect
  <2>1. PICK o : Calls(o) /\ Tries(h, 1, o)
    BY <1>1, <1>2, ConnectCalls
  <2>2. h.state = "UNBND" /\ h.phase = 0 /\ h.written = -1 /\ \A a \in Addr : link[a] = "idle"
    BY <1>1, <1>2 DEF Connect, OneOpen, OrderInv, Written
  <2>3. o.ret # -1 => Fresh(o)
    BY <2>1, <2>2 DEF Tries, Fresh
  <2> QED BY <1>1, <2>1, <2>3, GoneKeeps, FreshKeeps
<1>3. CASE JoinResolver
  <2> DEFINE y == [h EXCEPT !.pipe = "none"]
  <2>1. PICK o : Calls(o) /\ Tries(y, 1, o)
    BY <1>1, <1>3, JoinCalls
  <2>2. y.pipe = "none" /\ y.phase = h.phase /\ y.written = h.written
    BY <1>1 DEF Stack
  <2> HIDE DEF y
  <2>3. h.state = "CONNECTING" /\ h.pipe # "none" /\ h.ai = 1
    BY <1>1, <1>3 DEF JoinResolver, ClientInv, Joined
  <2>4. 1 \in Addr
    BY BoundsAssumption DEF Addr
  <2>5. \A a \in Addr : link[a] = "idle"
    BY <2>3 DEF OrderInv, Written
  <2>6. h.phase = 0 /\ h.written <= 0
    BY <2>3, <2>4, <2>5 DEF OrderInv, Written, Busy
  <2>7. o.ret # -1 => Fresh(o)
    BY <2>1, <2>2, <2>5, <2>6 DEF Tries, Fresh
  <2> QED BY <1>1, <2>1, <2>7, GoneKeeps, FreshKeeps
<1> QED BY <1>2, <1>3

\* A call that tries the next address: there is no proxy, and nothing of the
\* message was written.
LEMMA NextIsFresh ==
  ASSUME TInv, OrderInv, h.state \in Busy, NEW o, o.ret # -1, o.stack.state = "CONNECTING",
         o.stack.ai \in (h.ai + 1)..h.last, o.stack.pipe = "none", o.stack.phase = h.phase,
         h.proxy \/ o.stack.written <= 0
  PROVE  Fresh(o)
<1>1. h \in Stack /\ OneOpen /\ h.ai \in 1..h.last
  BY DEF TInv, ClientInv, OneOpen
<1>2. h.ai \in Nat /\ h.last \in Nat /\ 1 <= h.ai
  BY <1>1, StackNumbers
<1>3. ~h.proxy /\ h.ai < o.stack.ai
  BY <1>2 DEF OrderInv, Written
<1>4. o.stack.phase = 0 /\ o.stack.written <= 0
  BY <1>3 DEF OrderInv, Written
<1>5. ASSUME NEW a \in Addr, link[a] = "up" PROVE a < o.stack.ai
  BY <1>1, <1>3, <1>5 DEF OneOpen, Open
<1> QED BY <1>4, <1>5 DEF Fresh

\* A call that writes a part of message m at the connection that stands.
LEMMA WriteKeeps ==
  ASSUME TInv, OrderInv, h.state \in Busy, NEW a \in Addr, a = h.ai, link[a] = "up",
         NEW o, Calls(o), o.ret # -1, NEW m \in 0..Messages, NEW r, Puts(h, m, r), r.ret = o.ret,
         o.stack.ai = h.ai, o.stack.pipe = "none", o.stack.written = r.stack.written,
         Pos = <<m, Most(h.written, 0) + 1>>,
         Pos' = IF o.ret = 1 THEN <<m, Most(h'.written, 0) + 1>> ELSE <<m + 1, 1>>,
         srv' = srv, got' = got, wire' = [wire EXCEPT ![a] = @ \o r.wire]
  PROVE  \A b \in Addr : Stream(b)'
<1>1. ClientInv /\ h \in Stack /\ Half(h) /\ wire \in [Addr -> Seq(Byte)]
  BY DEF TInv, ClientInv, ServersInv
<1>2. /\ link'[a] = "up" /\ h' = o.stack
      /\ \A b \in Addr : b # a => link'[b] # "up"
  BY <1>1, SamePlace
<1>3. First' = First
  BY <1>1, LinksMove DEF First
<1>4. Most(h.written, 0) = Before(h)
  BY <1>1, StackNumbers DEF Half, Before, Most
<1>5. o.ret = 1 => Most(h'.written, 0) = r.stack.written
  <2>1. SUFFICES ASSUME o.ret = 1 PROVE Most(h'.written, 0) = r.stack.written
    OBVIOUS
  <2>2. r.stack.written \in (Before(h) + 1)..(Size(m) - 1) /\ Before(h) \in 0..(Size(m) - 1)
    BY <2>1 DEF Puts
  <2>3. r.stack.written \in Nat
    BY <2>2, Sizes
  <2> QED BY <1>2, <2>3 DEF Most
<1>6. Stream(a)'
  BY <1>2, <1>3, <1>4, <1>5, StreamGrows
<1>7. ASSUME NEW b \in Addr, b # a PROVE Stream(b)'
  <2>1. wire'[b] = wire[b]
    <3> DEFINE w == wire[a] \o r.wire
    <3>1. wire' = [wire EXCEPT ![a] = w]
      OBVIOUS
    <3> HIDE DEF w
    <3> QED BY <1>1, <1>7, <3>1
  <2>2. link'[b] \in Quiet => link[b] \in Quiet
    BY <1>1, LinksMove
  <2> QED BY <1>2, <1>3, <1>7, <2>1, <2>2, StreamKept DEF OrderInv
<1> QED BY <1>6, <1>7

\* Nothing is written when cs_put fails at once.
LEMMA NothingWritten ==
  ASSUME TInv, NEW s, NEW m, NEW r, Puts(s, m, r), r.ret = -1, h.ai \in Addr,
         wire' = [wire EXCEPT ![h.ai] = @ \o r.wire]
  PROVE  wire' = wire
<1>1. wire \in [Addr -> Seq(Byte)] /\ r.wire = <<>>
  BY DEF TInv, ServersInv, Puts
<1>2. wire[h.ai] \o r.wire = wire[h.ai]
  BY <1>1, ConcatEmptySeq
<1> QED BY <1>1, <1>2

LEMMA AskOrder ==
  ASSUME TInv, OrderInv, AskProxy
  PROVE  OrderInv'
<1>1. ClientInv /\ UNCHANGED <<app, srv, got>> /\ Ready /\ h.proxy /\ h.phase = 0
  BY DEF TInv, AskProxy
<1>2. PICK o, r : Calls(o) /\ Asks(o, r)
  BY <1>1, AskCalls
<1>3. /\ h \in Stack /\ h.state \in Busy /\ h.pipe = "none" /\ h.ai \in Addr /\ h.state = "CONNECTING"
      /\ Moves(h, o)
  BY <1>1, <1>2, ReadyIs DEF Calls
<1>4. CASE Alive /\ Puts(h, 0, r)
  <2>1. /\ o.ret = r.ret /\ o.stack.phase = (IF r.ret = 0 THEN 1 ELSE 0)
        /\ <<o.stack.state, o.stack.ai, o.stack.pipe>> = <<h.state, h.ai, h.pipe>>
        /\ o.stack.written = r.stack.written /\ wire' = [wire EXCEPT ![h.ai] = @ \o r.wire]
    BY <1>2, <1>4 DEF Asks, Puts, PutFailed
  <2>2. CASE o.ret = -1
    <3>1. wire' = wire
      BY <1>3, <1>4, <2>1, <2>2, NothingWritten
    <3> QED BY <1>1, <1>2, <2>2, <3>1, GoneKeeps
  <2>3. CASE o.ret # -1
    <3>1. /\ h' = o.stack /\ link'[h.ai] = "up" /\ h'.ai = h.ai /\ h'.proxy = h.proxy /\ h'.last = h.last
      BY <1>1, <1>2, <1>3, <1>4, <2>1, <2>3, SamePlace, LinksMove DEF Alive
    <3>2. o.ret \in {0, 1} /\ (o.ret = 0 => h'.written = -1)
      BY <1>4, <2>1, <2>3, <3>1 DEF Puts
    <3>3. Written'
      BY <1>1, <1>3, <2>1, <3>1, <3>2 DEF OrderInv, Written, Busy
    <3>4. Pos = <<0, Most(h.written, 0) + 1>>
      BY <1>1, <1>3 DEF Pos
    <3>5. Pos' = IF o.ret = 1 THEN <<0, Most(h'.written, 0) + 1>> ELSE <<0 + 1, 1>>
      <4>1. h'.state = "CONNECTING" /\ h'.proxy /\ h'.phase = (IF o.ret = 0 THEN 1 ELSE 0)
        BY <1>1, <1>3, <2>1, <3>1
      <4> QED BY <3>2, <4>1 DEF Pos
    <3>6. 0 \in 0..Messages
      BY BoundsAssumption
    <3>7. \A b \in Addr : Stream(b)'
      <4>1. PICK a \in Addr : a = h.ai
        BY <1>3
      <4>2. link[a] = "up" /\ wire' = [wire EXCEPT ![a] = @ \o r.wire]
        BY <1>4, <2>1, <4>1 DEF Alive
      <4>3. o.stack.ai = h.ai /\ o.stack.pipe = "none" /\ r.ret = o.ret
        BY <1>3, <2>1
      <4>4. srv' = srv /\ got' = got
        BY <1>1
      <4> QED BY <1>2, <1>3, <1>4, <2>1, <2>3, <3>4, <3>5, <3>6, <4>1, <4>2, <4>3, <4>4, WriteKeeps
    <3> QED BY <3>3, <3>7 DEF OrderInv
  <2> QED BY <2>2, <2>3
<1>5. CASE ~Alive /\ PutFailed(h, r) /\ o.ret = r.ret /\ UNCHANGED wire
  <2>1. CASE o.ret = -1
    BY <1>1, <1>2, <1>5, <2>1, GoneKeeps
  <2>2. CASE o.ret # -1
    <3>1. r.stack.ai \in (h.ai + 1)..h.last
      BY <1>5, <2>2 DEF PutFailed
    <3>2. h.last = 1 /\ h.ai \in Nat /\ 1 <= h.ai
      BY <1>1, <1>3, StackNumbers DEF OrderInv, Written, Addr
    <3> QED BY <3>1, <3>2
  <2> QED BY <2>1, <2>2
<1> QED BY <1>2, <1>4, <1>5 DEF Asks

LEMMA AnswerOrder ==
  ASSUME TInv, OrderInv, ProxyAnswers
  PROVE  OrderInv'
<1>1. /\ ClientInv /\ UNCHANGED <<app, wire, srv, got>> /\ Ready /\ h.proxy /\ h.phase = 1
  BY DEF TInv, ProxyAnswers
<1>2. PICK o : /\ Calls(o)
               /\ (o.ret = -1 \/ (Alive /\ Stays(o) /\ o.stack.phase = 2
                                  /\ o.stack.state = "CONNECTING"))
  BY <1>1, ProxyCalls
<1>3. h.state \in Busy /\ h.ai \in Addr /\ h.state = "CONNECTING"
  BY <1>1, ReadyIs
<1>4. CASE o.ret = -1
  BY <1>1, <1>2, <1>4, GoneKeeps
<1>5. CASE o.ret # -1
  <2>1. Alive /\ Stays(o) /\ o.stack.phase = 2 /\ o.stack.state = "CONNECTING"
    BY <1>2, <1>5
  <2>2. /\ h' = o.stack /\ link'[h.ai] = "up" /\ h'.ai = h.ai /\ h'.proxy = h.proxy /\ h'.last = h.last
        /\ \A b \in Addr : b # h.ai => link'[b] # "up"
    BY <1>1, <1>2, <1>3, <1>5, <2>1, SamePlace, LinksMove DEF Alive, Stays
  <2>3. h.written = -1 /\ h'.written = -1
    BY <1>1, <1>3, <2>1, <2>2 DEF OrderInv, Written, Stays
  <2>4. Written'
    BY <1>1, <1>3, <2>1, <2>2, <2>3 DEF OrderInv, Written, Stays, Busy
  <2>5. Pos = <<1, 1>> /\ Pos' = <<1, 1>>
    BY <1>1, <1>3, <2>1, <2>2 DEF Pos
  <2>6. First' = First
    BY <2>2 DEF First
  <2>7. ASSUME NEW b \in Addr PROVE Stream(b)'
    <3>1. link'[b] \in Quiet => link[b] \in Quiet
      BY <1>1, <1>2, LinksMove
    <3>2. link'[b] = "up" => link[b] = "up"
      BY <1>1, <1>2, LinksMove
    <3> QED BY <1>1, <2>5, <2>6, <3>1, <3>2, StreamKept DEF OrderInv
  <2> QED BY <2>4, <2>7 DEF OrderInv
<1> QED BY <1>4, <1>5

LEMMA RcvOrder ==
  ASSUME TInv, OrderInv, RcvConnect
  PROVE  OrderInv'
<1>1. ClientInv /\ UNCHANGED <<wire, srv, got>> /\ Ready /\ (h.proxy => h.phase = 2)
  BY DEF TInv, RcvConnect
<1>2. PICK o : Calls(o) /\ Receives(o)
  BY <1>1, RcvCalls DEF RcvConnect
<1>3. /\ h \in Stack /\ h.state \in Busy /\ h.ai \in Addr /\ h.state = "CONNECTING"
      /\ h.pipe = "none" /\ link[h.ai] \notin {"idle", "syn"}
  BY <1>1, ReadyIs DEF Ready
<1>4. h.written \in Int /\ (h.proxy => h.written = -1) /\ (~h.proxy => h.written <= 0)
  BY <1>1, <1>3, StackNumbers DEF OrderInv, Written
<1>5. CASE o.ret = -1
  BY <1>1, <1>2, <1>5, GoneKeeps
<1>6. CASE o.ret # -1 /\ Stays(o) /\ o.stack.phase = h.phase
           /\ \/ o.stack.state = "DATAXFER" /\ app' = 1
              \/ o.stack.state = "CONNECTING" /\ app' = app
  <2>1. /\ h' = o.stack /\ link'[h.ai] = link[h.ai] /\ h'.ai = h.ai
        /\ h'.proxy = h.proxy /\ h'.last = h.last
    BY <1>1, <1>2, <1>3, <1>6, SamePlace, LinksMove DEF Stays
  <2>2. h'.written = h.written /\ h'.phase = h.phase /\ h'.pipe = "none"
        /\ h'.state \in {"DATAXFER", "CONNECTING"}
    BY <1>6, <2>1 DEF Stays
  <2>3. Written'
    BY <1>3, <1>4, <2>1, <2>2 DEF OrderInv, Written, Busy
  <2>4. First' = First
    BY <2>1 DEF First
  <2>5. Pos = <<1, 1>> /\ Pos' = <<1, 1>>
    <3>1. Most(h'.written, 0) = 0
      BY <1>4, <2>2 DEF Most
    <3> QED BY <1>1, <1>3, <1>6, <2>1, <2>2, <3>1 DEF Pos
  <2>6. ASSUME NEW b \in Addr PROVE Stream(b)'
    <3>1. /\ link'[b] \in Quiet => link[b] \in Quiet
          /\ link'[b] = "up" => link[b] = "up"
      BY <1>1, <1>2, LinksMove
    <3> QED BY <1>1, <2>4, <2>5, <3>1, StreamKept DEF OrderInv
  <2> QED BY <2>3, <2>6 DEF OrderInv
<1>7. CASE o.ret # -1 /\ Tries(h, h.ai + 1, o)
  <2>1. /\ o.stack.state = "CONNECTING" /\ o.stack.ai \in (h.ai + 1)..h.last
        /\ o.stack.pipe = "none" /\ o.stack.phase = h.phase /\ o.stack.written = h.written
    BY <1>3, <1>7 DEF Tries
  <2>2. Fresh(o)
    BY <1>3, <1>4, <1>7, <2>1, NextIsFresh
  <2> QED BY <1>1, <1>2, <2>2, FreshKeeps
<1> QED BY <1>2, <1>5, <1>6, <1>7 DEF Receives

LEMMA PutOrder ==
  ASSUME TInv, OrderInv, Put
  PROVE  OrderInv'
<1>1. ClientInv /\ UNCHANGED <<srv, got>> /\ h.state = "DATAXFER" /\ app \in 0..Messages
  BY BoundsAssumption DEF TInv, ServersInv, Put
<1>2. PICK o : Calls(o) /\ Sends(o)
  BY <1>1, PutCalls
<1>3. h \in Stack /\ h.state \in Busy /\ h.pipe = "none" /\ h.ai \in Addr /\ Half(h)
  BY <1>1, WritingIs
<1>4. CASE /\ Alive /\ Puts(h, app, o) /\ wire' = [wire EXCEPT ![h.ai] = @ \o o.wire]
           /\ app' = IF o.ret = 0 THEN app + 1 ELSE app
  <2>1. CASE o.ret = -1
    <3>1. wire' = wire
      BY <1>3, <1>4, <2>1, NothingWritten
    <3> QED BY <1>1, <1>2, <2>1, <3>1, GoneKeeps
  <2>2. CASE o.ret # -1
    <3>1. o.stack.ai = h.ai /\ o.stack.pipe = "none" /\ o.stack.state = "DATAXFER"
          /\ o.stack.phase = h.phase /\ o.ret \in {0, 1} /\ (o.ret = 0 => o.stack.written = -1)
      BY <1>1, <1>3, <1>4, <2>2 DEF Puts
    <3>2. /\ h' = o.stack /\ link'[h.ai] = "up" /\ h'.ai = h.ai /\ h'.proxy = h.proxy /\ h'.last = h.last
      BY <1>1, <1>2, <1>3, <1>4, <2>2, <3>1, SamePlace, LinksMove DEF Alive
    <3>3. Written'
      BY <1>1, <1>3, <3>1, <3>2 DEF OrderInv, Written, Busy
    <3>4. Pos = <<app, Most(h.written, 0) + 1>>
      BY <1>1 DEF Pos
    <3>5. Pos' = IF o.ret = 1 THEN <<app, Most(h'.written, 0) + 1>> ELSE <<app + 1, 1>>
      <4>1. o.ret = 0 => Most(h'.written, 0) + 1 = 1
        BY <3>1, <3>2 DEF Most
      <4> QED BY <1>4, <3>1, <3>2, <4>1 DEF Pos
    <3>6. PICK a \in Addr : a = h.ai
      BY <1>3
    <3>7. link[a] = "up" /\ wire' = [wire EXCEPT ![a] = @ \o o.wire]
      BY <1>4, <3>6 DEF Alive
    <3>8. srv' = srv /\ got' = got
      BY <1>1
    <3>9. PICK m \in 0..Messages : m = app
      BY <1>1
    <3>10. Pos = <<m, Most(h.written, 0) + 1>>
           /\ Pos' = IF o.ret = 1 THEN <<m, Most(h'.written, 0) + 1>> ELSE <<m + 1, 1>>
      BY <3>4, <3>5, <3>9
    <3>11. \A b \in Addr : Stream(b)'
      BY <1>2, <1>3, <1>4, <2>2, <3>1, <3>6, <3>7, <3>8, <3>9, <3>10, WriteKeeps
    <3> QED BY <3>3, <3>11 DEF OrderInv
  <2> QED BY <2>1, <2>2
<1>5. CASE ~Alive /\ PutFailed(h, o) /\ UNCHANGED <<wire, app>>
  <2>1. CASE o.ret = -1
    BY <1>1, <1>2, <1>5, <2>1, GoneKeeps
  <2>2. CASE o.ret # -1
    <3>1. /\ o.stack.state = "CONNECTING" /\ o.stack.ai \in (h.ai + 1)..h.last
          /\ o.stack.pipe = "none" /\ o.stack.phase = h.phase /\ o.stack.written = Before(h)
      BY <1>3, <1>5, <2>2 DEF PutFailed
    <3>2. h.proxy \/ h.written <= 0
      BY <1>1, <1>5 DEF OrderInv, Written, Alive
    <3>3. h.proxy \/ o.stack.written <= 0
      BY <3>1, <3>2 DEF Before
    <3>4. Fresh(o)
      BY <1>3, <2>2, <3>1, <3>3, NextIsFresh
    <3> QED BY <1>1, <1>2, <1>5, <3>4, FreshKeeps
  <2> QED BY <2>1, <2>2
<1> QED BY <1>2, <1>4, <1>5 DEF Sends

\* What happens to the connections keeps the order, as long as none that has
\* carried bytes is lost.
LEMMA LinkOrder ==
  ASSUME ~LateReset, TInv, OrderInv, NEW a \in Addr, Answers(a) \/ Reset(a)
  PROVE  OrderInv'
<1>1. /\ h \in Stack /\ link \in Links /\ OneOpen /\ wire \in [Addr -> Seq(Byte)]
      /\ \A b \in Addr : Stream(b)
  BY DEF TInv, ClientInv, ServersInv, OrderInv
<1>2. UNCHANGED <<h, app, wire, srv, got>>
  <2>1. CASE Answers(a)
    BY <2>1 DEF Answers
  <2>2. CASE Reset(a)
    <3>1. wire[a] = <<>> /\ wire' = [wire EXCEPT ![a] = <<>>] /\ UNCHANGED <<h, app, srv, got>>
      BY <2>2 DEF Reset
    <3> QED BY <1>1, <3>1
  <2> QED BY <2>1, <2>2
<1>3. First' = First /\ Pos' = Pos
  BY <1>2 DEF First, Pos
<1>4. PICK s \in {"up", "refused", "reset"} :
        /\ link' = [link EXCEPT ![a] = s]
        /\ s = "reset" => link[a] = "up" /\ h.written <= 0
        /\ s # "reset" => link[a] = "syn"
  BY DEF Answers, Reset
<1>5. link'[a] = s /\ \A b \in Addr : b # a => link'[b] = link[b]
  BY <1>1, <1>4 DEF Links
<1>6. link[a] \in Open
  BY <1>4 DEF Open
<1>7. h.state \in Busy /\ a = h.ai
  <2>1. h.state \in {"UNBND", "CLOSED"} \cup Busy
    BY <1>1 DEF Stack, Busy
  <2>2. h.state \in Busy
    BY <1>1, <1>6, <2>1 DEF OneOpen, Open
  <2> QED BY <1>1, <1>6, <2>2 DEF OneOpen
<1>8. h.pipe = "none"
  BY <1>6 DEF OrderInv, Written, Open
<1>9. Written'
  <2>1. h' = h /\ link'[h.ai] = s
    BY <1>2, <1>5, <1>7
  <2>2. s # "reset" => h.state = "CONNECTING"
    BY <1>4, <1>7 DEF OrderInv, Written
  <2> QED BY <1>4, <1>7, <1>8, <2>1, <2>2 DEF OrderInv, Written, Busy
<1>10. ASSUME NEW b \in Addr, b # a \/ s # "up" PROVE Stream(b)'
  <2>1. link'[b] \in Quiet => link[b] \in Quiet
    BY <1>4, <1>5 DEF Quiet
  <2>2. link'[b] = "up" => link[b] = "up"
    BY <1>4, <1>5, <1>10
  <2> QED BY <1>1, <1>2, <1>3, <2>1, <2>2, StreamKept
<1>11. CASE s = "up"
  <2> DEFINE q == Kept(a)
             x == Start(a)
  <2>1. q = srv'[a].alt \o wire'[a] /\ x = <<First' + Len(got'[a]), 1>>
    BY <1>2, <1>3 DEF Kept, Start
  <2>2. link[a] \in Quiet /\ link[a] = "syn"
    BY <1>4, <1>11 DEF Quiet
  <2>3. q = <<>> /\ got[a] = <<>>
    BY <1>1, <2>2 DEF Stream
  <2>4. x = <<First, 1>>
    BY <2>3, EmptySeq DEF Start, First
  <2>5. h.state = "CONNECTING" /\ h.phase = 0 /\ h.written <= 0 /\ h.written \in Int
    BY <1>1, <1>7, <2>2, StackNumbers DEF OrderInv, Written
  <2>6. Pos = <<First, 1>>
    BY <2>5 DEF Pos, First, Most
  <2>7. End(q, x) = Pos'
    BY <1>3, <2>3, <2>4, <2>6 DEF End
  <2>8. /\ \A i \in DOMAIN got'[a] : got'[a][i] = First' + i - 1
        /\ srv'[a].err # "CSPROTERR" /\ (srv'[a].listener = "INCON" => srv'[a].state = "none")
        /\ srv'[a].state # "closed" => Follows(q, x)
    BY <1>1, <1>2, <1>3 DEF Stream
  <2>9. link'[a] \notin Quiet
    BY <1>5, <1>11 DEF Quiet
  <2> HIDE DEF q, x
  <2>10. Stream(a)'
    BY <2>1, <2>7, <2>8, <2>9, StreamIf
  <2> QED BY <1>9, <1>10, <2>10 DEF OrderInv
<1> QED BY <1>9, <1>10, <1>11 DEF OrderInv

\* A server that accepts a connection.
LEMMA AcceptOrder ==
  ASSUME TInv, OrderInv, NEW a \in Addr, Listen(a) \/ Accept(a)
  PROVE  Stream(a)' /\ UNCHANGED <<wire, got>> /\ \A b \in Addr : b # a => srv'[b] = srv[b]
<1>1. srv \in [Addr -> Reader] /\ Stream(a)
  BY DEF TInv, ServersInv, OrderInv
<1>2. UNCHANGED <<h, app, link, wire, got>>
  BY DEF Listen, Accept
<1>3. First' = First /\ Pos' = Pos
  BY <1>2 DEF First, Pos
<1>4. /\ srv'[a].alt = srv[a].alt /\ srv'[a].err = srv[a].err
      /\ srv'[a].listener = "INCON" => srv'[a].state = "none"
      /\ srv[a].state # "closed"
      /\ \A b \in Addr : b # a => srv'[b] = srv[b]
  <2>1. CASE Listen(a)
    <3> DEFINE x == [srv[a] EXCEPT !.listener = "INCON"]
    <3>1. srv' = [srv EXCEPT ![a] = x] /\ srv[a].state = "none"
      BY <1>1, <2>1 DEF Listen
    <3>2. x.alt = srv[a].alt /\ x.err = srv[a].err /\ x.state = srv[a].state
      BY <1>1 DEF Reader
    <3> HIDE DEF x
    <3> QED BY <1>1, <3>1, <3>2
  <2>2. CASE Accept(a)
    <3>1. PICK s : srv' = [srv EXCEPT ![a].listener = "IDLE", ![a].state = s]
      BY <2>2 DEF Accept
    <3> DEFINE x == [srv[a] EXCEPT !.listener = "IDLE", !.state = s]
    <3>2. srv' = [srv EXCEPT ![a] = x]
      BY <1>1, <3>1
    <3>3. x.alt = srv[a].alt /\ x.err = srv[a].err /\ x.listener = "IDLE"
      BY <1>1 DEF Reader
    <3>4. srv[a].state # "closed"
      BY <1>1, <2>2 DEF Accept, Stream
    <3> HIDE DEF x
    <3> QED BY <1>1, <3>2, <3>3, <3>4
  <2> QED BY <2>1, <2>2
<1> DEFINE q == Kept(a)
           x == Start(a)
<1>5. q = srv'[a].alt \o wire'[a] /\ x = <<First' + Len(got'[a]), 1>>
  BY <1>2, <1>3, <1>4 DEF Kept, Start
<1>6. /\ \A i \in DOMAIN got'[a] : got'[a][i] = First' + i - 1
      /\ srv'[a].err # "CSPROTERR"
      /\ link'[a] \in Quiet => q = <<>> /\ got'[a] = <<>>
      /\ Follows(q, x) /\ (link'[a] = "up" => End(q, x) = Pos')
  BY <1>1, <1>2, <1>3, <1>4 DEF Stream
<1> HIDE DEF q, x
<1>7. Stream(a)'
  BY <1>4, <1>5, <1>6, StreamIf
<1> QED BY <1>2, <1>4, <1>7

\* A server that reads: it gets the message that it expects, or waits for the
\* rest of it.
LEMMA GetOrder ==
  ASSUME TInv, OrderInv, NEW a \in Addr, Get(a)
  PROVE  Stream(a)' /\ \A b \in Addr : b # a => /\ srv'[b] = srv[b] /\ wire'[b] = wire[b]
                                               /\ got'[b] = got[b]
<1>1. /\ srv \in [Addr -> Reader] /\ wire \in [Addr -> Seq(Byte)]
      /\ got \in [Addr -> Seq(0..Messages)] /\ Stream(a)
  BY DEF TInv, ServersInv, OrderInv
<1>2. UNCHANGED <<h, app, link>> /\ srv[a].state = "DATAXFER"
      /\ (wire[a] # <<>> \/ link[a] \in {"fin", "reset"} \/ srv[a].alt # <<>>)
  BY DEF Get, TcpipMore
<1>3. First' = First /\ Pos' = Pos /\ First \in Nat
  BY <1>2 DEF First, Pos
<1>4. PICK o : Reads(a, o)
  BY GetReads
<1>5. PICK y \in Reader : srv' = [srv EXCEPT ![a] = y] /\ Read(srv[a], o, y)
  BY <1>4 DEF Reads
<1> DEFINE g == IF o.ret = "message" THEN Append(got[a], o.msg) ELSE got[a]
<1>6. wire' = [wire EXCEPT ![a] = o.wire] /\ got' = [got EXCEPT ![a] = g]
  BY <1>4 DEF Reads
<1> HIDE DEF g
<1>7. /\ srv'[a] = y /\ wire'[a] = o.wire /\ got'[a] = g
      /\ \A b \in Addr : b # a => srv'[b] = srv[b] /\ wire'[b] = wire[b] /\ got'[b] = got[b]
  BY <1>1, <1>5, <1>6
<1> DEFINE q == Kept(a)
           x == Start(a)
           rest == o.stack.alt \o o.wire
           n == Len(got[a])
           m == First + n
<1>8. /\ q \in Seq(Byte) /\ q = srv[a].alt \o wire[a] /\ x = <<m, 1>> /\ n \in Nat /\ m \in Nat
  <2>1. srv[a].alt \in Seq(Byte) /\ wire[a] \in Seq(Byte) /\ got[a] \in Seq(0..Messages)
    BY <1>1 DEF Reader
  <2>2. srv[a].alt \o wire[a] \in Seq(Byte) /\ n \in Nat
    BY <2>1, ConcatProperties, LenProperties
  <2> QED BY <1>3, <2>2 DEF Kept, Start
<1>9. Follows(q, x) /\ (link[a] = "up" => End(q, x) = Pos)
  BY <1>1, <1>2 DEF Stream
<1>10. link[a] \notin Quiet
  <2>1. SUFFICES ASSUME link[a] \in Quiet PROVE FALSE
    OBVIOUS
  <2>2. srv[a].alt \o wire[a] = <<>>
    BY <1>1, <2>1 DEF Stream, Kept
  <2>3. srv[a].alt \in Seq(Byte) /\ wire[a] \in Seq(Byte)
    BY <1>1 DEF Reader
  <2>4. srv[a].alt = <<>> /\ wire[a] = <<>>
    <3> DEFINE s == srv[a].alt
               w == wire[a]
    <3>1. s \in Seq(Byte) /\ w \in Seq(Byte) /\ s \o w = <<>>
      BY <2>2, <2>3
    <3> HIDE DEF s, w
    <3>2. Len(s \o w) = Len(s) + Len(w) /\ Len(s) \in Nat /\ Len(w) \in Nat /\ s \o w \in Seq(Byte)
      BY <3>1, ConcatProperties, LenProperties
    <3>3. Len(s \o w) = 0
      BY <3>1, EmptySeq
    <3>4. Len(s) = 0 /\ Len(w) = 0
      BY <3>2, <3>3
    <3>5. s = <<>> /\ w = <<>>
      BY <3>1, <3>4, EmptySeq
    <3> QED BY <3>5 DEF s, w
  <2> QED BY <1>2, <2>1, <2>4 DEF Quiet
<1>11. q # <<>> => q[1] = <<m, 1>>
  <2>1. SUFFICES ASSUME q # <<>> PROVE q[1] = <<m, 1>>
    OBVIOUS
  <2> HIDE DEF q, x, m
  <2>2. 1 \in 1..Len(q)
    <3>1. q \in Seq(Byte)
      BY <1>8
    <3>2. Len(q) \in Nat \ {0}
      BY <2>1, <3>1, EmptySeq
    <3> QED BY <3>2
  <2> QED BY <1>8, <1>9, <2>2 DEF Follows
<1>12. GetTakes(q, o) /\ o.ret \in {"CSBUFSIZE", "eof", "again", "CSPROTERR", "message"}
  BY <1>4, <1>8 DEF Reads, GetSafe
<1>13. y.alt = o.stack.alt /\ y.listener = srv[a].listener
       /\ y.state = (IF o.ret \in {"eof", "CSBUFSIZE", "CSPROTERR"} THEN "closed" ELSE srv[a].state)
       /\ y.err = (IF o.ret \in {"CSBUFSIZE", "CSPROTERR"} THEN o.ret ELSE srv[a].err)
  BY <1>5 DEF Read
<1> HIDE DEF q, rest
<1>14. o.ret # "CSPROTERR"
  BY <1>11, <1>12 DEF GetTakes
<1>15. /\ srv'[a].err # "CSPROTERR"
       /\ srv'[a].listener = "INCON" => srv'[a].state = "none"
       /\ link'[a] \notin Quiet
  BY <1>1, <1>2, <1>7, <1>10, <1>13, <1>14 DEF Stream
<1>16. CASE o.ret = "message"
  <2>1. q # <<>> /\ Size(q[1][1]) <= Len(q) /\ o.msg = q[1][1]
        /\ rest = SubSeq(q, Size(q[1][1]) + 1, Len(q))
    BY <1>12, <1>16 DEF GetTakes, rest
  <2>2. q[1][1] = m
    BY <1>11, <2>1
  <2>3. Size(m) <= Len(q) /\ o.msg = m /\ rest = SubSeq(q, Size(m) + 1, Len(q))
    BY <2>1, <2>2
  <2>4. g = Append(got[a], m) /\ m \in 0..Messages
    BY <1>4, <1>16, <2>3 DEF g, Reads, GetSafe
  <2>5. /\ Len(g) = n + 1 /\ DOMAIN g = 1..(n + 1)
        /\ \A i \in 1..n : g[i] = got[a][i]
        /\ g[n + 1] = m
    BY <1>1, <2>4, AppendProperties
  <2>6. \A i \in DOMAIN g : g[i] = First + i - 1
    <3>1. SUFFICES ASSUME NEW i \in 1..(n + 1) PROVE g[i] = First + i - 1
      BY <2>5
    <3>2. CASE i \in 1..n
      <4>1. i \in DOMAIN got[a]
        BY <1>1, <3>2, LenProperties
      <4> QED BY <1>1, <2>5, <3>2, <4>1 DEF Stream
    <3>3. CASE i \notin 1..n
      <4>1. i = n + 1
        BY <1>8, <3>3
      <4> QED BY <1>3, <1>8, <2>5, <4>1
    <3> QED BY <3>2, <3>3
  <2>7. <<First' + Len(got'[a]), 1>> = <<m + 1, 1>>
    BY <1>3, <1>7, <1>8, <2>5
  <2>8. Follows(q, <<m, 1>>) /\ m \in Int
    BY <1>8, <1>9
  <2> HIDE DEF m, x
  <2>9. Follows(rest, <<m + 1, 1>>) /\ End(rest, <<m + 1, 1>>) = End(q, <<m, 1>>)
    BY <1>8, <2>3, <2>8, FollowsRest
  <2>10. rest = srv'[a].alt \o wire'[a]
    BY <1>7, <1>13 DEF rest
  <2>11. /\ \A i \in DOMAIN got'[a] : got'[a][i] = First' + i - 1
         /\ link'[a] = "up" => End(rest, <<m + 1, 1>>) = Pos'
    BY <1>2, <1>3, <1>7, <1>8, <1>9, <2>6, <2>9
  <2>12. Stream(a)'
    BY <1>15, <2>7, <2>9, <2>10, <2>11, StreamIf
  <2> QED BY <1>7, <2>12
<1>17. CASE o.ret # "message"
  <2>1. got'[a] = got[a]
    BY <1>7, <1>17 DEF g
  <2>2. x = <<First' + Len(got'[a]), 1>>
    BY <1>3, <1>8, <2>1
  <2>3. \A i \in DOMAIN got'[a] : got'[a][i] = First' + i - 1
    BY <1>1, <1>3, <2>1 DEF Stream
  <2>4. rest = srv'[a].alt \o wire'[a]
    BY <1>7, <1>13 DEF rest
  <2>5. srv'[a].state # "closed" => Follows(rest, x) /\ (link'[a] = "up" => End(rest, x) = Pos')
    <3>1. SUFFICES ASSUME srv'[a].state # "closed"
                   PROVE  Follows(rest, x) /\ (link'[a] = "up" => End(rest, x) = Pos')
      OBVIOUS
    <3>2. o.ret = "again"
      BY <1>7, <1>12, <1>13, <1>17, <3>1
    <3>3. rest = q
      BY <1>12, <3>2 DEF GetTakes, rest
    <3> HIDE DEF x
    <3> QED BY <1>2, <1>3, <1>9, <3>3
  <2> HIDE DEF x
  <2>6. Stream(a)'
    BY <1>15, <2>2, <2>3, <2>4, <2>5, StreamIf
  <2> QED BY <1>7, <2>6
<1> QED BY <1>16, <1>17

(* A proxy that is asked to CONNECT has one address: with several, a       *)
(* request cut short at one would go on at the next.                       *)
OneProxyAddress ==
  \A scheme \in Schemes, proxy \in ProxySchemes : \A c \in CreateHosts(scheme, proxy) :
    c.connect => ProxyAddresses = 1

LEMMA OrderInit ==
  ASSUME OneProxyAddress, Init
  PROVE  OrderInv
<1>0. PICK scheme \in Schemes, proxy \in ProxySchemes :
        \E c \in CreateHosts(scheme, proxy) : h = NewStack(c)
  BY DEF Init
<1>1. PICK c \in CreateHosts(scheme, proxy) : h = NewStack(c)
  BY <1>0
<1>2. c.connect => ProxyAddresses = 1
  BY DEF OneProxyAddress
<1>3. /\ h.state = "UNBND" /\ h.pipe = "none" /\ h.written = -1 /\ h.phase = 0
      /\ h.proxy => h.last = 1
  BY <1>1, <1>2, NewStackIs
<1>4. Written
  BY <1>3 DEF Written, Busy
<1>5. /\ link = [a \in Addr |-> "idle"] /\ wire = [a \in Addr |-> <<>>]
      /\ srv = [a \in Addr |-> NewServer] /\ got = [a \in Addr |-> <<>>]
  BY DEF Init
<1>6. ASSUME NEW b \in Addr PROVE Stream(b)
  <2>1. /\ link[b] = "idle" /\ wire[b] = <<>> /\ srv[b] = NewServer /\ got[b] = <<>>
    BY <1>5
  <2>2. NewServer.alt = <<>> /\ NewServer.err = NULL /\ NewServer.listener = "IDLE"
    BY DEF NewServer
  <2>3. <<>> \in Seq(Byte) /\ Len(<<>>) = 0
    BY EmptySeq
  <2>4. Kept(b) = <<>>
    <3>1. <<>> \o <<>> = <<>>
      BY <2>3, ConcatEmptySeq
    <3> QED BY <2>1, <2>2, <3>1 DEF Kept
  <2>5. \A x : Follows(<<>>, x)
    BY <2>3 DEF Follows
  <2>6. DOMAIN got[b] = {}
    BY <2>1, <2>3
  <2>7. NULL # "CSPROTERR"
    BY DEF NULL
  <2> QED BY <2>1, <2>2, <2>4, <2>5, <2>6, <2>7 DEF Stream
<1> QED BY <1>4, <1>6 DEF OrderInv

(* However the messages are cut and joined on the way, and whatever        *)
(* addresses are tried, a server reads them whole, in order and from the   *)
(* first one on, as long as no connection that has carried bytes is lost   *)
(* and a proxy has one address; cont_connect starts nothing over, so that  *)
(* without these a message is continued at the next address                *)
(* (src/src/tcpip.c:1350, :1395).                                          *)
THEOREM GotInOrderHolds ==
  ASSUME ~LateReset, OneProxyAddress
  PROVE  Spec => []GotInOrder
<1>1. Init => TInv /\ OrderInv
  BY TInvInit, OrderInit
<1>2. TInv /\ OrderInv /\ [Next]_vars => TInv' /\ OrderInv'
  <2>1. SUFFICES ASSUME TInv, OrderInv, [Next]_vars PROVE TInv' /\ OrderInv'
    OBVIOUS
  <2>2. TInv'
    <3>1. CASE UNCHANGED vars
      BY <2>1, <3>1 DEF vars, TInv, ClientInv, ServersInv, Half, Joined, OneOpen
    <3>2. CASE Client \/ Close \/ ResolverThread
      BY <2>1, <3>2, ClientKeeps
    <3>3. ASSUME NEW a \in Addr, Answers(a) \/ Reset(a) \/ Server(a) PROVE TInv'
      BY <2>1, <3>3, LinkKeeps, ServerKeeps
    <3> QED BY <2>1, <3>1, <3>2, <3>3 DEF Next
  <2>3. OrderInv'
    <3>1. CASE UNCHANGED vars
      <4>1. UNCHANGED <<h, app, link, wire, srv, got>>
        BY <3>1 DEF vars
      <4>2. First' = First /\ Pos' = Pos
        BY <4>1 DEF First, Pos
      <4>3. Written'
        BY <2>1, <4>1 DEF OrderInv, Written
      <4>4. ASSUME NEW b \in Addr PROVE Stream(b)'
        BY <2>1, <4>1, <4>2, StreamKept DEF OrderInv
      <4> QED BY <4>3, <4>4 DEF OrderInv
    <3>2. CASE Straddr \/ ResolverThread
      BY <2>1, <3>2, ResolverOrder
    <3>3. CASE Connect \/ JoinResolver
      BY <2>1, <3>3, ConnectOrder
    <3>4. CASE AskProxy
      BY <2>1, <3>4, AskOrder
    <3>5. CASE ProxyAnswers
      BY <2>1, <3>5, AnswerOrder
    <3>6. CASE RcvConnect
      BY <2>1, <3>6, RcvOrder
    <3>7. CASE Put
      BY <2>1, <3>7, PutOrder
    <3>8. CASE Close
      <4>1. ClientInv /\ UNCHANGED <<wire, srv, got>>
        BY <2>1, <3>8 DEF TInv, Close
      <4>2. PICK o : Calls(o) /\ o.ret = -1
        BY <3>8, <4>1, CloseCalls
      <4> QED BY <2>1, <4>1, <4>2, GoneKeeps
    <3>9. ASSUME NEW a \in Addr, Answers(a) \/ Reset(a) PROVE OrderInv'
      BY <2>1, <3>9, LinkOrder
    <3>10. ASSUME NEW a \in Addr, Server(a) PROVE OrderInv'
      <4>1. UNCHANGED <<h, app, link>>
        BY <3>10 DEF Server, Listen, Accept, Get
      <4>2. First' = First /\ Pos' = Pos
        BY <4>1 DEF First, Pos
      <4>3. Written'
        BY <2>1, <4>1 DEF OrderInv, Written
      <4>4. /\ Stream(a)'
            /\ \A b \in Addr : b # a => /\ srv'[b] = srv[b] /\ wire'[b] = wire[b]
                                        /\ got'[b] = got[b]
        BY <2>1, <3>10, AcceptOrder, GetOrder DEF Server
      <4>5. ASSUME NEW b \in Addr, b # a PROVE Stream(b)'
        BY <2>1, <4>1, <4>2, <4>4, <4>5, StreamKept DEF OrderInv
      <4> QED BY <4>3, <4>4, <4>5 DEF OrderInv
    <3> QED BY <2>1, <3>1, <3>2, <3>3, <3>4, <3>5, <3>6, <3>7, <3>8, <3>9, <3>10 DEF Next, Client
  <2> QED BY <2>2, <2>3
<1>3. TInv /\ OrderInv => GotInOrder
  <2>1. SUFFICES ASSUME TInv, OrderInv, NEW a \in Addr
                 PROVE  /\ \A i \in DOMAIN got[a] : got[a][i] = IF h.proxy THEN i - 1 ELSE i
                        /\ srv[a].err # "CSPROTERR"
    BY DEF GotInOrder
  <2>2. Stream(a)
    BY <2>1 DEF OrderInv
  <2>3. got[a] \in Seq(0..Messages)
    BY <2>1 DEF TInv, ServersInv
  <2>4. ASSUME NEW i \in DOMAIN got[a] PROVE got[a][i] = IF h.proxy THEN i - 1 ELSE i
    <3>1. i \in Nat
      BY <2>3, <2>4, LenProperties
    <3>2. got[a][i] = First + i - 1
      BY <2>2, <2>4 DEF Stream
    <3> QED BY <3>1, <3>2 DEF First
  <2> QED BY <2>2, <2>4 DEF Stream
<1> QED BY <1>1, <1>2, <1>3, PTL DEF Spec
=============================================================================
