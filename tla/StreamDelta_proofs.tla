-------------------------- MODULE StreamDelta_proofs --------------------------
(***************************************************************************)
(* Proofs about StreamDelta for any number of segments, pieces, texts,     *)
(* other messages and connections, and that it implements ReplyView.       *)
(***************************************************************************)
EXTENDS StreamDelta, SequenceTheorems, TLAPS

Piece == (0..MaxSegs) \X (0..MaxLen)

(* The pieces of segment s in q are the first n of s, in a row after       *)
(* position a.                                                             *)
Run(s, q, a, n) ==
  /\ a + n <= Len(q)
  /\ \A i \in DOMAIN q : q[i][1] = s <=> i \in (a + 1)..(a + n)
  /\ \A k \in 1..n : q[a + k] = <<s, k>>

(* A text or another message comes only between two replies.               *)
OneAtATime == ~TextsMidReply /\ ~NoticesMidReply

LEMMA Bounds ==
  /\ MaxSegs \in Nat /\ MaxLen \in Nat /\ MaxTexts \in Nat /\ MaxNotices \in Nat
  /\ MaxConns \in Nat /\ NoState \notin Nat
BY StreamAssumption DEF StreamAssumption
-----------------------------------------------------------------------------
(* The text of a segment, its suffixes and the cursor.                     *)

LEMMA TextIs ==
  ASSUME NEW s \in 0..MaxSegs, NEW n \in 0..MaxLen
  PROVE  /\ Text(s, n) \in Seq(Piece) /\ Len(Text(s, n)) = n
         /\ \A k \in 1..n : Text(s, n)[k] = <<s, k>>
BY Bounds DEF Text, Piece

(* delta_for strips the cursor, and only the cursor.                       *)
LEMMA CleanIs ==
  ASSUME NEW s \in 0..MaxSegs, NEW n \in 0..MaxLen,
         NEW content \in {Streamed(s, n), Text(s, n)}
  PROVE  Clean(content) = Text(s, n)
<1> DEFINE t == Text(s, n)
<1>1. t \in Seq(Piece) /\ Len(t) = n /\ n \in Nat /\ \A k \in 1..n : t[k] = <<s, k>>
  <2>1. n \in Nat
    BY Bounds
  <2>2. t \in Seq(Piece) /\ Len(t) = n /\ \A k \in 1..n : t[k] = <<s, k>>
    BY TextIs
  <2>3. QED BY <2>1, <2>2
<1>2. Cursor \in Piece
  BY Bounds DEF Cursor, Piece
<1>3. CASE content = t
  <2>1. t # <<>> => Last(t) = <<s, n>> /\ n # 0
    BY <1>1 DEF Last
  <2>2. t # <<>> => Last(t) # Cursor
    BY <2>1 DEF Cursor
  <2>3. QED BY <1>3, <2>2 DEF Clean
<1>4. CASE content = Streamed(s, n)
  <2>1. /\ content \in Seq(Piece) /\ content # <<>> /\ Len(content) = n + 1
        /\ content[n + 1] = Cursor /\ \A k \in 1..n : content[k] = t[k]
    BY <1>1, <1>2, <1>4, AppendProperties DEF Streamed
  <2>2. Last(content) = Cursor
    BY <2>1 DEF Last
  <2>3. /\ Front(content) \in Seq(Piece) /\ Len(Front(content)) = n
        /\ \A k \in 1..n : Front(content)[k] = t[k]
    BY <1>1, <2>1 DEF Front
  <2>4. Front(content) = t
    BY <1>1, <2>3, SeqEqual
  <2>5. QED BY <2>1, <2>2, <2>4 DEF Clean
<1>5. QED BY <1>3, <1>4

(* The delta begins behind the marker.                                     *)
LEMMA SuffixBehind ==
  ASSUME NEW s \in 0..MaxSegs, NEW n \in 0..MaxLen, NEW m \in 0..n
  PROVE  /\ Suffix(m, Text(s, n)) \in Seq(Piece)
         /\ Len(Suffix(m, Text(s, n))) = n - m
         /\ \A k \in 1..(n - m) : Suffix(m, Text(s, n))[k] = <<s, m + k>>
<1> DEFINE t == Text(s, n)
<1>1. t \in Seq(Piece) /\ Len(t) = n /\ n \in Nat /\ \A k \in 1..n : t[k] = <<s, k>>
  BY TextIs, Bounds
<1>2. Suffix(m, t) = SubSeq(t, m + 1, n)
  BY <1>1 DEF Suffix
<1> HIDE DEF t
<1>3. \A i \in (m + 1)..n : t[i] \in Piece
  BY <1>1
<1>4. /\ SubSeq(t, m + 1, n) \in Seq(Piece)
      /\ Len(SubSeq(t, m + 1, n)) = n - m
      /\ \A k \in 1..(n - m) : SubSeq(t, m + 1, n)[k] = t[m + k]
  BY <1>1
<1>5. \A k \in 1..(n - m) : t[m + k] = <<s, m + k>>
  BY <1>1
<1>6. QED BY <1>2, <1>4, <1>5 DEF t

(* A text shorter than the marker says is sent from its beginning.         *)
LEMMA SuffixShrunk ==
  ASSUME NEW s \in 0..MaxSegs, NEW n \in 0..MaxLen, NEW m \in Nat,
         n < m \/ m = 0
  PROVE  Suffix(m, Text(s, n)) = Suffix(0, Text(s, n))
<1>1. Len(Text(s, n)) = n /\ n \in Nat
  BY TextIs, Bounds
<1>2. QED BY <1>1 DEF Suffix
-----------------------------------------------------------------------------
(* Runs.                                                                   *)

(* What has a run of a segment has that beginning of its text.             *)
LEMMA RunIsText ==
  ASSUME NEW s \in 0..MaxSegs, NEW q \in Seq(Piece), NEW a \in Nat,
         NEW n \in 0..MaxLen, Run(s, q, a, n)
  PROVE  Of(s, q) = Text(s, n)
<1> USE Bounds
<1>1. At(s, q) = (a + 1)..(a + n)
  BY DEF At, Run
<1>2. CASE n = 0
  <2>1. At(s, q) = {}
    BY <1>1, <1>2
  <2>2. Text(s, n) = <<>>
    BY <1>2 DEF Text
  <2>3. QED BY <2>1, <2>2 DEF Of
<1>3. CASE n # 0
  <2>1. Min((a + 1)..(a + n)) = a + 1 /\ Max((a + 1)..(a + n)) = a + n
    BY <1>3 DEF Min, Max
  <2>2. Of(s, q) = SubSeq(q, a + 1, a + n)
    <3>1. a + 1 \in At(s, q)
      BY <1>1, <1>3
    <3>2. Min(At(s, q)) = a + 1 /\ Max(At(s, q)) = a + n
      BY <1>1, <2>1
    <3>3. QED BY <3>1, <3>2 DEF Of
  <2>3. /\ SubSeq(q, a + 1, a + n) \in Seq(Piece)
        /\ Len(SubSeq(q, a + 1, a + n)) = n
        /\ \A k \in 1..n : SubSeq(q, a + 1, a + n)[k] = <<s, k>>
    BY <1>3 DEF Run
  <2>4. \A k \in 1..n : SubSeq(q, a + 1, a + n)[k] = Text(s, n)[k]
    BY <2>3, TextIs
  <2>5. SubSeq(q, a + 1, a + n) = Text(s, n)
    BY <2>3, <2>4, TextIs, SeqEqual
  <2>6. QED BY <2>2, <2>5
<1>4. QED BY <1>2, <1>3

(* Pieces of other segments leave a run as it is.                          *)
LEMMA RunStays ==
  ASSUME NEW s \in 0..MaxSegs, NEW q \in Seq(Piece), NEW d \in Seq(Piece),
         NEW a \in Nat, NEW n \in 0..MaxLen, Run(s, q, a, n),
         \A i \in 1..Len(d) : d[i][1] # s
  PROVE  Run(s, q \o d, a, n)
<1> USE Bounds
<1>1. /\ Len(q \o d) = Len(q) + Len(d) /\ DOMAIN (q \o d) = 1..(Len(q) + Len(d))
      /\ \A i \in 1..Len(q) : (q \o d)[i] = q[i]
      /\ \A i \in 1..Len(d) : (q \o d)[Len(q) + i] = d[i]
  OBVIOUS
<1>2. \A i \in (Len(q) + 1)..(Len(q) + Len(d)) : (q \o d)[i][1] # s
  <2> SUFFICES ASSUME NEW i \in (Len(q) + 1)..(Len(q) + Len(d))
               PROVE  (q \o d)[i][1] # s
    OBVIOUS
  <2>1. i - Len(q) \in 1..Len(d) /\ i = Len(q) + (i - Len(q))
    OBVIOUS
  <2>2. QED BY <1>1, <2>1
<1>3. \A k \in 1..n : a + k \in 1..Len(q)
  BY DEF Run
<1>4. \A k \in 1..n : (q \o d)[a + k] = <<s, k>>
  BY <1>1, <1>3 DEF Run
<1>5. \A i \in 1..(Len(q) + Len(d)) : (q \o d)[i][1] = s <=> i \in (a + 1)..(a + n)
  <2>1. ASSUME NEW i \in 1..Len(q)
        PROVE  (q \o d)[i][1] = s <=> i \in (a + 1)..(a + n)
    <3>1. i \in DOMAIN q /\ (q \o d)[i] = q[i]
      BY <1>1
    <3>2. QED BY <3>1 DEF Run
  <2>2. ASSUME NEW i \in (Len(q) + 1)..(Len(q) + Len(d))
        PROVE  (q \o d)[i][1] # s /\ i \notin (a + 1)..(a + n)
    BY <1>2, <2>2 DEF Run
  <2>3. QED BY <2>1, <2>2
<1>6. a + n <= Len(q \o d)
  BY <1>1 DEF Run
<1>7. QED BY <1>1, <1>4, <1>5, <1>6 DEF Run

(* The rest of the text behind a run makes it longer.                      *)
LEMMA RunGrows ==
  ASSUME NEW s \in 0..MaxSegs, NEW q \in Seq(Piece), NEW a \in Nat,
         NEW n \in 0..MaxLen, Run(s, q, a, n), a + n = Len(q),
         NEW m \in n..MaxLen
  PROVE  Run(s, q \o Suffix(n, Text(s, m)), a, m)
<1> DEFINE d == Suffix(n, Text(s, m))
<1>0. m \in 0..MaxLen /\ n \in 0..m /\ m \in Nat /\ n \in Nat
  BY Bounds
<1>1. /\ d \in Seq(Piece) /\ Len(d) = m - n
      /\ \A k \in 1..(m - n) : d[k] = <<s, n + k>>
  BY <1>0, SuffixBehind
<1> HIDE DEF d
<1>2. /\ Len(q \o d) = a + m /\ DOMAIN (q \o d) = 1..(a + m)
      /\ \A i \in 1..Len(q) : (q \o d)[i] = q[i]
      /\ \A i \in 1..(m - n) : (q \o d)[a + n + i] = d[i]
  <2>1. /\ Len(q \o d) = Len(q) + Len(d)
        /\ DOMAIN (q \o d) = 1..(Len(q) + Len(d))
        /\ \A i \in 1..Len(q) : (q \o d)[i] = q[i]
        /\ \A i \in 1..Len(d) : (q \o d)[Len(q) + i] = d[i]
    <3>1. d \in Seq(Piece)
      BY <1>1
    <3>2. QED BY <3>1
  <2>2. Len(q) + Len(d) = a + m
    <3>1. Len(q) = a + n /\ Len(d) = m - n
      BY <1>1
    <3>2. QED BY <1>0, <3>1
  <2>3. DOMAIN (q \o d) = 1..(a + m)
    BY <2>1, <2>2
  <2>4. \A i \in 1..(m - n) : (q \o d)[a + n + i] = d[i]
    BY <1>1, <2>1
  <2>5. QED BY <2>1, <2>2, <2>3, <2>4
<1>3. \A k \in 1..m : (q \o d)[a + k] = <<s, k>>
  <2>1. ASSUME NEW k \in 1..n PROVE (q \o d)[a + k] = <<s, k>>
    <3>1. a + k \in 1..Len(q) /\ q[a + k] = <<s, k>>
      BY <1>0 DEF Run
    <3>2. QED BY <1>2, <3>1
  <2>2. ASSUME NEW k \in (n + 1)..m PROVE (q \o d)[a + k] = <<s, k>>
    <3>1. k - n \in 1..(m - n) /\ a + k = a + n + (k - n) /\ n + (k - n) = k
      BY <1>0
    <3>2. (q \o d)[a + k] = d[k - n] /\ d[k - n] = <<s, k>>
      BY <1>1, <1>2, <3>1
    <3>3. QED BY <3>2
  <2>3. 1..m = (1..n) \cup ((n + 1)..m)
    BY <1>0
  <2>4. QED BY <2>1, <2>2, <2>3
<1>4. \A i \in 1..(a + m) : (q \o d)[i][1] = s <=> i \in (a + 1)..(a + m)
  <2>1. ASSUME NEW i \in 1..a PROVE (q \o d)[i][1] # s
    <3>1. i \in DOMAIN q /\ (q \o d)[i] = q[i] /\ i \notin (a + 1)..(a + n)
      BY <1>0, <1>2
    <3>2. QED BY <3>1 DEF Run
  <2>2. ASSUME NEW i \in (a + 1)..(a + m) PROVE (q \o d)[i][1] = s
    <3>1. i - a \in 1..m /\ i = a + (i - a)
      BY <1>0
    <3>2. (q \o d)[i] = <<s, i - a>>
      BY <1>3, <3>1
    <3>3. QED BY <3>2
  <2>3. /\ 1..(a + m) = (1..a) \cup ((a + 1)..(a + m))
        /\ \A i \in 1..a : i \notin (a + 1)..(a + m)
    BY <1>0
  <2>4. QED BY <2>1, <2>2, <2>3
<1>5. Run(s, q \o d, a, m)
  <2>1. a + m <= Len(q \o d)
    BY <1>0, <1>2
  <2>2. QED BY <1>2, <1>3, <1>4, <2>1 DEF Run
<1>6. QED BY <1>5 DEF d

(* A segment of which there is nothing can start anywhere.                 *)
LEMMA RunStarts ==
  ASSUME NEW s \in 0..MaxSegs, NEW q \in Seq(Piece), NEW a \in 0..Len(q),
         \A i \in DOMAIN q : q[i][1] # s
  PROVE  Run(s, q, a, 0)
BY DEF Run

(* Segments in order, none behind g, and no cursor.                        *)
Ordered(q, g) ==
  /\ \A i \in DOMAIN q : q[i][1] <= g /\ q[i] # Cursor
  /\ \A i, j \in DOMAIN q :
       i < j /\ q[i][1] # 0 /\ q[j][1] # 0 => q[i][1] <= q[j][1]

(* Pieces of segment s and no cursor.                                      *)
PiecesOf(s, d) ==
  /\ d \in Seq(Piece)
  /\ \A k \in 1..Len(d) : d[k][1] = s /\ d[k] # Cursor

(* Pieces of the last segment, or of another message, keep the order.      *)
LEMMA OrderStays ==
  ASSUME NEW q \in Seq(Piece), NEW d, NEW g \in Nat,
         Ordered(q, g), NEW s \in {0, g}, PiecesOf(s, d)
  PROVE  Ordered(q \o d, g)
<1> DEFINE r == q \o d
<1>0. d \in Seq(Piece) /\ \A k \in 1..Len(d) : d[k][1] = s /\ d[k] # Cursor
  BY DEF PiecesOf
<1>1. /\ DOMAIN r = 1..(Len(q) + Len(d))
      /\ \A i \in 1..Len(q) : r[i] = q[i]
      /\ \A i \in 1..Len(d) : r[Len(q) + i] = d[i]
      /\ Len(q) \in Nat /\ Len(d) \in Nat
  BY <1>0
<1> HIDE DEF r
<1>2. \A i \in (Len(q) + 1)..(Len(q) + Len(d)) : r[i][1] = s /\ r[i] # Cursor
  <2> SUFFICES ASSUME NEW i \in (Len(q) + 1)..(Len(q) + Len(d))
               PROVE  r[i][1] = s /\ r[i] # Cursor
    OBVIOUS
  <2>1. i - Len(q) \in 1..Len(d) /\ i = Len(q) + (i - Len(q))
    BY <1>1
  <2>2. r[i] = d[i - Len(q)]
    BY <1>1, <2>1
  <2>3. QED BY <1>0, <2>1, <2>2
<1>3. \A i \in 1..Len(q) : r[i][1] <= g /\ r[i] # Cursor
  BY <1>1 DEF Ordered
<1>4. \A i \in DOMAIN r : i \in 1..Len(q) \/ i \in (Len(q) + 1)..(Len(q) + Len(d))
  BY <1>1
<1>5. \A i \in DOMAIN r : r[i][1] <= g /\ r[i] # Cursor
  BY <1>2, <1>3, <1>4
<1>6. ASSUME NEW i \in DOMAIN r, NEW j \in DOMAIN r,
             i < j, r[i][1] # 0, r[j][1] # 0
      PROVE  r[i][1] <= r[j][1]
  <2>1. CASE j \in 1..Len(q)
    <3>1. i \in 1..Len(q) /\ r[i] = q[i] /\ r[j] = q[j]
      BY <1>1, <1>6, <2>1
    <3>2. QED BY <1>6, <2>1, <3>1 DEF Ordered
  <2>2. CASE j \in (Len(q) + 1)..(Len(q) + Len(d))
    <3>1. r[j][1] = g
      BY <1>2, <1>6, <2>2
    <3>2. QED BY <1>5, <1>6, <3>1
  <2>3. QED BY <1>4, <2>1, <2>2
<1>7. QED BY <1>5, <1>6 DEF Ordered, r

(* What is sent of a text holds its segment's pieces and no cursor.        *)
LEMMA SuffixPieces ==
  ASSUME NEW s \in 0..MaxSegs, NEW n \in 0..MaxLen, NEW m \in Nat
  PROVE  PiecesOf(s, Suffix(m, Text(s, n)))
<1> DEFINE b == IF n < m THEN 0 ELSE m
           d == Suffix(b, Text(s, n))
<1>1. n \in Nat /\ b \in 0..n
  BY Bounds
<1>2. Suffix(m, Text(s, n)) = d
  BY <1>1, TextIs DEF Suffix
<1>3. /\ d \in Seq(Piece) /\ Len(d) = n - b
      /\ \A k \in 1..(n - b) : d[k] = <<s, b + k>>
  BY <1>1, SuffixBehind
<1> HIDE DEF d
<1>4. \A k \in 1..(n - b) : <<s, b + k>>[1] = s /\ <<s, b + k>> # Cursor
  BY <1>1 DEF Cursor
<1>5. QED BY <1>2, <1>3, <1>4 DEF PiecesOf
-----------------------------------------------------------------------------
(* What a call does to the device.                                         *)

(* A frame arrives whole on a live connection and otherwise not at all;    *)
(* the marker moves or is lost with the registration.                      *)
LEMMA DeliverIs ==
  ASSUME NEW s \in 0..MaxSegs, NEW n \in 0..MaxLen, NEW m,
         NEW content \in {Streamed(s, n), Text(s, n)}, Deliver(m, content)
  PROVE  \/ /\ link = "up" /\ link' = "up" /\ sent' = n
            /\ got' = got \o Suffix(m, Text(s, n))
         \/ /\ link # "up" /\ link' \in {"dying", "down"} /\ sent' \in {n, NoState}
            /\ got' = got
<1>1. Clean(content) = Text(s, n) /\ Len(Text(s, n)) = n
  BY CleanIs, TextIs
<1>2. QED BY <1>1 DEF Deliver

LEMMA MarkerIs == TypeOK => Marker \in 0..MaxLen
BY Bounds DEF TypeOK, Marker

LEMMA DeliverTypes ==
  ASSUME TypeOK, NEW s \in 0..MaxSegs, NEW n \in 0..MaxLen, NEW m \in Nat,
         NEW content \in {Streamed(s, n), Text(s, n)}, Deliver(m, content)
  PROVE  /\ link' \in {"up", "dying", "down"}
         /\ sent' \in 0..MaxLen \cup {NoState}
         /\ got' \in Seq(Piece)
<1>1. got \in Seq(Piece)
  BY DEF TypeOK, Piece
<1>2. Suffix(m, Text(s, n)) \in Seq(Piece)
  BY SuffixPieces DEF PiecesOf
<1>3. got \o Suffix(m, Text(s, n)) \in Seq(Piece)
  BY <1>1, <1>2
<1>4. QED BY <1>1, <1>3, DeliverIs

LEMMA TypeOKStep == TypeOK /\ [Next]_vars => TypeOK'
<1> SUFFICES ASSUME TypeOK, [Next]_vars PROVE TypeOK'
  OBVIOUS
<1> USE Bounds
<1>1. ASSUME NEW n \in 1..MaxLen, Send(n) PROVE TypeOK'
  <2>1. seg + 1 \in 0..MaxSegs /\ n \in 0..MaxLen
    BY <1>1 DEF Send, TypeOK
  <2>2. /\ link' \in {"up", "dying", "down"} /\ sent' \in 0..MaxLen \cup {NoState}
        /\ got' \in Seq(Piece)
    BY <1>1, <2>1, DeliverTypes DEF Send
  <2>3. QED BY <1>1, <2>1, <2>2 DEF Send, TypeOK, Piece
<1>2. ASSUME NEW n \in 1..MaxLen, Edit(n) PROVE TypeOK'
  <2>1. seg \in 0..MaxSegs /\ n \in 0..MaxLen
    BY DEF TypeOK
  <2>2. /\ link' \in {"up", "dying", "down"} /\ sent' \in 0..MaxLen \cup {NoState}
        /\ got' \in Seq(Piece)
    BY <1>2, <2>1, DeliverTypes, MarkerIs DEF Edit
  <2>3. QED BY <1>2, <2>1, <2>2 DEF Edit, TypeOK, Piece
<1>3. ASSUME NEW n \in 1..MaxLen, EditReused(n) PROVE TypeOK'
  <2>1. seg + 1 \in 0..MaxSegs /\ n \in 0..MaxLen
    BY <1>3 DEF EditReused, TypeOK
  <2>2. /\ link' \in {"up", "dying", "down"} /\ sent' \in 0..MaxLen \cup {NoState}
        /\ got' \in Seq(Piece)
    BY <1>3, <2>1, DeliverTypes, MarkerIs DEF EditReused
  <2>3. QED BY <1>3, <2>1, <2>2 DEF EditReused, TypeOK, Piece
<1>4. ASSUME NEW n \in 1..MaxLen, Notice(n) PROVE TypeOK'
  <2>1. 0 \in 0..MaxSegs /\ n \in 0..MaxLen
    OBVIOUS
  <2>2. /\ link' \in {"up", "dying", "down"} /\ sent' \in 0..MaxLen \cup {NoState}
        /\ got' \in Seq(Piece)
    BY <1>4, <2>1, DeliverTypes DEF Notice
  <2>3. QED BY <1>4, <2>2 DEF Notice, TypeOK, Piece, gateway
<1>5. CASE OnText \/ Die \/ Unregister
  BY <1>5 DEF OnText, Die, Unregister, TypeOK, gateway
<1>6. CASE Connect
  <2>1. got' = <<>>
    BY <1>6 DEF Connect
  <2>2. got' \in Seq(Piece)
    BY <2>1
  <2>3. QED BY <1>6, <2>2 DEF Connect, TypeOK, gateway, Piece
<1>7. CASE UNCHANGED vars
  BY <1>7 DEF TypeOK, vars, gateway
<1>8. QED BY <1>1, <1>2, <1>3, <1>4, <1>5, <1>6, <1>7 DEF Next, Call

(* The pieces of every call are of known segments, and no bound is passed. *)
THEOREM TypeCorrect == Spec => []TypeOK
<1>1. Init => TypeOK
  <2> SUFFICES ASSUME Init PROVE TypeOK
    OBVIOUS
  <2>1. <<>> \in Seq(Piece)
    OBVIOUS
  <2>2. QED BY <2>1, Bounds DEF Init, TypeOK, Piece
<1>2. TypeOK /\ [Next]_vars => TypeOK'
  BY TypeOKStep
<1>3. QED BY <1>1, <1>2, PTL DEF Spec
-----------------------------------------------------------------------------
(* Order and cursor, whoever interrupts the reply.                         *)

LEMMA OrderDelivered ==
  ASSUME TypeOK, Ordered(got, seg), NEW g \in Nat, seg <= g, NEW s \in {0, g},
         s \in 0..MaxSegs, NEW n \in 0..MaxLen, NEW m \in Nat,
         NEW content \in {Streamed(s, n), Text(s, n)}, Deliver(m, content)
  PROVE  Ordered(got', g)
<1> DEFINE d == Suffix(m, Text(s, n))
<1>1. got \in Seq(Piece) /\ seg \in Nat
  BY Bounds DEF TypeOK, Piece
<1>2. Ordered(got, g)
  <2>1. \A i \in DOMAIN got : got[i][1] \in Nat /\ got[i][1] <= seg
    BY <1>1, Bounds DEF Ordered, Piece
  <2>2. QED BY <1>1, <2>1 DEF Ordered
<1>3. PiecesOf(s, d)
  BY SuffixPieces
<1>4. got' = got \o d \/ got' = got
  BY DeliverIs
<1> HIDE DEF d
<1>5. QED BY <1>1, <1>2, <1>3, <1>4, OrderStays

LEMMA OrderStep ==
  TypeOK /\ Ordered(got, seg) /\ [Next]_vars => Ordered(got, seg)'
<1> SUFFICES ASSUME TypeOK, Ordered(got, seg), [Next]_vars
             PROVE  Ordered(got', seg')
  OBVIOUS
<1> USE Bounds
<1>1. seg \in 0..MaxSegs /\ seg \in Nat /\ Marker \in Nat
  BY MarkerIs DEF TypeOK
<1>2. ASSUME NEW n \in 1..MaxLen, Send(n) \/ EditReused(n)
      PROVE  Ordered(got', seg')
  <2>1. seg' = seg + 1 /\ seg' \in 0..MaxSegs /\ seg' \in Nat /\ n \in 0..MaxLen
    BY <1>1, <1>2 DEF Send, EditReused
  <2>2. PICK m \in Nat : Deliver(m, Streamed(seg', n))
    BY <1>1, <1>2, <2>1 DEF Send, EditReused
  <2>3. QED BY <1>1, <2>1, <2>2, OrderDelivered
<1>3. ASSUME NEW n \in 1..MaxLen, Edit(n)
      PROVE  Ordered(got', seg')
  <2>1. seg' = seg /\ n \in 0..MaxLen
    BY <1>3 DEF Edit
  <2>2. PICK c \in {Streamed(seg, n), Text(seg, n)} : Deliver(Marker, c)
    BY <1>3 DEF Edit
  <2>3. QED BY <1>1, <2>1, <2>2, OrderDelivered
<1>4. ASSUME NEW n \in 1..MaxLen, Notice(n)
      PROVE  Ordered(got', seg')
  <2>1. seg' = seg /\ n \in 0..MaxLen /\ Deliver(0, Text(0, n))
    BY <1>4 DEF Notice, gateway
  <2>2. QED BY <1>1, <2>1, OrderDelivered
<1>5. CASE Connect
  <2>1. got' = <<>>
    BY <1>5 DEF Connect
  <2>2. QED BY <2>1 DEF Ordered
<1>6. CASE OnText \/ Die \/ Unregister \/ UNCHANGED vars
  BY <1>6 DEF OnText, Die, Unregister, vars, gateway
<1>7. QED BY <1>2, <1>3, <1>4, <1>5, <1>6 DEF Next, Call

(* Even when a text or another message comes in the middle of a reply, the *)
(* segments arrive in order and no cursor ever does: an interruption can   *)
(* repeat or lose pieces, not mix them up (delta_for strips the cursor).   *)
THEOREM OrderedAlways == Spec => []Ordered(got, seg)
<1>1. Init => Ordered(got, seg)
  BY DEF Init, Ordered
<1>2. QED BY <1>1, OrderStep, TypeCorrect, PTL DEF Spec
-----------------------------------------------------------------------------
(* The inductive invariant.  What has arrived of every segment is a run,   *)
(* and the run of the current one stands where the marker says.            *)

Segmented ==
  \A s \in 1..MaxSegs : \E a \in 0..Len(got), n \in 0..MaxLen : Run(s, got, a, n)

(* n pieces of the current segment have arrived behind position a: on a    *)
(* live connection as many as the marker says, and at the very end, while  *)
(* it is streamed, and all or none of it once it is finished.              *)
Arrived(a, n) ==
  /\ Run(seg, got, a, n)
  /\ link = "up" /\ final => n \in {0, len}
  /\ link = "up" /\ ~final => sent = n /\ a + n = Len(got)

Current ==
  /\ ~final => seg # 0
  /\ link = "up" => sent # NoState
  /\ seg # 0 => \E a \in 0..Len(got), n \in 0..len : Arrived(a, n)

IInv == TypeOK /\ Segmented /\ Ordered(got, seg) /\ Current

LEMMA Initially == Init => IInv
<1> SUFFICES ASSUME Init PROVE IInv
  OBVIOUS
<1> USE Bounds
<1>1. got = <<>> /\ <<>> \in Seq(Piece) /\ Len(<<>>) = 0
  BY DEF Init
<1>2. TypeOK
  BY <1>1 DEF Init, TypeOK, Piece
<1>3. Segmented
  <2> SUFFICES ASSUME NEW s \in 1..MaxSegs PROVE Run(s, got, 0, 0)
    BY <1>1 DEF Segmented
  <2>1. s \in 0..MaxSegs /\ got \in Seq(Piece) /\ 0 \in 0..Len(got)
    BY <1>1
  <2>2. \A i \in DOMAIN got : got[i][1] # s
    BY <1>1
  <2>3. QED BY <2>1, <2>2, RunStarts
<1>4. Ordered(got, seg)
  BY <1>1 DEF Ordered
<1>5. Current
  BY DEF Init, Current
<1>6. QED BY <1>2, <1>3, <1>4, <1>5 DEF IInv

(* A frame of segment s leaves the runs of the others.                     *)
LEMMA OthersStay ==
  ASSUME TypeOK, Segmented, NEW s \in 0..MaxSegs, NEW n \in 0..MaxLen, NEW m \in Nat,
         NEW r \in 1..MaxSegs, r # s
  PROVE  LET q == got \o Suffix(m, Text(s, n))
         IN  \E a \in 0..Len(q), k \in 0..MaxLen : Run(r, q, a, k)
<1> DEFINE d == Suffix(m, Text(s, n))
<1> USE Bounds
<1>1. got \in Seq(Piece)
  BY DEF TypeOK, Piece
<1>2. PiecesOf(s, d)
  BY SuffixPieces
<1> HIDE DEF d
<1>3. d \in Seq(Piece) /\ \A i \in 1..Len(d) : d[i][1] # r
  BY <1>2 DEF PiecesOf
<1>4. PICK a \in 0..Len(got), k \in 0..MaxLen : Run(r, got, a, k)
  BY DEF Segmented
<1>5. Run(r, got \o d, a, k)
  BY <1>1, <1>3, <1>4, RunStays
<1>6. a \in 0..Len(got \o d)
  BY <1>1, <1>3
<1>7. QED BY <1>5, <1>6 DEF d

(* The first frame of a new segment, by send or by an edit that reuses the *)
(* buffer: the marker is such that the text is sent from its beginning.    *)
LEMMA NewSegment ==
  ASSUME IInv, NEW n \in 1..MaxLen, NEW m \in Nat, n < m \/ m = 0,
         seg < MaxSegs, seg' = seg + 1, len' = n, final' = FALSE,
         Deliver(m, Streamed(seg + 1, n)), TypeOK', Ordered(got, seg)'
  PROVE  IInv'
<1> USE Bounds
<1> DEFINE s == seg + 1
           d == Suffix(m, Text(s, n))
<1>1. /\ s \in 1..MaxSegs /\ s \in 0..MaxSegs /\ s \in Nat /\ seg \in Nat
      /\ n \in 0..MaxLen /\ n \in Nat /\ got \in Seq(Piece)
  BY DEF IInv, TypeOK, Piece
<1>2. d = Suffix(0, Text(s, n))
  BY <1>1, SuffixShrunk
<1>3. PiecesOf(s, d) /\ d \in Seq(Piece)
  <2>1. PiecesOf(s, d)
    BY <1>1, SuffixPieces
  <2>2. QED BY <2>1 DEF PiecesOf
<1>4. \A i \in DOMAIN got : got[i][1] # s
  <2>1. \A i \in DOMAIN got : got[i][1] \in Nat /\ got[i][1] <= seg
    BY <1>1 DEF IInv, Ordered, Piece
  <2>2. QED BY <1>1, <2>1 DEF IInv, Ordered
<1>5. \/ /\ link = "up" /\ link' = "up" /\ sent' = n /\ got' = got \o d
      \/ /\ link # "up" /\ link' \in {"dying", "down"} /\ got' = got
  BY <1>1, DeliverIs
<1> HIDE DEF s, d
<1>6. CASE link = "up" /\ link' = "up" /\ sent' = n /\ got' = got \o d
  <2> PICK a \in Nat : a = Len(got)
    BY <1>1
  <2>1. Run(s, got, a, 0)
    BY <1>1, <1>4, RunStarts
  <2>2. Run(s, got \o d, a, n)
    BY <1>1, <1>2, <2>1, RunGrows
  <2>3. Len(got') = a + n
    <3>1. Len(d) = n
      <4>1. 0 \in 0..n /\ n - 0 = n /\ n \in 0..MaxLen /\ s \in 0..MaxSegs
        BY <1>1
      <4>2. Len(Suffix(0, Text(s, n))) = n - 0
        BY <4>1, SuffixBehind
      <4>3. QED BY <1>2, <4>1, <4>2
    <3>2. Len(got \o d) = Len(got) + Len(d)
      BY <1>1, <1>3
    <3>3. QED BY <1>6, <3>1, <3>2
  <2>4. a \in 0..Len(got')
    BY <1>1, <2>3
  <2>5. Segmented'
    <3> SUFFICES ASSUME NEW r \in 1..MaxSegs
                 PROVE  \E b \in 0..Len(got'), k \in 0..MaxLen : Run(r, got', b, k)
      BY DEF Segmented
    <3>1. CASE r = s
      BY <1>1, <1>6, <2>2, <2>4, <3>1
    <3>2. CASE r # s
      BY <1>1, <1>6, <3>2, OthersStay DEF IInv, d
    <3>3. QED BY <3>1, <3>2
  <2>6. Current'
    <3>1. Arrived(a, n)'
      BY <1>6, <2>2, <2>3 DEF Arrived, s
    <3>2. QED BY <1>1, <1>6, <2>4, <3>1 DEF Current, s
  <2>7. QED BY <2>5, <2>6 DEF IInv
<1>7. CASE link # "up" /\ link' \in {"dying", "down"} /\ got' = got
  <2>1. Segmented'
    BY <1>7 DEF IInv, Segmented
  <2>2. Current'
    <3>1. 0 \in 0..Len(got') /\ 0 \in 0..len' /\ 0 \in 0..Len(got)
      BY <1>1, <1>7
    <3>2. Run(s, got, 0, 0)
      BY <1>1, <1>4, <3>1, RunStarts
    <3>3. Arrived(0, 0)'
      BY <1>7, <3>2 DEF Arrived, s
    <3>4. QED BY <1>1, <1>7, <3>1, <3>3 DEF Current, s
  <2>3. QED BY <2>1, <2>2 DEF IInv
<1>8. QED BY <1>5, <1>6, <1>7

(* The next frame of the segment goes behind its run.                      *)
LEMMA EditArrives ==
  ASSUME IInv, NEW n \in 1..MaxLen, Edit(n), link = "up"
  PROVE  \E a \in 0..Len(got') : Run(seg, got', a, n) /\ a + n = Len(got')
<1> USE Bounds
<1>1. /\ n \in 0..MaxLen /\ n \in Nat /\ len \in Nat /\ len <= n
      /\ ~final /\ seg # 0 /\ seg \in 0..MaxSegs /\ got \in Seq(Piece)
  BY DEF IInv, TypeOK, Current, Edit, Piece
<1>2. PICK a \in 0..Len(got), k \in 0..len : Arrived(a, k)
  BY <1>1 DEF IInv, Current
<1>3. /\ Run(seg, got, a, k) /\ a \in Nat
      /\ k \in 0..n /\ k \in 0..MaxLen /\ n \in k..MaxLen
  BY <1>1, <1>2 DEF Arrived
<1>4. Marker = k /\ a + k = Len(got)
  BY <1>1, <1>2 DEF IInv, Current, Arrived, Marker
<1> DEFINE d == Suffix(Marker, Text(seg, n))
<1>5. got' = got \o d
  <2>1. PICK c \in {Streamed(seg, n), Text(seg, n)} : Deliver(Marker, c)
    BY DEF Edit
  <2>2. QED BY <1>1, <2>1, DeliverIs
<1>6. Run(seg, got \o d, a, n)
  BY <1>1, <1>3, <1>4, RunGrows
<1>7. d \in Seq(Piece) /\ Len(d) = n - k
  BY <1>1, <1>3, <1>4, SuffixBehind
<1> HIDE DEF d
<1>8. Len(got \o d) = Len(got) + Len(d)
  BY <1>1, <1>7
<1>9. Len(got') = a + n
  <2>1. Len(got') = (a + k) + (n - k)
    BY <1>4, <1>5, <1>7, <1>8
  <2>2. a \in Nat /\ k \in Nat /\ n \in Nat
    BY <1>1, <1>3
  <2>3. QED BY <2>1, <2>2
<1>10. QED BY <1>1, <1>3, <1>5, <1>6, <1>9

LEMMA EditStep ==
  ASSUME IInv, NEW n \in 1..MaxLen, Edit(n), TypeOK', Ordered(got, seg)'
  PROVE  IInv'
<1> USE Bounds
<1>1. /\ n \in 0..MaxLen /\ n \in Nat /\ got \in Seq(Piece) /\ len \in Nat /\ len <= n
      /\ ~final /\ seg # 0 /\ seg \in 1..MaxSegs /\ seg \in 0..MaxSegs /\ seg \in Nat
      /\ seg' = seg /\ len' = n
  BY DEF IInv, TypeOK, Current, Edit, Piece
<1>2. PICK a \in 0..Len(got), k \in 0..len : Arrived(a, k)
  BY <1>1 DEF IInv, Current
<1>3. /\ Run(seg, got, a, k) /\ a \in Nat
      /\ k \in 0..n /\ k \in 0..MaxLen /\ n \in k..MaxLen
  BY <1>1, <1>2 DEF Arrived
<1> DEFINE d == Suffix(Marker, Text(seg, n))
<1>4. Marker \in Nat
  BY MarkerIs DEF IInv
<1>5. \/ /\ link = "up" /\ link' = "up" /\ sent' = n /\ got' = got \o d
      \/ /\ link # "up" /\ link' \in {"dying", "down"} /\ got' = got
  <2>1. PICK c \in {Streamed(seg, n), Text(seg, n)} : Deliver(Marker, c)
    BY DEF Edit
  <2>2. QED BY <1>1, <2>1, DeliverIs
<1> HIDE DEF d
<1>6. CASE link = "up" /\ link' = "up" /\ sent' = n /\ got' = got \o d
  <2>1. PICK b \in 0..Len(got') : Run(seg, got', b, n) /\ b + n = Len(got')
    BY <1>6, EditArrives
  <2>2. Segmented'
    <3> SUFFICES ASSUME NEW r \in 1..MaxSegs
                 PROVE  \E c \in 0..Len(got'), j \in 0..MaxLen : Run(r, got', c, j)
      BY DEF Segmented
    <3>1. CASE r = seg
      BY <1>1, <2>1, <3>1
    <3>2. CASE r # seg
      BY <1>1, <1>4, <1>6, <3>2, OthersStay DEF IInv, d
    <3>3. QED BY <3>1, <3>2
  <2>3. Current'
    <3>1. Arrived(b, n)'
      BY <1>1, <1>6, <2>1 DEF Arrived
    <3>2. QED BY <1>1, <1>6, <2>1, <3>1 DEF Current
  <2>4. QED BY <2>2, <2>3 DEF IInv
<1>7. CASE link # "up" /\ link' \in {"dying", "down"} /\ got' = got
  <2>1. Segmented'
    BY <1>7 DEF IInv, Segmented
  <2>2. Arrived(a, k)'
    BY <1>1, <1>3, <1>7 DEF Arrived
  <2>3. Current'
    BY <1>1, <1>3, <1>7, <2>2 DEF Current
  <2>4. QED BY <2>1, <2>3 DEF IInv
<1>8. QED BY <1>5, <1>6, <1>7

(* Another message moves the marker, but no reply is being streamed.       *)
LEMMA NoticeStep ==
  ASSUME IInv, OneAtATime, NEW n \in 1..MaxLen, Notice(n), TypeOK',
         Ordered(got, seg)'
  PROVE  IInv'
<1> USE Bounds
<1> DEFINE d == Suffix(0, Text(0, n))
<1>1. /\ n \in 0..MaxLen /\ 0 \in 0..MaxSegs /\ got \in Seq(Piece) /\ seg \in Nat
      /\ seg \in 0..MaxSegs /\ len \in 0..MaxLen
      /\ final /\ final' /\ seg' = seg /\ len' = len
  BY DEF IInv, TypeOK, Notice, OneAtATime, gateway, Piece
<1>2. PiecesOf(0, d) /\ d \in Seq(Piece)
  <2>1. PiecesOf(0, d)
    BY <1>1, SuffixPieces
  <2>2. QED BY <2>1 DEF PiecesOf
<1>3. \/ link = "up" /\ link' = "up" /\ sent' = n /\ got' = got \o d
      \/ link # "up" /\ link' \in {"dying", "down"} /\ got' = got
  BY <1>1, DeliverIs DEF Notice
<1> HIDE DEF d
<1>4. CASE link = "up" /\ link' = "up" /\ sent' = n /\ got' = got \o d
  <2>1. Segmented'
    <3> SUFFICES ASSUME NEW r \in 1..MaxSegs
                 PROVE  \E b \in 0..Len(got'), k \in 0..MaxLen : Run(r, got', b, k)
      BY DEF Segmented
    <3>1. r # 0
      OBVIOUS
    <3>2. QED BY <1>1, <1>4, <3>1, OthersStay DEF IInv, d
  <2>2. Current'
    <3>1. ASSUME seg # 0
          PROVE  \E a \in 0..Len(got'), k \in 0..len' : Arrived(a, k)'
      <4>1. PICK a \in 0..Len(got), k \in 0..len : Arrived(a, k)
        BY <3>1 DEF IInv, Current
      <4>2. Run(seg, got \o d, a, k)
        <5>1. k \in 0..MaxLen /\ a \in Nat
          BY <1>1
        <5>2. \A j \in 1..Len(d) : d[j][1] # seg
          BY <1>2, <3>1 DEF PiecesOf
        <5>3. Run(seg, got, a, k)
          BY <4>1 DEF Arrived
        <5>4. QED BY <1>1, <1>2, <5>1, <5>2, <5>3, RunStays
      <4>3. a \in 0..Len(got')
        BY <1>1, <1>2, <1>4
      <4>4. Arrived(a, k)'
        BY <1>1, <1>4, <4>1, <4>2 DEF Arrived
      <4>5. QED BY <1>1, <4>3, <4>4
    <3>2. QED BY <1>1, <1>4, <3>1 DEF Current
  <2>3. QED BY <2>1, <2>2 DEF IInv
<1>5. CASE link # "up" /\ link' \in {"dying", "down"} /\ got' = got
  BY <1>1, <1>5 DEF IInv, Segmented, Current, Arrived
<1>6. QED BY <1>3, <1>4, <1>5

(* The device's own steps: a connection starts from nothing, a text        *)
(* between two replies moves only the marker, and a loss touches neither.  *)
LEMMA DeviceStep ==
  ASSUME IInv, OneAtATime, OnText \/ Connect \/ Die \/ Unregister \/ UNCHANGED vars,
         TypeOK', Ordered(got, seg)'
  PROVE  IInv'
<1> USE Bounds
<1>1. /\ seg \in 0..MaxSegs /\ len \in 0..MaxLen
      /\ seg' = seg /\ len' = len /\ final' = final
  BY DEF IInv, TypeOK, OnText, Connect, Die, Unregister, gateway, vars
<1>2. CASE Connect
  <2>1. /\ got' = <<>> /\ link' = "up" /\ sent' = 0 /\ Len(got') = 0
        /\ got' \in Seq(Piece) /\ DOMAIN got' = {}
    BY <1>2 DEF Connect
  <2>2. ASSUME NEW s \in 0..MaxSegs PROVE Run(s, got', 0, 0)
    <3>1. 0 \in 0..Len(got') /\ \A i \in DOMAIN got' : got'[i][1] # s
      BY <2>1
    <3>2. QED BY <2>1, <3>1, RunStarts
  <2>3. Segmented'
    BY <2>1, <2>2 DEF Segmented
  <2>4. Arrived(0, 0)'
    BY <1>1, <2>1, <2>2 DEF Arrived
  <2>5. Current'
    BY <1>1, <2>1, <2>4 DEF IInv, Current
  <2>6. QED BY <2>3, <2>5 DEF IInv
<1>3. CASE OnText \/ Die \/ Unregister \/ UNCHANGED vars
  <2>1. /\ got' = got
        /\ link' = "up" => /\ link = "up" /\ sent' # NoState
                           /\ ~final => sent' = sent
    BY <1>3 DEF OnText, Die, Unregister, vars, OneAtATime, IInv, Current, gateway
  <2>2. Segmented'
    BY <2>1 DEF IInv, Segmented
  <2>3. ASSUME NEW a \in 0..Len(got), NEW n \in 0..len, Arrived(a, n)
        PROVE  Arrived(a, n)'
    BY <1>1, <2>1, <2>3 DEF Arrived
  <2>4. Current'
    BY <1>1, <2>1, <2>3 DEF IInv, Current
  <2>5. QED BY <2>2, <2>4 DEF IInv
<1>4. QED BY <1>2, <1>3

LEMMA InductiveStep ==
  ASSUME IInv, OneAtATime, [Next]_vars
  PROVE  IInv'
<1>1. TypeOK'
  BY TypeOKStep DEF IInv
<1>2. Ordered(got, seg)'
  BY OrderStep DEF IInv
<1>3. Marker \in Nat
  BY MarkerIs, Bounds DEF IInv
<1>4. ASSUME NEW n \in 1..MaxLen, Send(n) PROVE IInv'
  BY <1>1, <1>2, <1>4, NewSegment DEF Send
<1>5. ASSUME NEW n \in 1..MaxLen, EditReused(n) PROVE IInv'
  BY <1>1, <1>2, <1>3, <1>5, NewSegment DEF EditReused
<1>6. ASSUME NEW n \in 1..MaxLen, Edit(n) PROVE IInv'
  BY <1>1, <1>2, <1>6, EditStep
<1>7. ASSUME NEW n \in 1..MaxLen, Notice(n) PROVE IInv'
  BY <1>1, <1>2, <1>7, NoticeStep
<1>8. CASE OnText \/ Connect \/ Die \/ Unregister \/ UNCHANGED vars
  BY <1>1, <1>2, <1>8, DeviceStep
<1>9. QED BY <1>4, <1>5, <1>6, <1>7, <1>8 DEF Next, Call

(* Between two replies the marker may be moved by anything; while one is   *)
(* streamed only its own frames move it.                                   *)
THEOREM Inductive ==
  ASSUME OneAtATime
  PROVE  Spec => []IInv
<1>1. IInv /\ [Next]_vars => IInv'
  BY InductiveStep
<1>2. QED BY Initially, <1>1, PTL DEF Spec
-----------------------------------------------------------------------------
(* What follows for the device.                                            *)

LEMMA PrefixIs ==
  ASSUME NEW s \in 0..MaxSegs, NEW n \in 0..MaxLen, NEW m \in n..MaxLen
  PROVE  IsPrefix(Text(s, n), Text(s, m))
<1> USE Bounds
<1> DEFINE t == Text(s, n)
           u == Text(s, m)
<1>1. /\ n \in Nat /\ m \in 0..MaxLen /\ n <= m
      /\ t \in Seq(Piece) /\ Len(t) = n /\ \A k \in 1..n : t[k] = <<s, k>>
      /\ u \in Seq(Piece) /\ Len(u) = m /\ \A k \in 1..m : u[k] = <<s, k>>
  BY TextIs
<1> HIDE DEF t, u
<1>2. /\ SubSeq(t, 1, n) \in Seq(Piece) /\ Len(SubSeq(t, 1, n)) = n
      /\ \A k \in 1..n : SubSeq(t, 1, n)[k] = <<s, k>>
  BY <1>1
<1>3. /\ SubSeq(u, 1, n) \in Seq(Piece) /\ Len(SubSeq(u, 1, n)) = n
      /\ \A k \in 1..n : SubSeq(u, 1, n)[k] = <<s, k>>
  BY <1>1
<1>4. SubSeq(t, 1, n) = SubSeq(u, 1, n)
  BY <1>2, <1>3, SeqEqual
<1>5. QED BY <1>1, <1>4 DEF IsPrefix, t, u

LEMMA AppendOnlyHolds == IInv => DeltasAppendOnly
<1> SUFFICES ASSUME IInv PROVE DeltasAppendOnly
  OBVIOUS
<1>1. \A s \in 1..MaxSegs : IsPrefix(Of(s, got), Text(s, MaxLen))
  <2> SUFFICES ASSUME NEW s \in 1..MaxSegs
               PROVE  IsPrefix(Of(s, got), Text(s, MaxLen))
    OBVIOUS
  <2>1. PICK a \in 0..Len(got), n \in 0..MaxLen : Run(s, got, a, n)
    BY DEF IInv, Segmented
  <2>2. /\ s \in 0..MaxSegs /\ a \in Nat /\ got \in Seq(Piece)
        /\ MaxLen \in n..MaxLen
    BY Bounds DEF IInv, TypeOK, Piece
  <2>3. Of(s, got) = Text(s, n)
    BY <2>1, <2>2, RunIsText
  <2>4. QED BY <2>2, <2>3, PrefixIs
<1>2. QED BY <1>1 DEF IInv, Ordered, DeltasAppendOnly

(* The view is the beginning of the segment that has arrived.              *)
LEMMA ViewIs ==
  ASSUME IInv, seg # 0
  PROVE  \E a \in 0..Len(got), n \in 0..len : Arrived(a, n) /\ View = Text(seg, n)
<1>1. PICK a \in 0..Len(got), n \in 0..len : Arrived(a, n)
  BY DEF IInv, Current
<1>2. /\ seg \in 0..MaxSegs /\ n \in 0..MaxLen /\ a \in Nat /\ got \in Seq(Piece)
  BY Bounds DEF IInv, TypeOK, Piece
<1>3. Of(seg, got) = Text(seg, n)
  BY <1>1, <1>2, RunIsText DEF Arrived
<1>4. QED BY <1>1, <1>3 DEF View

LEMMA MarkerHolds == IInv => MarkerMatchesDevice
<1> SUFFICES ASSUME IInv, ~final, link = "up"
             PROVE  sent # NoState /\ sent = Len(View)
  BY DEF MarkerMatchesDevice
<1>1. seg # 0
  BY DEF IInv, Current
<1>2. PICK a \in 0..Len(got), n \in 0..len : Arrived(a, n) /\ View = Text(seg, n)
  BY <1>1, ViewIs
<1>3. seg \in 0..MaxSegs /\ n \in 0..MaxLen
  BY Bounds DEF IInv, TypeOK
<1>4. Len(View) = n
  BY <1>2, <1>3, TextIs
<1>5. QED BY <1>2, <1>4 DEF Arrived, IInv, Current

LEMMA NoText == ASSUME NEW s PROVE Text(s, 0) = <<>>
BY DEF Text

LEMMA FinalHolds == IInv => FinalIsWhole
<1> SUFFICES ASSUME IInv, final, link = "up"
             PROVE  View \in {<<>>, Text(seg, len)}
  BY DEF FinalIsWhole
<1>1. CASE seg = 0
  BY <1>1 DEF View
<1>2. CASE seg # 0
  <2>1. PICK a \in 0..Len(got), n \in 0..len : Arrived(a, n) /\ View = Text(seg, n)
    BY <1>2, ViewIs
  <2>2. n = 0 \/ n = len
    BY <2>1 DEF Arrived
  <2>3. QED BY <2>1, <2>2, NoText
<1>3. QED BY <1>1, <1>2

(* assistant.delta is append-only: nothing twice, nothing left out, the    *)
(* segments in order and never a cursor, through edits, reused buffers,    *)
(* lost frames and reconnects (adapter.py send and edit_message).          *)
THEOREM AppendOnly ==
  ASSUME OneAtATime
  PROVE  Spec => []DeltasAppendOnly
BY Inductive, AppendOnlyHolds, PTL

(* The marker of a streamed segment is what the device has of it.          *)
THEOREM MarkerMatches ==
  ASSUME OneAtATime
  PROVE  Spec => []MarkerMatchesDevice
BY Inductive, MarkerHolds, PTL

(* A finished reply is on a live connection whole or not at all.           *)
THEOREM FinalWhole ==
  ASSUME OneAtATime
  PROVE  Spec => []FinalIsWhole
BY Inductive, FinalHolds, PTL
-----------------------------------------------------------------------------
(* StreamDelta implements ReplyView.                                       *)

LEMMA TextIsReply ==
  ASSUME NEW s \in 1..MaxSegs, NEW n \in 0..MaxLen
  PROVE  Text(s, n) \in Promise!Texts
<1>1. n \in 0..MaxLen /\ Text(s, n) \in [1..n -> (1..MaxSegs) \X (1..MaxLen)]
  BY Bounds DEF Text
<1>2. QED BY <1>1 DEF Promise!Texts, Promise!BoundedSeq, Promise!SeqOf

LEMMA PromiseStarts == Init => Promise!Init
BY NoText DEF Init, Promise!Init, View

LEMMA PromiseStep ==
  ASSUME IInv, IInv', OneAtATime, [Next]_vars
  PROVE  [Promise!Next]_<<Text(seg, len), View>>
<1> USE Bounds
<1>0. /\ seg \in 0..MaxSegs /\ len \in 0..MaxLen /\ got \in Seq(Piece)
      /\ seg' \in 0..MaxSegs /\ len' \in 0..MaxLen
  BY DEF IInv, TypeOK, Piece
<1>1. ASSUME NEW n \in 1..MaxLen, Send(n) \/ EditReused(n)
      PROVE  Promise!NewSegment
  <2>1. seg' \in 1..MaxSegs /\ seg' = seg + 1 /\ len' = n /\ ~final'
    BY <1>0, <1>1 DEF Send, EditReused
  <2>2. Text(seg, len)' \in Promise!Texts
    BY <1>0, <2>1, TextIsReply
  <2>3. CASE link' = "up"
    <3>1. PICK a \in 0..Len(got'), k \in 0..len' : Arrived(a, k)'
      BY <1>0, <2>1 DEF IInv, Current
    <3>2. sent' = n
      BY <1>0, <1>1, <2>1, <2>3, DeliverIs DEF Send, EditReused
    <3>3. k = n /\ Run(seg', got', a, k)
      BY <2>1, <2>3, <3>1, <3>2 DEF Arrived
    <3>4. View' = Text(seg', n)
      <4>1. /\ got' \in Seq(Piece) /\ a \in Nat /\ n \in 0..MaxLen
            /\ seg' \in 0..MaxSegs /\ seg' # 0
        BY <1>0, <2>1, <3>1 DEF IInv, TypeOK, Piece
      <4>2. Of(seg', got') = Text(seg', n)
        BY <3>3, <4>1, RunIsText
      <4>3. QED BY <4>1, <4>2 DEF View
    <3>5. QED BY <2>1, <2>2, <3>4 DEF Promise!NewSegment
  <2>4. CASE link' # "up"
    <3>1. got' = got
      BY <1>0, <1>1, <2>1, <2>4, DeliverIs DEF Send, EditReused
    <3>2. \A i \in DOMAIN got : got[i][1] # seg'
      BY <1>0, <2>1 DEF IInv, Ordered, Piece
    <3>3. At(seg', got') = {}
      BY <3>1, <3>2 DEF At
    <3>4. View' = <<>>
      BY <2>1, <3>3 DEF View, Of
    <3>5. QED BY <2>2, <3>4 DEF Promise!NewSegment
  <2>5. QED BY <2>3, <2>4
<1>2. ASSUME NEW n \in 1..MaxLen, Edit(n)
      PROVE  Promise!Grow
  <2>1. /\ seg' = seg /\ len' = n /\ len <= n /\ seg # 0
        /\ n \in 0..MaxLen /\ seg \in 1..MaxSegs
    BY <1>0, <1>2 DEF Edit, IInv, Current
  <2>2. /\ Text(seg, len)' \in Promise!Texts
        /\ Promise!IsPrefix(Text(seg, len), Text(seg, len)')
    <3>1. n \in len..MaxLen
      BY <1>0, <2>1
    <3>2. IsPrefix(Text(seg, len), Text(seg, n))
      BY <1>0, <3>1, PrefixIs
    <3>3. QED BY <2>1, <3>2, TextIsReply DEF IsPrefix, Promise!IsPrefix
  <2>3. PICK a \in 0..Len(got), k \in 0..len : Arrived(a, k) /\ View = Text(seg, k)
    BY <2>1, ViewIs
  <2>4. k \in 0..MaxLen /\ n \in k..MaxLen /\ k \in k..MaxLen
    BY <1>0, <2>1
  <2>5. CASE link = "up"
    <3>1. PICK b \in 0..Len(got') : Run(seg, got', b, n)
      BY <1>2, <2>5, EditArrives
    <3>2. got' \in Seq(Piece) /\ b \in Nat
      BY DEF IInv, TypeOK, Piece
    <3>3. View' = Text(seg, n)
      BY <1>0, <2>1, <3>1, <3>2, RunIsText DEF View
    <3>4. IsPrefix(Text(seg, k), Text(seg, n))
      BY <1>0, <2>4, PrefixIs
    <3>5. QED BY <2>1, <2>2, <2>3, <3>3, <3>4
            DEF Promise!Grow, IsPrefix, Promise!IsPrefix
  <2>6. CASE link # "up"
    <3>1. got' = got
      BY <1>0, <1>2, <2>1, <2>6, DeliverIs DEF Edit
    <3>2. View' = View
      BY <2>1, <3>1 DEF View
    <3>3. IsPrefix(Text(seg, k), Text(seg, k))
      BY <1>0, <2>4, PrefixIs
    <3>4. QED BY <2>2, <2>3, <3>2, <3>3 DEF Promise!Grow, IsPrefix, Promise!IsPrefix
  <2>7. QED BY <2>5, <2>6
<1>3. ASSUME NEW n \in 1..MaxLen, Notice(n)
      PROVE  UNCHANGED <<Text(seg, len), View>>
  <2>1. seg' = seg /\ len' = len
    BY <1>3 DEF Notice, gateway
  <2>2. View' = View
    <3>1. CASE seg = 0
      BY <2>1, <3>1 DEF View
    <3>2. CASE seg # 0
      <4>1. PICK a \in 0..Len(got), k \in 0..len : Arrived(a, k) /\ View = Text(seg, k)
        BY <3>2, ViewIs
      <4>2. k \in 0..MaxLen /\ a \in Nat /\ Run(seg, got, a, k) /\ n \in 0..MaxLen
        BY <1>0, <4>1 DEF Arrived
      <4>3. CASE got' = got
        BY <2>1, <4>3 DEF View
      <4>4. CASE got' = got \o Suffix(0, Text(0, n))
        <5>1. PiecesOf(0, Suffix(0, Text(0, n)))
          BY <4>2, SuffixPieces
        <5>2. Run(seg, got', a, k) /\ got' \in Seq(Piece)
          BY <1>0, <3>2, <4>2, <4>4, <5>1, RunStays DEF PiecesOf, IInv, TypeOK, Piece
        <5>3. QED BY <1>0, <2>1, <3>2, <4>1, <4>2, <5>2, RunIsText DEF View
      <4>5. QED BY <1>3, <4>2, <4>3, <4>4, DeliverIs DEF Notice
    <3>3. QED BY <3>1, <3>2
  <2>3. QED BY <2>1, <2>2
<1>4. CASE Connect
  <2>1. Text(seg, len)' = Text(seg, len)
    BY <1>4 DEF Connect, gateway
  <2>2. At(seg', got') = {}
    BY <1>4 DEF Connect, At
  <2>3. View' = <<>>
    BY <2>2 DEF View, Of
  <2>4. Promise!NewConnection
    BY <2>1, <2>3 DEF Promise!NewConnection
  <2>5. QED BY <2>4 DEF Promise!Next
<1>5. CASE OnText \/ Die \/ Unregister \/ UNCHANGED vars
  <2>1. seg' = seg /\ len' = len /\ got' = got
    BY <1>5 DEF OnText, Die, Unregister, vars, gateway
  <2>2. UNCHANGED <<Text(seg, len), View>>
    BY <2>1 DEF View
  <2>3. QED BY <2>2
<1>6. QED BY <1>1, <1>2, <1>3, <1>4, <1>5 DEF Next, Call, Promise!Next

(* The bridge keeps ReplyView's promise: what is on the glasses is always  *)
(* a beginning of the reply, only ever appended to, and is begun again     *)
(* only for a new segment or a new connection.                             *)
THEOREM KeepsThePromise ==
  ASSUME OneAtATime
  PROVE  Spec => PromiseKept
<1>1. IInv /\ IInv' /\ [Next]_vars => [Promise!Next]_<<Text(seg, len), View>>
  BY PromiseStep
<1>2. QED BY PromiseStarts, <1>1, Inductive, PTL DEF Spec, PromiseKept, Promise!Spec
=============================================================================
