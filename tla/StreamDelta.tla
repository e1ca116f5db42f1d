----------------------------- MODULE StreamDelta -----------------------------
(***************************************************************************)
(* How a streamed reply reaches one device (adapter.py send, edit_message  *)
(* and on_text; connections.py StreamState and send_frame).  The gateway   *)
(* hands over the whole text of a message segment again and again, with a  *)
(* cursor behind it while it is unfinished; the bridge sends the part the  *)
(* device does not have.  What has been sent is remembered per device as a *)
(* length, so everything that moves that length matters: a new segment, a  *)
(* new text turn, another message, and a reconnect.  The delta is computed *)
(* and written without a suspension, so each call is one action.           *)
(*                                                                         *)
(* The gateway is external.  Text is a sequence of pieces <<segment, i>>;  *)
(* segment 0 is any other message (a notice, a command's answer).          *)
(***************************************************************************)
EXTENDS Naturals, Sequences, SequencesExt

CONSTANTS
  NoState,         \* the registry holds no StreamState for the device
  TextsMidReply,   \* a text can arrive while a reply is streamed
  NoticesMidReply, \* another message can be sent while one is streamed
  MaxSegs,         \* bound: segments
  MaxLen,          \* bound: pieces in a segment
  MaxTexts,        \* bound: texts
  MaxNotices,      \* bound: other messages
  MaxConns         \* bound: connections

ASSUME StreamAssumption ==
  /\ NoState \notin Nat
  /\ TextsMidReply \in BOOLEAN
  /\ NoticesMidReply \in BOOLEAN
  /\ {MaxSegs, MaxLen, MaxTexts, MaxNotices, MaxConns} \subseteq Nat

VARIABLES
  seg,    \* the gateway's current segment, 0 before the first
  len,    \* pieces of it handed over so far
  final,  \* its final edit was made
  link,   \* "up", "dying" (closed, not noticed yet) or "down"
  sent,   \* StreamState.sent_len, or NoState
  got,    \* pieces the current connection has received
  texts, notices, conns

gateway == <<seg, len, final>>
vars == <<gateway, link, sent, got, texts, notices, conns>>

Cursor     == <<0, 0>>
Text(s, n) == [i \in 1..n |-> <<s, i>>]

(* What q has of segment s, from the first piece to the last, with         *)
(* anything that came in between.                                          *)
At(s, q) == {i \in DOMAIN q : q[i][1] = s}
Of(s, q) == IF At(s, q) = {} THEN <<>> ELSE SubSeq(q, Min(At(s, q)), Max(At(s, q)))

TypeOK ==
  /\ seg \in 0..MaxSegs /\ len \in 0..MaxLen /\ final \in BOOLEAN
  /\ link \in {"up", "dying", "down"}
  /\ sent \in 0..MaxLen \cup {NoState}
  /\ got \in Seq((0..MaxSegs) \X (0..MaxLen))
  /\ texts \in 0..MaxTexts /\ notices \in 0..MaxNotices /\ conns \in 0..MaxConns

Init ==
  /\ seg = 0 /\ len = 0 /\ final = TRUE
  /\ link = "down" /\ sent = NoState /\ got = <<>>
  /\ texts = 0 /\ notices = 0 /\ conns = 0
-----------------------------------------------------------------------------
(* connections.py: StreamState and the registry's use of it.               *)

KeepCursor(content) == content        \* the cursor is not stripped
Clean(content) ==
  IF content # <<>> /\ Last(content) = Cursor THEN Front(content) ELSE content

SuffixFromStale(m, clean) ==          \* a shrunk text is not seen as fresh
  SubSeq(clean, m + 1, Len(clean))
Suffix(m, clean) == SubSeq(clean, (IF Len(clean) < m THEN 0 ELSE m) + 1, Len(clean))

(* stream_state: a device without a state gets a fresh one.                *)
Marker == IF sent = NoState THEN 0 ELSE sent

(* delta_for and send_frame: the marker m moves to the end of the content  *)
(* whether or not the delta arrives.  A write that raises unregisters the  *)
(* socket and its state; a peer that vanished loses the frame silently.    *)
Deliver(m, content) ==
  LET clean == Clean(content)
      delta == Suffix(m, clean)
  IN \/ /\ link = "up"
        /\ got' = got \o delta
        /\ sent' = Len(clean)
        /\ UNCHANGED link
     \/ /\ link \in {"down", "dying"}
        /\ sent' = Len(clean)
        /\ UNCHANGED <<got, link>>
     \/ /\ link = "dying" /\ delta # <<>>
        /\ link' = "down"
        /\ sent' = NoState
        /\ UNCHANGED got
-----------------------------------------------------------------------------
(* The gateway's calls.                                                    *)

Streamed(s, n) == Append(Text(s, n), Cursor)

SendWithoutReset(n) ==                \* send does not reset the state
  /\ final /\ seg < MaxSegs
  /\ seg' = seg + 1 /\ len' = n /\ final' = FALSE
  /\ Deliver(Marker, Streamed(seg + 1, n))
  /\ UNCHANGED <<texts, notices, conns>>

(* send: the first frame of a segment; the marker is reset first.          *)
Send(n) ==
  /\ final /\ seg < MaxSegs
  /\ seg' = seg + 1 /\ len' = n /\ final' = FALSE
  /\ Deliver(0, Streamed(seg + 1, n))
  /\ UNCHANGED <<texts, notices, conns>>

(* edit_message with the accumulated text, unfinished or final.            *)
Edit(n) ==
  /\ ~final /\ n >= len
  /\ len' = n
  /\ \/ Deliver(Marker, Streamed(seg, n)) /\ UNCHANGED final
     \/ Deliver(Marker, Text(seg, n)) /\ final' = TRUE
  /\ UNCHANGED <<seg, texts, notices, conns>>

(* edit_message that reuses the buffer for a new segment: told from a      *)
(* longer text of the old one only by its being shorter.                   *)
EditReused(n) ==
  /\ final /\ seg < MaxSegs
  /\ n < Marker \/ Marker = 0
  /\ seg' = seg + 1 /\ len' = n /\ final' = FALSE
  /\ Deliver(Marker, Streamed(seg + 1, n))
  /\ UNCHANGED <<texts, notices, conns>>

(* send of any other message to the same chat.                             *)
Notice(n) ==
  /\ notices < MaxNotices /\ (final \/ NoticesMidReply)
  /\ notices' = notices + 1
  /\ Deliver(0, Text(0, n))
  /\ UNCHANGED <<gateway, texts, conns>>
-----------------------------------------------------------------------------
(* The device.                                                             *)

(* on_text resets the marker before the gateway sees the text.             *)
OnText ==
  /\ link = "up" /\ texts < MaxTexts /\ (final \/ TextsMidReply)
  /\ texts' = texts + 1
  /\ sent' = 0
  /\ UNCHANGED <<gateway, link, got, notices, conns>>

RegisterKeepsState ==                 \* a reconnect inherits the old marker
  /\ conns < MaxConns /\ conns' = conns + 1
  /\ link' = "up" /\ sent' = Marker /\ got' = <<>>
  /\ UNCHANGED <<gateway, texts, notices>>

(* register: a new connection, in place of an old one or of none, starts   *)
(* with a fresh state.                                                     *)
Connect ==
  /\ conns < MaxConns /\ conns' = conns + 1
  /\ link' = "up" /\ sent' = 0 /\ got' = <<>>
  /\ UNCHANGED <<gateway, texts, notices>>

Die ==
  /\ link = "up"
  /\ link' = "dying"
  /\ UNCHANGED <<gateway, sent, got, texts, notices, conns>>

(* unregister by the handler's teardown or by a send that failed late.     *)
Unregister ==
  /\ link = "dying"
  /\ link' = "down" /\ sent' = NoState
  /\ UNCHANGED <<gateway, got, texts, notices, conns>>

Call(n) == Send(n) \/ Edit(n) \/ EditReused(n) \/ Notice(n)

Next ==
  \/ \E n \in 1..MaxLen : Call(n)
  \/ OnText \/ Connect \/ Die \/ Unregister

Spec == Init /\ [][Next]_vars
-----------------------------------------------------------------------------
(* Properties.                                                             *)

View == IF seg = 0 THEN <<>> ELSE Of(seg, got)

(* assistant.delta is append-only: of every segment the device has a       *)
(* beginning, nothing twice and nothing left out, the segments come in     *)
(* order, and no cursor ever reaches it.                                   *)
DeltasAppendOnly ==
  /\ \A s \in 1..MaxSegs : IsPrefix(Of(s, got), Text(s, MaxLen))
  /\ \A i, j \in DOMAIN got :
       i < j /\ got[i][1] # 0 /\ got[j][1] # 0 => got[i][1] <= got[j][1]
  /\ \A i \in DOMAIN got : got[i] # Cursor

(* While a segment is streamed over a live connection, the marker is how   *)
(* much of it the device has: connections, lost frames and earlier         *)
(* messages cannot make the two disagree.                                  *)
MarkerMatchesDevice ==
  ~final /\ link = "up" => sent # NoState /\ sent = Len(View)

(* A finished reply is on a live connection entirely or, if the device     *)
(* connected since, not at all; never in part.                             *)
FinalIsWhole ==
  final /\ link = "up" => View \in {<<>>, Text(seg, len)}

(* The bridge keeps ReplyView's promise.                                   *)
Promise == INSTANCE ReplyView WITH
  Token <- (1..MaxSegs) \X (1..MaxLen),
  reply <- Text(seg, len),
  view  <- View
PromiseKept == Promise!Spec
=============================================================================
