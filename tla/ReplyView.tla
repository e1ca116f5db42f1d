------------------------------ MODULE ReplyView ------------------------------
(***************************************************************************)
(* What a device promises its wearer about a streamed reply: the reply of  *)
(* the current message segment only grows, and what is on the glasses is a *)
(* beginning of it that is only ever appended to.  A new segment and a new *)
(* connection start again from nothing.                                    *)
(***************************************************************************)
EXTENDS Sequences, SequencesExt

CONSTANTS Token,   \* pieces of text
          MaxLen   \* bound: pieces in a segment

VARIABLES reply,   \* what the gateway has produced of the segment
          view     \* what the current connection has shown of it

Texts == BoundedSeq(Token, MaxLen)

Init == reply = <<>> /\ view = <<>>

(* The segment grows, and the device catches up with all of it or, when    *)
(* the frame is lost with its connection, keeps what it has.               *)
Grow ==
  /\ reply' \in Texts /\ IsPrefix(reply, reply')
  /\ view' \in {view, reply'} /\ IsPrefix(view, view')

NewSegment ==
  /\ reply' \in Texts
  /\ view' \in {<<>>, reply'}

NewConnection == view' = <<>> /\ UNCHANGED reply

Next == Grow \/ NewSegment \/ NewConnection

Spec == Init /\ [][Next]_<<reply, view>>
=============================================================================
