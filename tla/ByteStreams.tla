---------------------------- MODULE ByteStreams ----------------------------
(***************************************************************************)
(* What a pipe promises its users: a bounded queue of bytes.  What a write *)
(* moves is appended, what a read moves is the front, and nothing else     *)
(* changes the queue until the pipe is discarded.  `moved` is what the     *)
(* last step moved between a process and a pipe.                           *)
(***************************************************************************)
EXTENDS Naturals, Sequences

CONSTANTS Pipes, Capacity

VARIABLES content, moved

StreamInit ==
  /\ content = [a \in Pipes |-> << >>]
  /\ moved = << >>

Append1(a) ==
  /\ moved' # << >>
  /\ content' = [content EXCEPT ![a] = @ \o moved']
  /\ Len(content'[a]) <= Capacity

Take1(a) ==
  /\ moved' # << >>
  /\ \E rest \in {content'[a]} :
       /\ content[a] = moved' \o rest
       /\ content' = [content EXCEPT ![a] = rest]

Discard(a) ==
  /\ moved' = << >>
  /\ content' = [content EXCEPT ![a] = << >>]

Quiet ==
  /\ moved' = << >>
  /\ UNCHANGED content

StreamNext == Quiet \/ \E a \in Pipes : Append1(a) \/ Take1(a) \/ Discard(a)

StreamSpec == StreamInit /\ [][StreamNext]_<<content, moved>>
=============================================================================
