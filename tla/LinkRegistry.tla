---------------------------- MODULE LinkRegistry ----------------------------
(***************************************************************************)
(* What kshare promises about its links, seen from outside: a link is      *)
(* published once, shows one body at a time, may have that body swapped    *)
(* for a new one while it lives, and when it is retired it is never        *)
(* published again.  A body is shown by one link, once.  A reader of a     *)
(* link gets a body that this link has shown, and never another's.         *)
(*                                                                         *)
(* How long a link lives, and which of its bodies a reader gets while it   *)
(* is being swapped, are not promised here.                                *)
(***************************************************************************)
CONSTANTS
  Links, Bodies, Readers,
  Unpublished,  \* no body yet
  Retired,      \* no body any more
  Nothing       \* a reader that got no body

VARIABLES
  link,   \* what each link shows
  past,   \* the bodies it has shown so far, this one included
  served  \* the link and the body each reader got

Init ==
  /\ link = [s \in Links |-> Unpublished]
  /\ past = [s \in Links |-> {}]
  /\ served = [g \in Readers |-> Nothing]

Fresh(b) == \A s \in Links : b \notin past[s]

Show(s, b) ==
  /\ Fresh(b)
  /\ link' = [link EXCEPT ![s] = b]
  /\ past' = [past EXCEPT ![s] = @ \cup {b}]
  /\ UNCHANGED served

Publish(s, b) == link[s] = Unpublished /\ Show(s, b)

Swap(s, b) == link[s] \in Bodies /\ Show(s, b)

Retire(s) ==
  /\ link[s] \in Bodies
  /\ link' = [link EXCEPT ![s] = Retired]
  /\ UNCHANGED <<past, served>>

Read(g, s, b) ==
  /\ served[g] = Nothing
  /\ b \in past[s]
  /\ served' = [served EXCEPT ![g] = <<s, b>>]
  /\ UNCHANGED <<link, past>>

Next ==
  \E s \in Links :
    \/ \E b \in Bodies : Publish(s, b) \/ Swap(s, b)
    \/ Retire(s)
    \/ \E g \in Readers, b \in Bodies : Read(g, s, b)

Spec == Init /\ [][Next]_<<link, past, served>>
=============================================================================
