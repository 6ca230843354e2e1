--------------------------------- MODULE RtLine ---------------------------------
(***************************************************************************)
(* What libsu's server promises those who connect to it: they are taken in *)
(* the order in which they came, one at a time; each is dealt with on the  *)
(* spot, or handed to a helper of its own if it is entitled to one; whoever*)
(* was dealt with is not taken again; and when the server closes nobody is *)
(* left standing.  RtServer is the server that promises this.              *)
(***************************************************************************)
EXTENDS Sequences

CONSTANTS Clients, Entitled, None

VARIABLES open,      \* can one still connect
          waiting,   \* those who have connected, in their order
          now,       \* the one whose turn it is, or None
          helped,    \* those who have a helper
          done       \* those who were dealt with

vars == <<open, waiting, now, helped, done>>

Standing == {waiting[i] : i \in DOMAIN waiting}

Init == open = TRUE /\ waiting = <<>> /\ now = None /\ helped = {} /\ done = {}

Come(c) == /\ open /\ c \notin Standing \cup {now} \cup helped \cup done
           /\ waiting' = Append(waiting, c)
           /\ UNCHANGED <<open, now, helped, done>>

(* The first of the line has its turn,                                     *)
Take == /\ now = None /\ waiting # <<>>
        /\ now' = Head(waiting) /\ waiting' = Tail(waiting)
        /\ UNCHANGED <<open, helped, done>>

(* or is turned away at once.                                              *)
TurnAway == /\ now = None /\ waiting # <<>>
            /\ waiting' = Tail(waiting) /\ done' = done \cup {Head(waiting)}
            /\ UNCHANGED <<open, now, helped>>

Finish == /\ now # None
          /\ now' = None /\ done' = done \cup {now}
          /\ UNCHANGED <<open, waiting, helped>>

(* Only those who are entitled get a helper, who works beside the server.  *)
Delegate == /\ now \in Entitled
            /\ now' = None /\ helped' = helped \cup {now}
            /\ UNCHANGED <<open, waiting, done>>

HelperEnds(c) == /\ c \in helped
                 /\ helped' = helped \ {c} /\ done' = done \cup {c}
                 /\ UNCHANGED <<open, waiting, now>>

(* Of the clients only those who are entitled can have the server close.   *)
Close == /\ open /\ (now = None \/ now \in Entitled)
         /\ open' = FALSE /\ waiting' = <<>> /\ now' = None
         /\ done' = done \cup Standing \cup ({now} \ {None})
         /\ UNCHANGED helped

Next == \/ Take \/ TurnAway \/ Finish \/ Delegate \/ Close
        \/ \E c \in Clients : Come(c) \/ HelperEnds(c)

Spec == Init /\ [][Next]_vars
=============================================================================
