-------------------------------- MODULE RtReply --------------------------------
(***************************************************************************)
(* What a client of libsu's server may see on its connection: pieces of    *)
(* output, or one status line and nothing else; output that was cut short  *)
(* is followed by a mark, and nothing follows the mark.  RtRequest is the  *)
(* handler that promises this.                                             *)
(***************************************************************************)
EXTENDS Naturals

VARIABLES sent,     \* how many pieces of output have been sent
          ending,   \* what came last: a status line, the mark, or neither yet
          open      \* is the server's end of the connection open

vars == <<sent, ending, open>>

Init == sent = 0 /\ ending = "none" /\ open = TRUE

Output == /\ open /\ ending = "none"
          /\ sent' = sent + 1
          /\ UNCHANGED <<ending, open>>

(* A status line is the whole answer.                                      *)
Status == /\ open /\ ending = "none" /\ sent = 0
          /\ ending' \in {"zero", "minus"}
          /\ UNCHANGED <<sent, open>>

(* The mark tells the client that the output was cut short.                *)
Mark == /\ open /\ ending = "none" /\ sent > 0
        /\ ending' = "mark"
        /\ UNCHANGED <<sent, open>>

Close == /\ open
         /\ open' = FALSE
         /\ UNCHANGED <<sent, ending>>

Next == Output \/ Status \/ Mark \/ Close

Spec == Init /\ [][Next]_vars
=============================================================================
