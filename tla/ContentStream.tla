---------------------------- MODULE ContentStream ----------------------------
(***************************************************************************)
(* What a streamed answer promises to a harness: blocks, one after the     *)
(* other and never interleaved, each of them growing until it is closed, a *)
(* tool call in one block only, and at the end exactly one verdict, with   *)
(* no block open and nothing after it.                                     *)
(***************************************************************************)
EXTENDS Naturals, Sequences

VARIABLES outcome,  \* "none", "begun", or how the stream ended
          blocks,   \* the blocks so far, as [kind, tool]
          isOpen,   \* the last of them still grows
          current   \* what it consists of so far

vars == <<outcome, blocks, isOpen, current>>

Init == outcome = "none" /\ blocks = <<>> /\ isOpen = FALSE /\ current = <<>>

Begin ==
  /\ outcome = "none" /\ outcome' = "begun"
  /\ UNCHANGED <<blocks, isOpen, current>>

OpenBlock ==
  /\ outcome = "begun" /\ ~isOpen
  /\ Len(blocks') = Len(blocks) + 1
  /\ \A i \in DOMAIN blocks : blocks'[i] = blocks[i]
  /\ LET new == blocks'[Len(blocks')]
     IN  new.kind = "tool" => \A i \in DOMAIN blocks : blocks[i] # new
  /\ isOpen' = TRUE /\ current' = <<>>
  /\ UNCHANGED outcome

Grow ==
  /\ isOpen
  /\ Len(current) <= Len(current')
  /\ \A i \in DOMAIN current : current'[i] = current[i]
  /\ UNCHANGED <<outcome, blocks, isOpen>>

CloseBlock ==
  /\ isOpen /\ isOpen' = FALSE /\ current' = <<>>
  /\ UNCHANGED <<outcome, blocks>>

End ==
  /\ outcome = "begun" /\ ~isOpen
  /\ outcome' \in {"stopped", "cut", "error"}
  /\ UNCHANGED <<blocks, isOpen, current>>

Next == Begin \/ OpenBlock \/ Grow \/ CloseBlock \/ End

Spec == Init /\ [][Next]_vars
=============================================================================
