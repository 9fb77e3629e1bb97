------------------------------ MODULE OneSlot ------------------------------
(***************************************************************************)
(* What the shared-memory demos promise: a source hands the blocks of      *)
(* Input, one at a time and in order, to a sink through a single slot.     *)
(* The source may be at most one block ahead, and nothing is lost,         *)
(* repeated, reordered or invented.                                        *)
(***************************************************************************)
EXTENDS Naturals, Sequences

CONSTANT Input          \* the blocks the source has to hand over

VARIABLES sent,         \* how many blocks the source has put into the slot
          out           \* the blocks the sink has taken out of it

Init == sent = 0 /\ out = <<>>

Put == /\ sent < Len(Input)
       /\ sent = Len(out)
       /\ sent' = sent + 1
       /\ out' = out

Take == /\ Len(out) < sent
        /\ out' = Append(out, Input[Len(out) + 1])
        /\ sent' = sent

Next == Put \/ Take

Spec == Init /\ [][Next]_<<sent, out>>
=============================================================================
