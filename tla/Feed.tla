-------------------------------- MODULE Feed --------------------------------
(***************************************************************************)
(* What a thread's subscription promises its reader: the events of the     *)
(* thread, each once, in the order they were appended, and all of them in  *)
(* the end.                                                                *)
(***************************************************************************)
EXTENDS Naturals, Sequences

VARIABLES
    head,     \* the sequence of the thread's latest event
    seen      \* the sequences of the events the reader was given

feedVars == <<head, seen>>

Init == head = 0 /\ seen = <<>>

NewEvent == head' = head + 1 /\ UNCHANGED seen

Deliver ==
    /\ Len(seen) < head
    /\ seen' = Append(seen, Len(seen) + 1)
    /\ UNCHANGED head

Next == NewEvent \/ Deliver

Spec == Init /\ [][Next]_feedVars /\ WF_feedVars(Deliver)

=============================================================================
