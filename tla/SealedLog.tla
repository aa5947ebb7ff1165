-------------------------------- MODULE SealedLog --------------------------------
(***************************************************************************)
(* What a miner's run promises of its rows, however often it dies: a       *)
(* finished row is kept, in the order of the plan, until the inputs        *)
(* change; a transcript has every row, is sealed once for a set of rows,   *)
(* and only what was sealed is published.                                  *)
(***************************************************************************)
EXTENDS Integers, Sequences

CONSTANTS Length, NoSeal

VARIABLES log, inputs, sealed, published

Init == log = <<>> /\ inputs = 0 /\ sealed = NoSeal /\ published = {}

Finish ==
    /\ Len(log) < Length /\ Len(log') = Len(log) + 1
    /\ \A k \in 1..Len(log) : log'[k] = log[k]
    /\ log'[Len(log')].row = Len(log') /\ log'[Len(log')].version = inputs
    /\ UNCHANGED <<inputs, sealed, published>>

StartOver ==
    /\ inputs' > inputs /\ log' = <<>>
    /\ UNCHANGED <<sealed, published>>

Seal ==
    /\ Len(log) = Length
    /\ sealed = NoSeal \/ sealed.items # log
    /\ sealed' # NoSeal /\ sealed'.items = log
    /\ UNCHANGED <<log, inputs, published>>

Publish ==
    /\ sealed # NoSeal /\ published' = published \cup {sealed}
    /\ UNCHANGED <<log, inputs, sealed>>

Next == Finish \/ StartOver \/ Seal \/ Publish

Spec == Init /\ [][Next]_<<log, inputs, sealed, published>>

================================================================================
