------------------------------ MODULE MCRowReplay ------------------------------
(***************************************************************************)
(* A direct row, a harness row whose first model call gets a fault and a   *)
(* repair, made by a program that tries again when it hears no good text,  *)
(* gives up at the limit, asks a tool for the rest, and does not stop      *)
(* asking it what it cannot have: the request times out.                   *)
(***************************************************************************)
EXTENDS RowReplay

ThreeRows == << [pool |-> "slm", item |-> 1], [pool |-> "harness", item |-> 1],
                [pool |-> "escalation", item |-> 2] >>
BothFaulty == 1 :> "status" @@ 2 :> "garbled"
Prompts == "direct" :> 2 @@ "draft" :> 3 @@ "again" :> 6 @@ "query" :> 0 @@ "fix" :> 0

Says(kind, ask) == [kind |-> kind, ask |-> ask]
Harness(r, heard) ==
    LET n == Len(heard)
        last == heard[n]
    IN  IF n = 0 THEN IF r.pool = "escalation" THEN Says("relay", "fix") ELSE Says("slm", "draft")
        ELSE IF last = "limit" THEN Says("answer", "none")
        ELSE IF last = "good" THEN Says("tool", "query")
        ELSE IF last = "rows" THEN Says("answer", "table")
        ELSE IF last = "frontier" THEN Says("answer", "fixed")
        ELSE IF last = "mismatch" THEN Says("tool", "query")
        ELSE Says("slm", "again")

\* One change to one row.
CallEdits(c) ==
    {[c EXCEPT !.ask = a] : a \in {"draft", "again"}} \cup
    {[c EXCEPT !.fault = f] : f \in {"none", "status"}} \cup
    {[c EXCEPT !.resp = "good"], [c EXCEPT !.resp = "more"], [c EXCEPT !.tokens = 1],
     [c EXCEPT !.receipt = "other"]}
RowEdits(r) ==
    {[r EXCEPT !.item = 3], [r EXCEPT !.seed = "other"], [r EXCEPT !.request = "other"],
     [r EXCEPT !.output = "other"]} \cup
    (IF r.calls = <<>> THEN {}
     ELSE {[r EXCEPT !.calls = Front(@)], [r EXCEPT !.calls = Append(@, Last(@))]}) \cup
    UNION {{[r EXCEPT !.calls[k] = c] : c \in CallEdits(r.calls[k])} : k \in DOMAIN r.calls}
OneEdit(t) == UNION {{[t EXCEPT ![k] = r] : r \in RowEdits(t[k])} : k \in DOMAIN t}

\* Receipts of up to five miners.
SmallReceipts == UNION {[who -> {11, 12}] : who \in SUBSET (1..5)}
=============================================================================
