---------------------------- MODULE PrefillVerdict ----------------------------
(***************************************************************************)
(* How a validator judges the answer of a general model                    *)
(* (serving/canonical.py, serving/verify.py, serving/verifier.py,          *)
(* serving/markers.py, probes/general.py): the format, the text rebuilt    *)
(* from the answer, one forward pass over it, the margin of every returned *)
(* token below the model's first choice, and the calibrated threshold.     *)
(*                                                                         *)
(* Margins are integers; a mean over n positions is kept as a multiple of  *)
(* 1/Parts, a threshold as a multiple of 1/(100 * Parts), so that both are   *)
(* exact for samples of 1, 2 and 3 positions.                              *)
(***************************************************************************)
EXTENDS Integers, Sequences, FiniteSets, SequencesExt

CONSTANTS
    Vocabulary, Logits,     \* tokens; the row the pinned weights give after a prefix
    Texts, Contexts,        \* prompts and completions; sizes of the prefill context
    Honest, Substituted,    \* runs of a calibration: the margins of each of their samples
    Alphas,                 \* hundredths of the honest samples that may lie over a threshold
    Words, CallLists        \* texts that hold no tag of a format; lists of calls

Parts == 6
NoMargins == <<-1>>         \* VerificationError
NoText == <<"failed">>      \* MarkerError

-----------------------------------------------------------------------------
(* The forward pass: logit[prefix] is the row the pinned weights give after *)
(* prefix, with a value for every token of the vocabulary.                  *)

\* What llama.cpp returns: a row after every token of the sequence.
Eval(logit, ids) == [p \in 1..Len(ids) |-> logit[SubSeq(ids, 1, p)]]

\* Variant: the row of the token itself, not of the token before it.
RowsOfThemselves(rows, prompt, completion) == SubSeq(rows, prompt + 1, prompt + completion)

AlignedRows(rows, prompt, completion) == SubSeq(rows, prompt, prompt - 1 + completion)

Highest(row) == CHOOSE m \in {row[v] : v \in DOMAIN row} : \A v \in DOMAIN row : row[v] <= m
Gap(best, picked) == IF best - picked > 0 THEN best - picked ELSE 0

Margins(rows, tokens) ==
    IF Len(rows) # Len(tokens) \/ \E k \in DOMAIN tokens : tokens[k] \notin DOMAIN rows[k] THEN NoMargins
    ELSE [k \in DOMAIN tokens |-> Gap(Highest(rows[k]), rows[k][tokens[k]])]

LlamaMargins(logit, context, prompt, completion) ==
    IF completion = <<>> THEN <<>>
    ELSE IF prompt = <<>> \/ Len(prompt) + Len(completion) > context THEN NoMargins
    ELSE Margins(AlignedRows(Eval(logit, prompt \o completion), Len(prompt), Len(completion)), completion)

\* What SGLang returns from logprob_start_len on: each token, its logprob and
\* the best one at its place; nothing precedes the first token.
Scored(logit, ids, start) ==
    [k \in 1..(Len(ids) - start) |->
        LET p == start + k
            row == logit[SubSeq(ids, 1, p - 1)]
        IN  [token |-> ids[p], known |-> p > 1, value |-> row[ids[p]], top |-> Highest(row)]]

LogprobMargins(entries, completion) ==
    LET last == [k \in DOMAIN completion |-> entries[Len(entries) - Len(completion) + k]]
    IN  IF Len(entries) < Len(completion) THEN NoMargins
        ELSE IF \E k \in DOMAIN last : ~last[k].known \/ last[k].token # completion[k] THEN NoMargins
        ELSE [k \in DOMAIN last |-> Gap(last[k].top, last[k].value)]

SGLangMargins(logit, prompt, completion) ==
    IF completion = <<>> THEN <<>> ELSE IF prompt = <<>> THEN NoMargins
    ELSE LogprobMargins(Scored(logit, prompt \o completion, Len(prompt) - 1), completion)

-----------------------------------------------------------------------------
(* The statistic, the threshold and the verdict *)

Tolerance == 0
Summarise(gaps) ==
    LET over == Restrict(gaps, {k \in DOMAIN gaps : gaps[k] > Tolerance})
    IN  [positions |-> Len(gaps),
         mean |-> IF gaps = <<>> THEN 0 ELSE (Parts * SumFunction(over)) \div Len(gaps)]
Empty(statistic) == statistic.positions = 0
Kept(samples) == {k \in DOMAIN samples : ~Empty(samples[k])}

\* sorted(): the mean at place n of those that are kept.
AtPlace(samples, n) ==
    LET UpTo(m) == {k \in Kept(samples) : samples[k].mean <= m}
        Under(m) == {k \in Kept(samples) : samples[k].mean < m}
    IN  CHOOSE m \in {samples[k].mean : k \in Kept(samples)} :
            Cardinality(Under(m)) < n /\ n <= Cardinality(UpTo(m))

\* _quantile of the sorted means at (100 - alpha) hundredths, in hundredths.
Quantile(samples, alpha) ==
    LET place == (100 - alpha) * (Cardinality(Kept(samples)) - 1)
        low == place \div 100
        part == place % 100
    IN  IF part = 0 THEN 100 * AtPlace(samples, low + 1)
        ELSE 100 * AtPlace(samples, low + 1)
             + (AtPlace(samples, low + 2) - AtPlace(samples, low + 1)) * part

\* calibrate, of at least one honest sample that holds a position.
Calibrate(honest, substituted, alpha) ==
    LET threshold == Quantile(honest, alpha)
    IN  [held |-> TRUE, threshold |-> threshold,
         separated |-> /\ Kept(substituted) # {}
                       /\ \A k \in Kept(substituted) : 100 * substituted[k].mean > threshold]

Verdict(statistic, calibration) ==
    IF Empty(statistic) \/ ~calibration.separated THEN "unproven"
    ELSE IF 100 * statistic.mean > calibration.threshold THEN "cheat" ELSE "pass"

\* ModelVerifier.judge.  answer: whether the prompt ids it returned are those of
\* the validator's template, whether its text can be rebuilt, its margins.
ModelVerdict(answer, calibration) ==
    IF ~calibration.held \/ ~answer.ours \/ ~answer.rebuilt \/ answer.gaps = NoMargins
    THEN "unproven"
    ELSE Verdict(Summarise(answer.gaps), calibration)

-----------------------------------------------------------------------------
(* The text of an answer in the raw format of its family *)

Put(marker) == IF marker = "" THEN <<>> ELSE <<marker>>
Family(open, close, prefix, before, opened, separator, closed, pairs, end, ended) ==
    [open |-> open, close |-> close, prefix |-> prefix, before |-> before, opened |-> opened,
     separator |-> separator, closed |-> closed, pairs |-> pairs, end |-> end, ended |-> ended]
Families ==
    [deepseek   |-> Family("", "</t>", "", "", "<cs>", "", "</cs>", FALSE, "eos", "eos"),
     glm        |-> Family("<t>", "</t>", "nl", "", "", "", "", TRUE, "user", "observation"),
     kimi       |-> Family("<t>", "</t>", "", "", "<cs>", "", "</cs>", FALSE, "end", "end"),
     qwen       |-> Family("<t>", "</t>", "", "nl", "", "nl", "", FALSE, "end", "end"),
     qwen_coder |-> Family("", "", "", "nlnl", "", "nl", "", TRUE, "end", "end"),
     hermes     |-> Family("", "", "", "nl", "", "nl", "", FALSE, "end", "end")]

\* _call: a tag of its own; arguments written as pairs have to be an object.
RenderedCall(f, call) == <<"<call>", call.name, call.arguments, "</call>">>
Renders(f, calls) == f.pairs => \A k \in DOMAIN calls : calls[k].arguments # "broken"

Joined(f, calls) ==
    LET joined[n \in 0..Len(calls)] ==
            IF n = 0 THEN <<>>
            ELSE joined[n - 1] \o (IF n = 1 THEN <<>> ELSE Put(f.separator)) \o RenderedCall(f, calls[n])
    IN  joined[Len(calls)]

Reassemble(f, reasoning, content, calls) ==
    (IF reasoning = "" THEN <<>> ELSE Put(f.open) \o <<reasoning>> \o Put(f.close))
    \o (IF content = "" THEN <<>> ELSE Put(f.prefix) \o <<content>>)
    \o (IF calls = <<>> THEN <<>>
        ELSE (IF content = "" THEN <<>> ELSE Put(f.before)) \o Put(f.opened) \o Joined(f, calls) \o Put(f.closed))

EndOf(f, finish) ==
    CASE finish = "tool_calls" -> Put(f.ended) [] finish = "stop" -> Put(f.end) [] OTHER -> <<>>

\* Tokeniser.completion_ids.
CompletionText(f, answer) ==
    IF ~Renders(f, answer.calls) THEN NoText
    ELSE Reassemble(f, answer.reasoning, answer.content, answer.calls) \o EndOf(f, answer.finish)

-----------------------------------------------------------------------------
(* The format of an answer: offered is the set of tools of the request *)

BrokenFormat(offered, finish, calls) ==
    \/ finish \notin {"stop", "tool_calls", "length"}
    \/ finish = "tool_calls" /\ calls = <<>>
    \/ /\ calls # <<>>
       /\ \/ offered = {}
          \/ finish = "stop"
          \/ \E k \in DOMAIN calls :
                 \/ calls[k].name \notin offered
                 \/ finish # "length" /\ calls[k].arguments = "broken"

-----------------------------------------------------------------------------
(* What a verdict rests on *)

Markers(f) ==
    {"<call>", "</call>", f.open, f.close, f.prefix, f.before, f.opened, f.separator, f.closed, f.end, f.ended, ""}

ASSUME VerdictAssumption ==
    /\ IsFiniteSet(Vocabulary) /\ \A text \in Texts : text \in Seq(Vocabulary)
    /\ \A prompt, completion \in Texts : \A n \in 0..Len(completion) :
           Logits[prompt \o SubSeq(completion, 1, n)] \in [Vocabulary -> Int]
    /\ Contexts \subseteq Nat
    /\ \A run \in Honest \cup Substituted : run \in Seq(Seq(Nat))
    /\ Alphas \subseteq 1..99
    /\ \A f \in DOMAIN Families : Words \cap Markers(Families[f]) = {}
    /\ \A calls \in CallLists : calls \in Seq([name : Words, arguments : Words])

\* The margins of the tokens of a completion: what each lies below the first choice
\* of the row after all tokens before it.
LeftBelow(prompt, completion) ==
    [k \in DOMAIN completion |->
        LET row == Logits[prompt \o SubSeq(completion, 1, k - 1)]
        IN  Highest(row) - row[completion[k]]]

\* Both engines give these margins, or none (canonical.aligned_rows, logprob_margins).
MarginsAreOfTheNextToken ==
    \A prompt, completion \in Texts \ {<<>>} :
        /\ SGLangMargins(Logits, prompt, completion) = LeftBelow(prompt, completion)
        /\ \A context \in Contexts :
               LlamaMargins(Logits, context, prompt, completion) =
                   IF Len(prompt) + Len(completion) <= context THEN LeftBelow(prompt, completion) ELSE NoMargins

\* The replies whose every token was the first choice, as they are judged.
AlwaysFirst(prompt, completion) ==
    \A k \in DOMAIN completion :
        LET row == Logits[prompt \o SubSeq(completion, 1, k - 1)]
        IN  \A v \in Vocabulary : row[v] <= row[completion[k]]
FirstChoices ==
    {Summarise(SGLangMargins(Logits, texts[1], texts[2])) :
        texts \in {t \in (Texts \ {<<>>}) \X (Texts \ {<<>>}) : AlwaysFirst(t[1], t[2])}}

Statistics(run) == [k \in DOMAIN run |-> Summarise(run[k])]
Reported(samples, calibration) == {k \in DOMAIN samples : Verdict(samples[k], calibration) = "cheat"}

\* A threshold that separated reports every substituted sample and, of n honest ones, no
\* more than its share of n - 1 and one; nor who always returned the first choice
\* (verify.calibrate, _quantile, judge).
CalibrationSeparates ==
    \A honest \in {Statistics(run) : run \in Honest}, substituted \in {Statistics(run) : run \in Substituted} :
        Kept(honest) # {} => \A alpha \in Alphas :
            LET c == Calibrate(honest, substituted, alpha)
                over == Cardinality(Reported(honest, c))
            IN  /\ c.separated => Reported(substituted, c) = Kept(substituted) /\ Kept(substituted) # {}
                /\ 100 * (over - 1) < alpha * (Cardinality(Kept(honest)) - 1)
                /\ \A reply \in FirstChoices : Verdict(reply, c) # "cheat"

\* A text is of one reasoning, one content and one list of calls, whatever the reason it
\* ended for (markers.reassemble, end_of).
Replies(f) ==
    {a \in [reasoning : Words \cup {""}, content : Words \cup {""}, calls : CallLists,
            finish : {"stop", "tool_calls", "length"}] :
        (f.close = "" => a.reasoning = "") /\ Renders(f, a.calls)}
RepliesAreToldApart ==
    \A f \in {Families[name] : name \in DOMAIN Families} : \A a, b \in Replies(f) :
        CompletionText(f, a) = CompletionText(f, b) =>
            a.reasoning = b.reasoning /\ a.content = b.content /\ a.calls = b.calls

\* A margin is the one of the token returned, a threshold keeps to its share, and replies
\* that differ are rebuilt into texts that differ.
VerdictIsSound == MarginsAreOfTheNextToken /\ CalibrationSeparates /\ RepliesAreToldApart
=============================================================================
