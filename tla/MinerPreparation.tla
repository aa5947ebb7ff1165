---------------------------- MODULE MinerPreparation ----------------------------
(***************************************************************************)
(* From the mirror document to the records of a round: the download of a   *)
(* file in parts (validator/client.py), the trees on the disk,             *)
(* prepare_miner and grade_miner step by step, and the loop over the       *)
(* miners (validator/epoch.py).                                            *)
(*                                                                         *)
(* Operators only.  A file is its name, a digest and whether it is a       *)
(* weight; names are numbers, in their order.  The transcript of a miner,  *)
(* what the replay says of it and what a check finds are a choice of the   *)
(* step the preparation stops at.                                          *)
(***************************************************************************)
EXTENDS Integers, Sequences, FiniteSets, Functions

CONSTANTS
    MIRROR_ATTEMPTS,
    Blob,           \* the size of a file of the mirror
    Transfers,      \* the sequences of answers of the mirror
    Files,          \* the files of artifacts
    Entries,        \* what the document may say of a mirrored miner
    Stops,          \* where a preparation may end
    Pasts,          \* the preparations of a miner since its folder was removed
    Hotkeys,
    Lots,           \* what a round brings to the miners: entry, past and stop of each
    BanLists, Rounds

Answer == [status: Nat, at: Nat, bytes: Nat, sound: BOOLEAN, cut: BOOLEAN]

ASSUME DownloadAssumption ==
    /\ MIRROR_ATTEMPTS \in Nat \ {0} /\ Blob \in Nat \ {0}
    /\ Transfers \subseteq Seq(Answer)

\* The files of an entry are a mapping: a name has one digest.
IsMapping(files) == \A f, g \in files : f.name = g.name => f = g

ASSUME EntriesAssumption ==
    /\ \A f \in Files : f.name \in Nat /\ f.weight \in BOOLEAN
    /\ \A f, g \in Files : f.name = g.name => f.weight = g.weight
    /\ Entries \subseteq [artifact: SUBSET Files, slm: SUBSET Files]
    /\ \A entry \in Entries : \A files \in {entry.artifact, entry.slm} :
          IsFiniteSet(files) /\ IsMapping(files)

---------------------------------------------------------------------------------
(* A file of the mirror, in parts. *)

\* A part on the disk: its size, and whether its bytes are those of the blob so far.
NoPart == [size |-> 0, sound |-> TRUE]

\* _fetch_part: a request for what is missing.  An answer has a status, says where it
\* resumes, and brings some bytes before it is whole or the connection is cut.
FetchPart(blob, part, answer) ==
    LET from == IF answer.status = 206 THEN part ELSE NoPart
        size == from.size + answer.bytes
        written == [size |-> size, sound |-> from.sound /\ answer.sound /\ size <= blob]
        ended(end, left) == [end |-> end, part |-> left]
    IN  CASE answer.status = 404 -> ended("refused", NoPart)
          [] answer.status = 416 -> ended("read", part)
          [] answer.status = 429 \/ answer.status >= 500 -> ended("dropped", part)
          [] answer.status = 206 /\ answer.at # part.size -> ended("dropped", NoPart)
          [] answer.status \in {200, 206} -> ended(IF answer.cut THEN "dropped" ELSE "read", written)
          [] OTHER -> ended("refused", part)

\* One round of mirror_file's loop.  A part that is not the blob when it is whole is
\* thrown away; so many failures with no progress between them end it.
TryPart(blob, got, answer) ==
    LET found == FetchPart(blob, got.part, answer)
        failures == IF found.end = "dropped" /\ found.part.size > got.part.size THEN 0
                    ELSE got.failures + 1
    IN  IF got.end # "running" THEN got
        ELSE IF found.end = "refused" THEN [got EXCEPT !.part = found.part, !.end = "refused"]
        ELSE IF found.end = "read" /\ found.part = [size |-> blob, sound |-> TRUE]
        THEN [got EXCEPT !.part = NoPart, !.end = "file"]
        ELSE [part |-> IF found.end = "read" THEN NoPart ELSE found.part, failures |-> failures,
              end |-> IF failures >= MIRROR_ATTEMPTS THEN "refused" ELSE "running"]

\* mirror_file, from the part an earlier call left, after each of the answers.
MirrorFile(blob, part, answers) ==
    LET got[n \in 0..Len(answers)] ==
            IF n = 0 THEN [part |-> part, failures |-> 0, end |-> "running"]
            ELSE TryPart(blob, got[n - 1], answers[n])
    IN  got

\* An answer of an honest mirror to a request for what is missing behind so many bytes,
\* and one that brings nothing.
Honest(answer, size) ==
    \/ answer.status = 429 \/ answer.status >= 500
    \/ answer.status = 416 /\ size = Blob
    \/ answer.status = 200 /\ answer.bytes = Blob /\ answer.sound /\ ~answer.cut
    \/ /\ answer.status = 206 /\ answer.at = size /\ answer.sound
       /\ size + answer.bytes <= Blob /\ (~answer.cut => size + answer.bytes = Blob)
Silent(answer) == answer.status \notin {200, 206} \/ answer.bytes = 0
NeverSilentForLong(answers) ==
    \A n \in 0..Len(answers) - MIRROR_ATTEMPTS :
        \E k \in n + 1..n + MIRROR_ATTEMPTS : ~Silent(answers[k])

Whole == [status |-> 200, at |-> 0, bytes |-> Blob, sound |-> TRUE, cut |-> FALSE]

\* For every answers of a mirror and every part left by an earlier call: what is put in
\* place is the blob, and the next whole answer is always enough.
PlacedIsTheBlob(got, answers) ==
    \A n \in 1..Len(answers) :
        /\ got[n - 1].end = "running" /\ got[n].end = "file" =>
              FetchPart(Blob, got[n - 1].part, answers[n]).part = [size |-> Blob, sound |-> TRUE]
        /\ got[n].end = "running" =>
              got[n].failures < MIRROR_ATTEMPTS /\ TryPart(Blob, got[n], Whole).end = "file"

\* A mirror that resumes where the part ends gets the blob there, however often it is cut,
\* as long as fewer than MIRROR_ATTEMPTS answers in a row bring nothing: no byte that came
\* is asked for again.
ResumesToTheEnd(got, answers) ==
    (/\ NeverSilentForLong(answers) /\ got[0].part.sound /\ got[0].part.size <= Blob
     /\ \A n \in 1..Len(answers) : got[n - 1].end = "running" => Honest(answers[n], got[n - 1].part.size))
    => \A n \in 1..Len(answers) :
          /\ got[n].end # "refused"
          /\ got[n].end = "running" => got[n].part.size >= got[n - 1].part.size
          /\ ~answers[n].cut /\ ~Silent(answers[n]) => got[n].end = "file"

DownloadIsExact ==
    \A part \in [size: 0..Blob + 1, sound: BOOLEAN], answers \in Transfers :
        LET got == MirrorFile(Blob, part, answers)
        IN  PlacedIsTheBlob(got, answers) /\ ResumesToTheEnd(got, answers)

---------------------------------------------------------------------------------
(* The trees of a miner's folder.  It is not of a round: what a dead process left is there. *)

EmptyTree == [files |-> {}, complete |-> FALSE]
EmptyFolder == [artifact |-> EmptyTree, slm |-> EmptyTree]
WeightsIn(files) == {f \in files : f.weight}

\* The first so many of the files, in the order of their names.
FirstOf(files, n) == {f \in files : Cardinality({g \in files : g.name < f.name}) < n}
NotThere(tree, files, weights) == {f \in files : f.weight = weights} \ tree.files
Fetched(tree, missing, reads) ==
    {f \in tree.files : \A g \in FirstOf(missing, reads + 1) : f.name # g.name} \cup FirstOf(missing, reads)

\* Variant: the mark is written with the first weight.
MarkedEarly(tree, files, weights, reads) ==
    [files |-> Fetched(tree, NotThere(tree, files, weights), reads),
     complete |-> tree.complete \/ weights]

\* materialise_tree: the files of one kind that are not there yet, in their order; it
\* may stop when so many are read, and has then removed the file it was to replace.
\* The mark of the weights is written after the last of them.
Materialised(tree, files, weights, reads) ==
    LET missing == NotThere(tree, files, weights)
    IN  [files |-> Fetched(tree, missing, reads),
         complete |-> tree.complete \/ (weights /\ reads > Cardinality(missing))]

\* pull_weights: weights that are marked complete are not asked for again.
PullWeights(tree, files, reads) ==
    IF WeightsIn(files) = {} \/ tree.complete THEN tree
    ELSE Materialised(tree, files, TRUE, reads)

DropWeights(tree) == [files |-> tree.files \ WeightsIn(tree.files), complete |-> FALSE]

---------------------------------------------------------------------------------
(* prepare_miner and grade_miner.  A stop is the step that is not passed: it fails in one *)
(* of the ways it has a word for, or raises, or the process dies in it.                   *)

Steps == <<"entry", "artifact", "model", "manifest", "receipt", "transcript", "counter",
           "replay", "pull", "parameters", "provenance", "drop", "grade", "score">>
ASSUME PreparationAssumption ==
    /\ Stops \subseteq [at: Range(Steps) \cup {"none"}, reads: Nat, known: BOOLEAN]
    /\ Pasts \subseteq Seq([entry: Entries, stop: Stops])
    /\ IsFiniteSet(Hotkeys) /\ Lots \subseteq [Hotkeys -> [entry: Entries, past: Pasts, stop: Stops]]
    /\ \A bans \in BanLists : \A b \in bans : b.from \in Nat /\ b.until \in Nat
    /\ Rounds \subseteq Nat

PlaceOf(step) == CHOOSE i \in DOMAIN Steps : Steps[i] = step
NoStop == [at |-> "none", reads |-> 0, known |-> FALSE]

\* Steps after the pull are there only for a model with weights.
ModelSteps == {"pull", "parameters", "provenance", "drop"}
IsStopped(entry, stop) ==
    stop.at # "none" /\ (stop.at \in ModelSteps => WeightsIn(entry.slm) # {})
Passes(entry, stop, step) == IsStopped(entry, stop) => PlaceOf(step) < PlaceOf(stop.at)
Reads(stop, step, files) == IF stop.at = step THEN stop.reads ELSE Cardinality(files) + 1

\* What the record says of the failure: it blames the transcript, the mirror, the
\* weights, or tells that the evaluation itself raised.
Blame(stop) ==
    IF stop.at = "replay" THEN "replay"
    ELSE IF stop.at \in {"artifact", "model", "manifest", "receipt", "transcript"} /\ stop.known
    THEN "replay"
    ELSE IF stop.at = "pull" /\ stop.known THEN "mirror"
    ELSE IF stop.at = "parameters" /\ stop.known THEN "weights"
    ELSE IF stop.at = "grade" THEN "grading"
    ELSE IF stop.at = "score" THEN "scoring"
    ELSE "evaluation"

\* The folder once the preparation has ended, in whatever way.
FolderAfter(entry, folder, stop) ==
    LET passes(step) == Passes(entry, stop, step)
        artifact == IF passes("entry")
                    THEN Materialised(folder.artifact, entry.artifact, FALSE,
                                      Reads(stop, "artifact", entry.artifact))
                    ELSE folder.artifact
        model == IF passes("artifact")
                 THEN Materialised(folder.slm, entry.slm, FALSE, Reads(stop, "model", entry.slm))
                 ELSE folder.slm
        pulled == IF passes("replay") THEN PullWeights(model, entry.slm, Reads(stop, "pull", entry.slm))
                  ELSE model
    IN  [artifact |-> artifact,
         slm |-> IF passes("drop") /\ WeightsIn(entry.slm) # {} THEN DropWeights(pulled) ELSE pulled]

\* The folder that preparations left which died, or failed with no end of the round.
FolderLeft(past) ==
    LET left[n \in 0..Len(past)] ==
            IF n = 0 THEN EmptyFolder ELSE FolderAfter(past[n].entry, left[n - 1], past[n].stop)
    IN  left[Len(past)]

\* What model_parameters, provenance.check and the sketch look at.
Measured(entry, folder, stop) ==
    IF ~Passes(entry, stop, "pull") \/ WeightsIn(entry.slm) = {} THEN {}
    ELSE LET upto == [at |-> "parameters", reads |-> 0, known |-> FALSE]
         IN  WeightsIn(FolderAfter(entry, folder, upto).slm.files)

\* The record, the outcome and the row of one miner.
Evaluated(entry, folder, stop) ==
    [failure |-> IF IsStopped(entry, stop) THEN Blame(stop) ELSE "",
     measured |-> Measured(entry, folder, stop),
     digest |-> IF Passes(entry, stop, "parameters") THEN WeightsIn(entry.slm) ELSE {},
     transcript |-> Passes(entry, stop, "transcript"),
     replayed |-> Passes(entry, stop, "replay"),
     outcome |-> Passes(entry, stop, "grade")]

\* What is measured and sketched in the name of an artifact is the weights the mirror lists
\* for it, whatever was prepared before, but where a process died between the start of the
\* pull and the end of the preparation of another artifact of the miner; and no weights
\* stay after a preparation that went through (pull_weights, materialise_tree,
\* drop_weights).
Pulling(entry, stop) == stop.at \in ModelSteps /\ IsStopped(entry, stop)
OthersWerePulled(past, entry) ==
    \E n \in DOMAIN past : Pulling(past[n].entry, past[n].stop) /\ past[n].entry # entry

FolderIsOfTheEntry ==
    \A past \in Pasts, entry \in Entries, stop \in Stops :
        LET folder == FolderLeft(past)
            after == FolderAfter(entry, folder, stop)
            measured == Measured(entry, folder, stop)
        IN  /\ measured # {} /\ ~OthersWerePulled(past, entry) => measured = WeightsIn(entry.slm)
            /\ ~IsStopped(entry, stop) =>
                  /\ WeightsIn(entry.slm) # {} => WeightsIn(after.slm.files) = {} /\ ~after.slm.complete
                  /\ entry.artifact \ WeightsIn(entry.artifact) \subseteq after.artifact.files

---------------------------------------------------------------------------------
(* The records of a round. *)

\* unmirrored_records, mirrored_miners and banned_hotkeys: document[h] is the status the
\* document gives to h, and a ban has its rounds.
Mirrored(document) == {h \in DOMAIN document : document[h] = "mirrored"}
Unmirrored(roster, document) == roster \ Mirrored(document)
Banned(bans, now) == {b.hotkey : b \in {c \in bans : c.from <= now /\ now < c.until}}

UnmirroredRecord ==
    [failure |-> "mirror", measured |-> {}, digest |-> {}, transcript |-> FALSE,
     replayed |-> FALSE, outcome |-> FALSE]

\* Variant: the first failure ends the loop.
UntilOneFails(records, h, record) ==
    IF \E other \in DOMAIN records : records[other].failure = "evaluation" THEN records
    ELSE [other \in DOMAIN records \cup {h} |-> IF other = h THEN record ELSE records[other]]

\* A miner whose preparation or grading raises has a record with a failure, and the next
\* one is prepared.
WithRecord(records, h, record) ==
    [other \in DOMAIN records \cup {h} |-> IF other = h THEN record ELSE records[other]]

RoundRecords(roster, document, bans, now, lot, queue) ==
    LET left == Mirrored(document) \ Banned(bans, now)
        got[n \in 0..Len(queue)] ==
            IF n = 0 THEN [h \in Unmirrored(roster, document) |-> UnmirroredRecord]
            ELSE IF queue[n] \in left
            THEN WithRecord(got[n - 1], queue[n], Evaluated(lot[queue[n]].entry, FolderLeft(lot[queue[n]].past),
                                                            lot[queue[n]].stop))
            ELSE got[n - 1]
    IN  got[Len(queue)]

\* The end of the round: what is posted, and the folders of the records are removed.
\* A body with the figures that is refused as malformed is sent without them.
Posted(record, answers) ==
    LET last == IF answers[1] = "malformed" THEN answers[2] ELSE answers[1]
    IN  [accepted |-> last = "accepted", plain |-> answers[1] = "malformed",
         scored |-> record.failure = ""]
FoldersLeft(records, folders) ==
    [h \in DOMAIN folders |-> IF h \in DOMAIN records THEN EmptyFolder ELSE folders[h]]

---------------------------------------------------------------------------------
Statuses == {"mirrored", "refused", "absent"}
Orders == {queue \in [1..Cardinality(Hotkeys) -> Hotkeys] : Range(queue) = Hotkeys}
Replies == {"accepted", "malformed", "down"}

\* A record has either a failure or an outcome of a replayed transcript, never both, so that
\* the report names a miner once; and nothing is measured for one whose replay failed.
IsOneOfBoth(record) ==
    /\ record.failure = "" => record.outcome /\ record.replayed /\ record.transcript
    /\ record.failure \notin {"", "scoring"} => ~record.outcome
    /\ record.failure = "replay" => record.measured = {}
    /\ \A answers \in [1..2 -> Replies] :
          LET sent == Posted(record, answers)
          IN  /\ sent.scored => record.outcome
              /\ answers[1] = "malformed" => (sent.accepted <=> answers[2] = "accepted")

\* Every miner of the roster, and every mirrored one, has one record at the end of the
\* round, but for the mirrored that are banned; and a mirrored one's is of its own entry,
\* folder and failures, so that those of one change nothing for another
\* (run_miner_mode_epoch, prepare_miner, grade_miner, unmirrored_records).
EveryoneIsRecorded ==
    \A document \in [Hotkeys -> Statuses], roster \in SUBSET Hotkeys, bans \in BanLists,
       now \in Rounds, lot \in Lots, queue \in Orders :
        LET made == RoundRecords(roster, document, bans, now, lot, queue)
            out == {h \in Mirrored(document) : \E b \in bans : b.hotkey = h /\ now \in b.from..b.until - 1}
            folders == [h \in Hotkeys |-> FolderAfter(lot[h].entry, FolderLeft(lot[h].past), lot[h].stop)]
        IN  /\ DOMAIN made = (roster \cup Mirrored(document)) \ out
            /\ \A h \in DOMAIN made :
                  /\ IsOneOfBoth(made[h])
                  /\ h \in Mirrored(document) =>
                        made[h] = Evaluated(lot[h].entry, FolderLeft(lot[h].past), lot[h].stop)
                  /\ FoldersLeft(made, folders)[h] = EmptyFolder
=================================================================================
