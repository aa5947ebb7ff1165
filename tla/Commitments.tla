------------------------------ MODULE Commitments ------------------------------
(***************************************************************************)
(* What a hotkey writes into its one commitment slot on chain              *)
(* (chain/commitment.py), and how a reader of the chain turns all slots     *)
(* into candidates (validator/collect.py) and orders them                  *)
(* (validator/duplicates.py).                                              *)
(*                                                                         *)
(* A payload is the tuple of its fields, a field an opaque token; Value     *)
(* says which tokens int() reads, Bytes how long a token is.                *)
(***************************************************************************)
EXTENDS Integers, Sequences, FiniteSets, SequencesExt

CONSTANTS Arenas, Users, Shas, Salts, Profiles, Tracks, Sources, Keys, Shorts, Hashes, \* tokens each pattern accepts
          Value,             \* tokens int() reads -> their number
          Bytes(_),          \* length of a token
          SealDigest(_, _, _, _),
          MaxBytes,
          HotkeyOrder        \* the hotkeys, sorted

Hotkeys == Range(HotkeyOrder)
Digests == {SealDigest(a, u, r, s) : a \in Arenas, u \in Users, r \in Shas, s \in Salts}
Text(n) == CHOOSE t \in DOMAIN Value : Value[t] = n
Refused == [kind |-> "none"]      \* CommitmentError, and what decode answers with None
TooLong == <<>>                   \* CommitmentError of encode

Size(payload) ==
    LET size[n \in 0..Len(payload)] == IF n = 0 THEN Len(payload) - 1 ELSE size[n - 1] + Bytes(payload[n])
    IN  size[Len(payload)]
Capped(payload) == IF Size(payload) > MaxBytes THEN TooLong ELSE payload

-----------------------------------------------------------------------------
(* The submission of an arena: open, and sealed. *)

Reference(block, index) == block >= 0 /\ index >= 0
KnownProfile(profile) == profile = "" \/ profile \in Profiles

Submission(arena, user, sha, block, index, profile) ==
    IF /\ arena \in Arenas /\ user \in Users /\ sha \in Shas
       /\ Reference(block, index) /\ KnownProfile(profile)
    THEN [kind |-> "open", arena |-> arena, user |-> user, sha |-> sha,
          block |-> block, index |-> index, profile |-> profile]
    ELSE Refused

Sealed(arena, digest, block, index, profile) ==
    IF /\ arena \in Arenas /\ digest \in Digests
       /\ Reference(block, index) /\ KnownProfile(profile)
    THEN [kind |-> "sealed", arena |-> arena, digest |-> digest,
          block |-> block, index |-> index, profile |-> profile]
    ELSE Refused

Seal(arena, user, sha, salt, block, index, profile) ==
    IF user \notin Users \/ sha \notin Shas \/ salt \notin Salts THEN Refused
    ELSE Sealed(arena, SealDigest(arena, user, sha, salt), block, index, profile)

Matches(sealed, user, sha, salt) == SealDigest(sealed.arena, user, sha, salt) = sealed.digest
Unseal(sealed, user, sha) ==
    Submission(sealed.arena, user, sha, sealed.block, sealed.index, sealed.profile)

Tagged(plain, profiled, body, c) ==
    (IF c.profile = "" THEN <<plain>> \o body ELSE <<profiled>> \o body \o <<c.profile>>)
        \o <<Text(c.block), Text(c.index)>>

EncodeOpen(c) == Capped(Tagged("mt2", "mt4", <<c.arena, c.user, c.sha>>, c))
EncodeSealed(c) == Tagged("mt3", "mt5", <<c.arena, c.digest>>, c)     \* the length is not checked
Encode(c) == IF c.kind = "open" THEN EncodeOpen(c) ELSE EncodeSealed(c)

\* The fields of a payload with and without a profile: body fields, then the profile, then the fee.
Parsed(raw, plain, profiled, body) ==
    IF raw # <<>> /\ raw[1] = plain /\ Len(raw) = body + 3
    THEN [profile |-> "", block |-> raw[body + 2], index |-> raw[body + 3]]
    ELSE IF raw # <<>> /\ raw[1] = profiled /\ Len(raw) = body + 4
    THEN [profile |-> raw[body + 2], block |-> raw[body + 3], index |-> raw[body + 4]]
    ELSE [block |-> "none"]
Reads(fields) == fields.block \in DOMAIN Value /\ fields.index \in DOMAIN Value

DecodeOpen(raw) ==
    LET f == Parsed(raw, "mt2", "mt4", 3)
    IN  IF f.block # "none" /\ Reads(f)
        THEN Submission(raw[2], raw[3], raw[4], Value[f.block], Value[f.index], f.profile)
        ELSE Refused

DecodeSealed(raw) ==
    LET f == Parsed(raw, "mt3", "mt5", 2)
    IN  IF f.block # "none" /\ Reads(f)
        THEN Sealed(raw[2], raw[3], Value[f.block], Value[f.index], f.profile)
        ELSE Refused

-----------------------------------------------------------------------------
(* The submission of a round, and the key that replaces it in the slot. *)

RoundCommitment(round, track, class, digest, source, sealed) ==
    IF round >= 0 /\ track \in Tracks /\ class \in Tracks /\ digest \in Shorts /\ source \in Sources
    THEN [kind |-> "round", round |-> round, track |-> track, class |-> class,
          digest |-> digest, source |-> source, sealed |-> sealed]
    ELSE Refused

EncodeRound(c) ==
    Capped(<<"mt1", Text(c.round), c.track, c.class, c.digest, c.source>> \o (IF c.sealed THEN <<"k">> ELSE <<>>))

DecodeRound(raw) ==
    IF /\ Len(raw) \in {6, 7} /\ raw[1] = "mt1" /\ raw[2] \in DOMAIN Value
       /\ Len(raw) = 7 => raw[7] = "k"
    THEN RoundCommitment(Value[raw[2]], raw[3], raw[4], raw[5], raw[6], Len(raw) = 7)
    ELSE Refused

RoundKey(round, digest, key, hash) ==
    IF round >= 0 /\ digest \in Shorts /\ key \in Keys /\ (hash = "" \/ hash \in Hashes)
    THEN [kind |-> "key", round |-> round, digest |-> digest, key |-> key, hash |-> hash]
    ELSE Refused

EncodeKey(c) ==
    Capped(<<"mtr", Text(c.round), c.digest, c.key>> \o (IF c.hash = "" THEN <<>> ELSE <<c.hash>>))

DecodeKey(raw) ==
    IF Len(raw) \in {4, 5} /\ raw[1] = "mtr" /\ raw[2] \in DOMAIN Value
    THEN RoundKey(Value[raw[2]], raw[3], raw[4], IF Len(raw) = 5 THEN raw[5] ELSE "")
    ELSE Refused

-----------------------------------------------------------------------------
(* All slots of an arena, read by one validator. *)

Rank(h) == CHOOSE k \in DOMAIN HotkeyOrder : HotkeyOrder[k] = h

\* The slots that decode; a sealed one only with values on the roster that open it.
Decoded(slots, roster) ==
    [h \in DOMAIN slots |->
        LET sealed == DecodeSealed(slots[h])
        IN  IF sealed = Refused THEN DecodeOpen(slots[h])
            ELSE IF h \notin DOMAIN roster \/ roster[h].state # "unsealed" THEN Refused
            ELSE IF ~Matches(sealed, roster[h].user, roster[h].sha, roster[h].salt) THEN Refused
            ELSE Unseal(sealed, roster[h].user, roster[h].sha)]

\* candidates(): of the slots in time, in the order of their commit blocks, then hotkeys,
\* those whose fee none before them cites; a slot whose block is unknown is too late.
Candidates(slots, roster, blocks, arena, closes) ==
    LET decoded == Decoded(slots, roster)
        At(h) == IF h \in DOMAIN blocks THEN blocks[h] ELSE closes
        Before(g, h) == At(g) < At(h) \/ (At(g) = At(h) /\ Rank(g) < Rank(h))
        Fee(h) == <<decoded[h].block, decoded[h].index>>
        InTime == {h \in DOMAIN slots : /\ decoded[h] # Refused /\ decoded[h].arena = arena
                                        /\ At(h) < closes /\ h \in DOMAIN roster}
    IN  {h \in InTime : ~\E g \in InTime : Before(g, h) /\ Fee(g) = Fee(h)}

\* commit_positions(): only blocks holding two commits are read, and a block counts
\* only when the place of every one of them was read.
\* Variant: the places that were read count, each for itself.
PlacesRead(blocks, places) ==
    [h \in {h \in DOMAIN blocks : places[h] >= 0 /\ blocks[h] > 0} |-> places[h]]

Positions(blocks, places) ==
    LET With(h) == {g \in DOMAIN blocks : blocks[g] = blocks[h]}
        Read(h) == /\ blocks[h] > 0 /\ Cardinality(With(h)) > 1
                   /\ \A g \in With(h) : places[g] >= 0
    IN  [h \in {h \in DOMAIN blocks : Read(h)} |-> places[h]]

\* commit_order(): unknown blocks last, then block, place in it, hotkey.
CommitKey(blocks, places, h) ==
    LET positions == Positions(blocks, places)
    IN  << IF blocks[h] <= 0 THEN 1 ELSE 0, blocks[h], IF h \in DOMAIN positions THEN positions[h] ELSE 0, Rank(h) >>
KeyBefore(key, other) ==
    \E k \in 1..4 : key[k] < other[k] /\ \A j \in 1..(k - 1) : key[j] = other[j]

\* sorted(): the members of a set by the pairs of which the first comes before the second.
SortedBy(members, before) ==
    LET place(h) == Cardinality({g \in members : <<g, h>> \in before}) + 1
    IN  [k \in 1..Cardinality(members) |-> CHOOSE h \in members : place(h) = k]

CommitOrder(blocks, places) ==
    LET hotkeys == DOMAIN blocks
        key == [h \in hotkeys |-> CommitKey(blocks, places, h)]
    IN  SortedBy(hotkeys, {p \in hotkeys \X hotkeys : KeyBefore(key[p[1]], key[p[2]])})
=============================================================================
