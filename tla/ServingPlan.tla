------------------------------ MODULE ServingPlan ------------------------------
(***************************************************************************)
(* Which model each card of a host is to hold (serving/plan.py).           *)
(*                                                                         *)
(* A catalogue gives every model one offer, or none; the host is what      *)
(* nvidia-smi and the command line say of it.  Gigabytes are whole, and    *)
(* policy and pins come to one set of models the operator lets in.         *)
(***************************************************************************)
EXTENDS Integers, FiniteSets

CONSTANTS
    NCards,         \* the cards, in the order of their slots
    Models,         \* numbers, in the order of memory needed, then of name
    Digests,        \* artifact digests
    None,           \* no model
    CardGb,         \* memory of each card
    LetIn,          \* models, each with its digest, that policy and pins let in
    Images,         \* engines with an image on this host
    AcceptLicences  \* --accept-licences

Cards == 1..NCards
Pairs == Models \X Digests
Nothing == <<None, None>>
Holdings == [Cards -> Pairs \cup {Nothing}]

ASSUME CardsAssumption ==
    NCards \in 1..4 /\ Models \subseteq Nat /\ CardGb \in [Cards -> Nat] /\ LetIn \subseteq Pairs

\* What from_wire reads of a row: a certified system or a general model.
Offers == [digest : Digests, general : BOOLEAN, servable : BOOLEAN, format : STRING,
           class : 0..3, vram : Nat, wanted : Nat, cold : BOOLEAN]

\* The smallest of the cards that say their memory.
SmallestGb ==
    LET said == {CardGb[c] : c \in Cards} \ {0}
    IN IF said = {} THEN 0 ELSE CHOOSE gb \in said : \A other \in said : gb <= other

\* Serving classes: none, gpu_24gb, gpu_80gb, gpu_8x80gb, with 2 GB of slack.
ClassOf(gb) == IF gb + 2 >= 640 THEN 3 ELSE IF gb + 2 >= 80 THEN 2 ELSE IF gb + 2 >= 24 THEN 1 ELSE 0

BackendFor(format) ==
    CASE format = "gguf" -> "llama"
      [] format \in {"awq", "fp8", "safetensors"} -> "sglang"
      [] OTHER -> "none"

\* Certified systems bring their engine; a general model needs one of ours.
Runnable(offer) ==
    offer.general => BackendFor(offer.format) \in Images /\ ClassOf(SmallestGb) >= offer.class

\* The offers build does not skip.
Usable(offers) ==
    {m \in DOMAIN offers :
        LET offer == offers[m]
        IN /\ <<m, offer.digest>> \in LetIn /\ offer.servable
           /\ offer.general => AcceptLicences
           /\ Runnable(offer) /\ offer.vram <= SmallestGb}

\* A multiple of 1..4: shares of it are whole.
Whole == 12

\* What a model scores on a card: what it is wanted, over the cards given to it
\* so far and this one, times KEEP_MARGIN where the card holds it.
Score(offer, given, keep) == offer.wanted * (Whole \div (given + 1)) * (IF keep THEN 3 ELSE 2)

\* The key assign takes the least of, for a card that holds the model held.
Rank(m, offers, given, held, wish) ==
    LET keep == held[1] = m
    IN <<IF wish = m THEN 0 ELSE 1,
         -Score(offers[m], given[m], keep),
         IF keep THEN 0 ELSE 1,
         IF offers[m].cold THEN 0 ELSE 1,
         m>>

Less(k, l) == \E i \in 1..5 : k[i] < l[i] /\ \A j \in 1..(i - 1) : k[j] = l[j]

Chosen(usable, offers, given, held, wish) ==
    CHOOSE m \in usable : \A n \in usable \ {m} :
        Less(Rank(m, offers, given, held, wish), Rank(n, offers, given, held, wish))

\* Variant: a card counts what all cards hold, and not what this pass gave so far.
AssignByHeld(offers, holding, wished) ==
    [c \in Cards |->
        IF Usable(offers) = {} THEN Nothing
        ELSE LET m == Chosen(Usable(offers), offers, [n \in Models |-> Cardinality({d \in Cards : holding[d][1] = n})],
                             holding[c], wished[c])
             IN <<m, offers[m].digest>>]

\* assign: the cards in order, each given the model that ranks first on it.
Assign(offers, holding, wished) ==
    LET usable == Usable(offers)
        given[c \in 0..NCards] ==
            IF c = 0 THEN <<>>
            ELSE LET counts == [n \in Models |-> Cardinality({d \in 1..(c - 1) : given[c - 1][d] = n})]
                 IN [d \in 1..c |-> IF d < c THEN given[c - 1][d]
                                    ELSE Chosen(usable, offers, counts, holding[c], wished[c])]
    IN [c \in Cards |-> IF usable = {} THEN Nothing
                        ELSE <<given[NCards][c], offers[given[NCards][c]].digest>>]

\* What build lists under drop: holdings that are not what the plan wants.
Dropped(plan, holding) == {c \in Cards : holding[c] # Nothing /\ holding[c] # plan[c]}
================================================================================
