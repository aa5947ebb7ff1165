---------------------------- MODULE MCHostEngines ----------------------------
EXTENDS HostEngines
CONSTANTS d1, d2, k1, k2, k3, k4

TwoCards == <<24, 32>>
LlamaOnly == {"llama"}
All == Models \X Digests

\* A general model, for a class and a format, and a certified system.
General(digest, format, class, wanted) ==
    [digest |-> digest, general |-> TRUE, servable |-> TRUE, format |-> format, class |-> class,
     vram |-> 20, wanted |-> wanted, cold |-> FALSE]
Certified(wanted, cold) ==
    [digest |-> d1, general |-> FALSE, servable |-> TRUE, format |-> "", class |-> 0,
     vram |-> 22, wanted |-> wanted, cold |-> cold]

\* Model 1 is wanted on both cards, moves to another manifest, is no longer
\* servable here; model 2 is certified.
SomeCatalogues ==
    {<<General(d1, "gguf", 1, 4), Certified(1, FALSE)>>,
     <<General(d2, "gguf", 1, 4), Certified(3, TRUE)>>,
     <<General(d1, "awq", 2, 9), Certified(1, FALSE)>>}

SomeWishes == {[c \in Cards |-> None], [c \in Cards |-> IF c = 1 THEN 2 ELSE None]}

WrongManifest == {<<1, d2>>}
==============================================================================
