------------------------------- MODULE MCIdap -------------------------------
(***************************************************************************)
(* Instances of Idap for TLC: the capability bodies and the request         *)
(* variants of each run.                                                   *)
(***************************************************************************)
EXTENDS Idap, TLC

OneShot == [s1 |-> "ticket", action |-> "purchase", permits |-> {"trip"},
            overflows |-> {"huge trip"}, sequence |-> NoSequence, endorsed |-> TRUE, stamp |-> "aware",
            lifetime |-> 0, quota |-> 1]
TwoShot   == [OneShot EXCEPT !.quota = 2, !.lifetime = 1]
Forged    == [OneShot EXCEPT !.endorsed = FALSE]
Zoneless  == [OneShot EXCEPT !.stamp = "naive"]
Exhausted == [OneShot EXCEPT !.quota = 0]

Sealed == [sealed |-> TRUE, receiver |-> "ticket", target |-> "ticket",
           action |-> "purchase", payload |-> "trip", sequence |-> NoSequence,
           signed |-> TRUE, ephemeral |-> "valid"]
NoEphemeral  == [Sealed EXCEPT !.ephemeral = "missing"]
BadEphemeral == [Sealed EXCEPT !.ephemeral = "malformed"]
Misdelivered == [Sealed EXCEPT !.receiver = "payment"]
Altered      == [Sealed EXCEPT !.payload = "hotel"]
Overpriced   == [Sealed EXCEPT !.payload = "huge trip"]
Clear        == [Sealed EXCEPT !.sealed = FALSE, !.receiver = NoKey]

SerialContents == {OneShot, TwoShot, Forged, Zoneless, Exhausted}
SerialVariants == {Sealed, NoEphemeral, BadEphemeral, Misdelivered, Altered, Overpriced}

ThreadContents == {OneShot, TwoShot}
ThreadVariants == {Sealed, BadEphemeral, Clear}

ThreadSymmetry == Permutations(Workers) \cup Permutations(Nonces)
NonceSymmetry == Permutations(Nonces)
=============================================================================
