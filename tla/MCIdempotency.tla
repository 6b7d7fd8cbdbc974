--------------------------- MODULE MCIdempotency ---------------------------
(***************************************************************************)
(* Instances of Idempotency for TLC.  Attempts, workers, bodies and        *)
(* fingerprints are interchangeable; no liveness run uses the symmetry.    *)
(***************************************************************************)
EXTENDS Idempotency, TLC

MCSymmetry ==
    Permutations(Req) \cup Permutations(Worker) \cup Permutations(Hash) \cup Permutations(Fp)

AnyHeader == BOOLEAN
NoHeader == {FALSE}
=============================================================================
