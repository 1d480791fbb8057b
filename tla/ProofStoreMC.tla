----------------------------- MODULE ProofStoreMC -----------------------------
(***************************************************************************)
(* TLC instance of ProofStore: the server starts with key k1; the          *)
(* operators rotate to k2 and keep k1, or make one of two mistakes that    *)
(* validate_key_settings is there to refuse: k1 listed twice with          *)
(* different secrets, or listed as previous while it is current.           *)
(***************************************************************************)
EXTENDS ProofStore, TLC

K1    == [id |-> "k1", secret |-> "s1"]
K1New == [id |-> "k1", secret |-> "s3"]
K2    == [id |-> "k2", secret |-> "s2"]

MCFirst == [current |-> K1, previous |-> <<>>]
MCSettings ==
  { MCFirst,
    [current |-> K2, previous |-> <<K1>>],
    [current |-> K2, previous |-> <<K1, K1New>>],
    [current |-> K1, previous |-> <<K1New>>] }

MCSymmetry == Permutations(Exporter)
=============================================================================
