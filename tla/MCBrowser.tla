----------------------------- MODULE MCBrowser -----------------------------
(* A small instance of BrowserApp: two identities, two things to check, and *)
(* an answer that is shareable, one with an unavailable commit.             *)
EXTENDS BrowserApp, TLC

CONSTANTS f1, f2

MCCaller == Flow \cup {Job, Again}
MCVerdict ==
    {[repository |-> "CONFIRMED", commit |-> "CONFIRMED", file |-> "NOT REQUESTED"],
     [repository |-> "CONFIRMED", commit |-> "UNAVAILABLE", file |-> "NOT REQUESTED"]}
MCSymmetry == Permutations(Flow) \cup Permutations(Did) \cup Permutations(Check)
=============================================================================
