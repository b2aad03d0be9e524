-------------------------- MODULE MCChromeAttachment --------------------------
(* A small instance of ChromeAttachment with its SessionProfiles: two
   processes, two saves, two launches of Chrome.                            *)
EXTENDS ChromeAttachment, TLC

CONSTANTS w1, w2
MCWorkers == {w1, w2}
MCSymmetry == Permutations(MCWorkers)
=============================================================================
