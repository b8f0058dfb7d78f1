------------------------------ MODULE IastEvents ------------------------------
(***************************************************************************)
(* The runtime events an IAST agent reports, and the fingerprint that      *)
(* normalize/fingerprint.py gives the finding made of one: a hash of its   *)
(* class, rule and normalized location, so many events may share it.       *)
(***************************************************************************)

CONSTANTS
  Events,        \* sink calls of the application; bounds their number
  FingerprintOf  \* FingerprintOf[v]: the fingerprint of event v

Fingerprints == {FingerprintOf[v] : v \in Events}

ASSUME EventsAssumption == FingerprintOf \in [Events -> Fingerprints]
==============================================================================
