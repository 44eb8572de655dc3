--------------------------- MODULE MCEvidenceStore ---------------------------
(* Small instances of EvidenceStore for TLC. *)
EXTENDS EvidenceStoreProperties, TLC

CONSTANTS lower, upper, exact, fine, other

(* "upper" spells the key "lower" in upper case; "fine" is "exact" with a   *)
(* received_at below the microsecond, "other" different content.            *)
LowerCased == [k \in KeyTexts |-> IF k = upper THEN lower ELSE k]
Truncated == [m \in Metadata |-> IF m = fine THEN exact ELSE m]

(* Calls on prepared connections are alike. *)
CallSymmetry == Permutations(PackageIDs) \cup Permutations(AssertedCalls)
=============================================================================
