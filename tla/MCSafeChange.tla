---------------------------- MODULE MCSafeChange ----------------------------
(* One file that exists and one that does not; a diff that edits the first *)
(* and adds the second, and one that removes the first. Everything but the *)
(* file tools has been allowed for the session.                            *)
EXTENDS SafeChange
Symmetric == Permutations(Thread)
TwoFiles == {"f", "g"}
Existing == {"f"}
Diffs == [change |-> <<[file |-> "f", kind |-> "modify"], [file |-> "g", kind |-> "add"]>>,
          drop |-> <<[file |-> "f", kind |-> "remove"]>>]
BothDiffs == {"change", "drop"}
ChangeAndSafeDrop == {[kind |-> "apply", patch |-> "change"], [kind |-> "safe", patch |-> "drop"]}
AllKinds == {"revert", "restore", "delete", "write", "unlink"}
Allowances == {"patch.apply", "patch.revert", "checkpoint.restore", "checkpoint.delete"}
=============================================================================
