----------------------------- MODULE MCWindows -----------------------------
(* A few windows and pages, with addresses that are used again. *)
EXTENDS Windows, TLC

Symmetry == Permutations(Windows) \cup Permutations(Pages)
              \cup Permutations(PreferencesWindows)
=============================================================================
