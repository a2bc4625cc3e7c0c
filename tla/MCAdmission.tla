---------------------------- MODULE MCAdmission ----------------------------
(***************************************************************************)
(* Instances of Admission for TLC.                                         *)
(***************************************************************************)
EXTENDS Admission

CONSTANTS u1, u2, u3, i1

\* Units differ in nothing but what they ask for, which any of them may: what
\* holds of one holds of each, and one is quicker to check.
UnitAdmitted == EventuallyAdmitted(u1)
=============================================================================
