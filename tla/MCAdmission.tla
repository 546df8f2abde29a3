---------------------------- MODULE MCAdmission ----------------------------
(***************************************************************************)
(* Small instances of Admission.                                           *)
(***************************************************************************)
EXTENDS Admission
=============================================================================
