---------------------------- MODULE SessionCopies ----------------------------
(***************************************************************************)
(* The copies of a session: in a store, by the mirror and by an import     *)
(* (module SessionLog), or in the directory of a resume (module Resume).   *)
(* A behaviour is of one of the two; the other stays as it is.             *)
(***************************************************************************)
EXTENDS SessionLog, Resume

Resuming == plan.sessions # {}

CopiesInit == Init /\ ResumeInit /\ (Resuming <=> setup.entries = 0)
CopiesNext ==
    \/ Next /\ UNCHANGED resumeVars
    \/ Resuming /\ ResumeNext /\ UNCHANGED vars

CopiesSpec == CopiesInit /\ [][CopiesNext]_<<vars, resumeVars>>
=============================================================================
