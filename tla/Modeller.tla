-------------------------------- MODULE Modeller --------------------------------
(***************************************************************************)
(* The modeller as a whole: the editor's store and pages, and the pure     *)
(* functions on expressions and definitions.  The functions keep no state  *)
(* of their own, so a behaviour is that of one part, which Init chooses,   *)
(* with the other at rest.                                                 *)
(***************************************************************************)
EXTENDS ModellerEditor, ModellerChecks

VARIABLE part

modellerVars == <<part, vars, checksVars>>

ChecksAtRest == input = [kind |-> "none"] /\ output = Nothing

ModellerInit ==
    /\ Init
    /\ \/ part = "editor" /\ ChecksAtRest
       \/ part = "checks" /\ ChecksInit

ModellerNext ==
    \/ part = "editor" /\ Next /\ UNCHANGED <<part, checksVars>>
    \/ part = "checks" /\ ChecksNext /\ UNCHANGED <<part, vars>>

\* The fairness of FairSpec, for the part that runs.
ModellerFairness ==
    WF_modellerVars(/\ part = "editor"
                    /\ UploadSucceeds \/ UploadRejected \/ UploadFails
                    /\ UNCHANGED <<part, checksVars>>)

ModellerSpec == ModellerInit /\ [][ModellerNext]_modellerVars /\ ModellerFairness
================================================================================
