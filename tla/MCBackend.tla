----------------------------- MODULE MCBackend -----------------------------
(* The backend, and the installations that a connect may have to make       *)
(* before it is asked: they share no variable, and each behaviour is one of *)
(* the two.                                                                 *)
EXTENDS Backend, Provision
VARIABLE part

TheProvision == ProvisionInit /\ kind = "deb"
TheBackend == BackendInit /\ default = "DIRECT" /\ port = "off"

MCInit ==
    /\ part \in {"backend", "provision"}
    /\ IF part = "backend" THEN BackendInit ELSE TheBackend
    /\ IF part = "provision" THEN ProvisionInit ELSE TheProvision
MCNext ==
    /\ UNCHANGED part
    /\ \/ part = "backend" /\ BackendNext /\ UNCHANGED provisionVars
       \/ part = "provision" /\ ProvisionNext /\ UNCHANGED backendVars
MCSpec == MCInit /\ [][MCNext]_<<part, backendVars, provisionVars>>
=============================================================================
