------------------------------- MODULE MCImport -------------------------------
(* Instances of Import for TLC. *)
EXTENDS Import

(* Every order of up to three different certificates. *)
Orders ==
    {list \in UNION {[1 .. n -> CertNames] : n \in 1 .. 3} :
        \A j, k \in DOMAIN list : list[j] = list[k] => j = k}
=============================================================================
