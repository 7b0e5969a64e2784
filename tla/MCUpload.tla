------------------------------ MODULE MCUpload ------------------------------
(* Two directories below the root, a file in one of them and two in the      *)
(* root, one of them vim's, for Upload_folder.cfg.                           *)
EXTENDS Upload

InDir == [f \in {"f", "g", "h"} |-> IF f = "f" THEN "d" ELSE "root"]
=============================================================================
