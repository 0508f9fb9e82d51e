--------------------------- MODULE MCVerifierService ---------------------------
(***************************************************************************)
(* Environments for VerifierService: the checks in use, an unknown one, no *)
(* check at all, a limit that is not positive, and an egress that fits the *)
(* cap exactly or does not.                                                *)
(***************************************************************************)
EXTENDS VerifierService

MCSettings ==
  {[checks |-> checks, limit |-> 1, egressCap |-> cap] :
     checks \in {<<"type_sniff", "ffprobe">>, <<"clamav">>}, cap \in {1, 2}}
    \cup {[checks |-> checks, limit |-> limit, egressCap |-> 2] :
            checks \in {<<"ffprobe", "typo">>, <<"typo">>, <<>>}, limit \in {0, 1}}
=============================================================================
