------------------------------ MODULE MCCalls -------------------------------
(***************************************************************************)
(* The reindex job of the server, and the calls of the OCR client, which   *)
(* both must end.  They share no variables, so each behaviour follows one  *)
(* of them, chosen at the start: the sum of the state spaces, not their    *)
(* product.                                                                *)
(***************************************************************************)
EXTENDS ReindexJob, OcrClient

VARIABLE focus

callsVars == <<vars, ocrVars, focus>>

CallsInit == Init /\ OcrInit /\ focus \in {"job", "ocr"}

CallsNext ==
  \/ focus = "job" /\ Next /\ UNCHANGED <<ocrVars, focus>>
  \/ focus = "ocr" /\ OcrNext /\ UNCHANGED <<vars, focus>>

(* No fair action of either is enabled in its initial state.               *)
CallsSpec == CallsInit /\ [][CallsNext]_callsVars /\ JobFairness /\ OcrFairness
=============================================================================
