----------------------------- MODULE SafetyGate -----------------------------
(***************************************************************************)
(* The decisions of core/safety.py: what guard() does with a resolved      *)
(* batch, in the order of its checks, and the limit it compares with.      *)
(***************************************************************************)
EXTENDS Naturals

CONSTANTS
    BatchLimit,      \* config.batch_limits: operation -> Nat
    RequireConfirm   \* operations that need confirm=true

\* max_override or batch_limit_for(...): 0 falls back to the configuration.
limit(req) == IF req.max # 0 THEN req.max ELSE BatchLimit[req.op]

\* Mutants: without the batch limit, and without the preview.
guardUnlimited(readOnly, req, count) ==
    IF readOnly THEN "ReadOnlyMode"
    ELSE IF req.dryRun THEN "preview"
    ELSE IF req.op \in RequireConfirm /\ ~req.confirm THEN "ConfirmationRequired"
    ELSE "proceed"
guardNoPreview(readOnly, req, count) ==
    IF readOnly THEN "ReadOnlyMode"
    ELSE IF count > limit(req) THEN "BatchLimitExceeded"
    ELSE IF req.op \in RequireConfirm /\ ~req.confirm THEN "ConfirmationRequired"
    ELSE "proceed"

guardVerdict(readOnly, req, count) ==
    IF readOnly THEN "ReadOnlyMode"
    ELSE IF count > limit(req) THEN "BatchLimitExceeded"
    ELSE IF req.dryRun THEN "preview"
    ELSE IF req.op \in RequireConfirm /\ ~req.confirm THEN "ConfirmationRequired"
    ELSE "proceed"

=============================================================================
