----------------------------- MODULE MCModelCalls -----------------------------
(* What a program calls outside: models, one by one, held by the limits of   *)
(* their host, or in batches; and functions of a foreign bridge.  They share *)
(* nothing (a batch is not held), so that each is looked at while the others *)
(* stand still: `part' says which one runs.                                  *)
EXTENDS Limits, Batch, Bridge

VARIABLE part

callVars == <<vars, batchVars, bridgeVars, part>>

CallInit ==
    /\ Init /\ BatchInit /\ BridgeInit
    /\ part \in {"limits", "batch", "bridge"}

OfLimits(A) == part = "limits" /\ A /\ UNCHANGED <<batchVars, bridgeVars, part>>
OfBatch(A)  == part = "batch" /\ A /\ UNCHANGED <<vars, bridgeVars, part>>
OfBridge(A) == part = "bridge" /\ A /\ UNCHANGED <<vars, batchVars, part>>

CallNext == OfLimits(Next) \/ OfBatch(BatchNext) \/ OfBridge(BridgeNext)

(* The fairness of each part: see Limits and Batch.  A call of the bridge    *)
(* goes on, and its deadline comes.                                          *)
LimitsFair ==
    /\ WF_callVars(OfLimits(Tick))
    /\ \A c \in Calls : WF_callVars(OfLimits(GoOn(c))) /\ SF_callVars(OfLimits(Pass(c)))

BatchFair ==
    /\ WF_callVars(OfBatch(CollectorStep))
    /\ \A e \in Elements : WF_callVars(OfBatch(BlockGoesOn(e)))

BridgeFair == WF_callVars(OfBridge(\E c \in BridgeCalls : CallStep(c)))

CallSpec == CallInit /\ [][CallNext]_callVars /\ LimitsFair /\ BatchFair /\ BridgeFair
==============================================================================
