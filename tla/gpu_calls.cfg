SPECIFICATION LiveSpec
CONSTANTS
    Call = {c1, c2}
    Search = {all, subset}
    Background = {sample}
    NoMatrix = NoMatrix
    SigOf <- OwnSignature
INVARIANTS TypeOK NeverCold WaitsForThisWorker
PROPERTIES EveryCallEnds CallsAdvance
