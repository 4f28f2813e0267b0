SPECIFICATION Spec
CONSTANTS
    Call = {c1}
    Search = {all, subset}
    Background = {sample}
    NoMatrix = NoMatrix
    SigOf <- OwnSignature
INVARIANT ScoresMatch
