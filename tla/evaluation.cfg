SPECIFICATION Spec
CONSTANTS
    pod = pod
    node = node
    Words <- MCWords
    Categories <- MCCategories
    Bases <- MCBases
    Datasets <- MCDatasets
    Outputs <- MCOutputs
    Default <- MCDefault
    MinFaithfulness <- TwoThirdsUp
    MinRelevance <- Half
CHECK_DEADLOCK FALSE
INVARIANTS
    EvaluationTypeOK VerdictOnTheWhole LongerAnswersStillPass ReportShowsTheVerdict
    CategoriesMakeUpTheAverage BillsAddUp
