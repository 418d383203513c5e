SPECIFICATION Spec
CONSTANTS
    g1 = g1  g2 = g2  g3 = g3  o1 = o1  o2 = o2  o3 = o3  o4 = o4
    A = A  B = B  C = C  D = D  E = E  X = X  tA = tA  tC = tC  tD = tD
    Pdfs = {A, B, C, D, E, X}
    Text <- MCText
    NoText = NoText
    NumericTags = {g1, g2, g3}
    PdfSuffixes = {".pdf", ".PDF"}
    Msgs = {g1, g2, g3, o1, o2, o3, o4}
    Mail <- MCMail
    NoPdf = NoPdf
    NoMsg = NoMsg
    Accepted = {A, B, C, D, E}
    MsgCap <- MCMsgCap
    AttCap = 2
    Torn = Torn
    MaxFaults = 1
    MaxRuns = 3
INVARIANTS
    FoldersConsistent
    CleanRunsSuffice
    MergedIsComplete
PROPERTIES
    NothingIsLost
CHECK_DEADLOCK FALSE
