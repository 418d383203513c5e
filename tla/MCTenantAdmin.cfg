SPECIFICATION Spec
CONSTANTS
    p1 = p1  p2 = p2  p3 = p3  e1 = e1  e2 = e2  w1 = w1  w2 = w2
    Reqs = {p1, p2, p3}
    First = First
    Emails = {e1, e2}
    Passwords = {w1, w2}
    None = None
SYMMETRY Symmetry
INVARIANTS
    NothingHalfDone
    ClosedStaysClosed
    FirstUserOnce
    MembersKnewPassword
CHECK_DEADLOCK FALSE
