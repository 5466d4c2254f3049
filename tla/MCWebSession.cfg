SPECIFICATION Spec
CONSTANTS
    Call = {c1, c2}
    Session = {s1, s2}
    Nonce = {n1, n2, n3, n4}
    Anonymous = Anonymous
    Blank = Blank
    None = None
INVARIANTS
    SettledTokenIsValid
    SettledShowsSession
SYMMETRY Names
