SPECIFICATION Spec
CONSTANTS
    s1 = s1
    s2 = s2
    r1 = r1
    r2 = r2
    Staff = {s1, s2}
    Client = Client
    Nobody = Nobody
    Request = {r1, r2}
    Appointment <- MCAppointment
    MaxLabels = 3
    MaxChanges = 2
VIEW Guarded
SYMMETRY DeskSymmetry
INVARIANTS
    WritesWereAllowed
    DeadLabelsStayDead
CHECK_DEADLOCK FALSE
