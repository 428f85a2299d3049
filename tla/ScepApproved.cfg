\* What the help text says of the Approve button.
CONSTANTS
    Transactions = {t1}
    Keys = {k1}
    Certificates = {c1}
    Passwords = {w1}
    None = None
SPECIFICATION ScepSpec
INVARIANT
    ApprovedIsIssued
CHECK_DEADLOCK FALSE
