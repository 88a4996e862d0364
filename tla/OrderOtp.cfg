\* two generations and two verifications at a time, two codes in all
SPECIFICATION Spec
CONSTANTS
    Generators = {g1, g2}
    Checkers = {v1, v2}
    MaxAttempts = 2
    MaxCodes = 2
SYMMETRY Alike
CONSTRAINT FewAnswers
CHECK_DEADLOCK FALSE
INVARIANTS IInv OldCodesRetired ShownCodeWorks 
