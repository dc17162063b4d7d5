SPECIFICATION FairSpec
CONSTANTS
    a = a  b = b  c = c
    Units = {a, b, c}
    Plans <- FewPlans
    Observable = {a, b}
    MaxEvents = 5
INVARIANTS BooksAgree
PROPERTIES OwnershipKept CallsRecover
CHECK_DEADLOCK FALSE
