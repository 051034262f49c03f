SPECIFICATION Spec
CONSTANTS
    Group = {g, h}
    Member = {a, b}
    Message = {x, y}
    MaxAdds = 3
INVARIANTS
    IndexFits
    OrphansAreDuplicates
PROPERTIES
    ImplementsGroup
CHECK_DEADLOCK FALSE
