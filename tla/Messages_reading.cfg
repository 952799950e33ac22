SPECIFICATION Spec
CHECK_DEADLOCK FALSE
CONSTANTS
    Deliveries <- AllDeliveries
    CxxTypes <- AllTypes
    Values <- AllValues
    Generated <- GeneratedTypes
    Readables <- AllReadables
    Plains <- AllPlains
    NoHolder = NoHolder
    Writers = {"author", "generator"}
    Orders = {"leftToRight", "rightToLeft"}
    Holders = {h1, h2}
    h1 = h1
    h2 = h2
    Storables <- Numbers
    LoadTypes <- Loads
    MaxAppends = 1
INVARIANTS
    TypeOK
    ReadableParametersArrive
    CalledAtTheEnd
PROPERTIES
    VariantsAreRereadable
    CopiesAreWhole
    OnlyThrowsAndAppendsMoveVariants
    AppendsAreBare
SYMMETRY Symmetry
