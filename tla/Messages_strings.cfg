SPECIFICATION Spec
CHECK_DEADLOCK FALSE
CONSTANTS
    Deliveries <- StringArrays
    CxxTypes <- AllTypes
    Values <- AllValues
    Generated <- GeneratedTypes
    Readables <- AllReadables
    Plains <- AllPlains
    NoHolder = NoHolder
    Writers = {"author"}
    Orders = {"leftToRight"}
    Holders = {h1, h2}
    h1 = h1
    h2 = h2
    Storables <- Numbers
    LoadTypes <- Loads
    MaxAppends = 1
INVARIANTS
    StringArraysAreRead
