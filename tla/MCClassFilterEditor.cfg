CONSTANTS
    O = O
    Actor = Actor
    Hidden = Hidden
    B1 = B1
    B2 = B2
    B3 = B3
    Class = {O, Actor, Hidden, B1, B2, B3}
    Object = O
    Chain <- MCChain
    Blueprints = {B1, B2, B3}
    Movable = {B2}
    Base = Actor
    Internal = {Hidden}
    Searches = {B2}
    NoSearch = NoSearch
    Start <- MCStart
    MaxMarks = 2
SPECIFICATION Spec
INVARIANTS
    EachClassOnce
    ColoursTellTheBake
PROPERTIES
    TreeKeepsClasses
