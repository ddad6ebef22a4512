SPECIFICATION Spec
CONSTANTS
    Writers <- MCWriters
    Readers = {r1, r2}
    Offers <- MCOffers
    Bootstrap <- MCBootstrap
INVARIANTS
    TypeOK
    CounterTrailsPointer
    ReaderSkewBounded
PROPERTIES
    NeverRollsBack
    ImplementsRegister
