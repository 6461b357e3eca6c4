SPECIFICATION Spec
CONSTANTS
    m1 = m1
    create = create
    n1 = n1
    n2 = n2
    update = update
    reader = reader
    Writers <- MCWriters
    Singles <- MCSingles
    Readers <- MCReaders
    Numbered <- MCNumbered
    Migrations <- MCMigrations
    Statements <- MCStatements
    Subject <- MCSubject
    MaxLockRetries = 2
    MaxFaults = 2
    None = None
INVARIANTS
    WholeTransactions
    NumbersAreUnique
PROPERTIES
    MigratedOnce
    ImplementsAtomicStore
    EveryCallEnds
