SPECIFICATION RotationSpec
CONSTANTS
    Tied <- MCTied
    Presences <- DustComesAndGoes
    Accrued <- MCAccrued
    Budgets = {2, 3, 4, 5, 7, 8}
INVARIANTS NoDustAhead
PROPERTIES TiedTailServed
