SPECIFICATION Spec
CONSTANTS
    Outpoints = {o1, o2}
    Coins = {c1, c2}
    Spent = Spent
    Absent = Absent
INVARIANT FlagsRight
PROPERTY Implements
