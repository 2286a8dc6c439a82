SPECIFICATION Spec
CONSTANTS
    Base = 4
    Width = 4
    N = 137
    g = 7
    Passwords = {1, 2}
    Salts = {0, 1, 2, 3}
    Secrets <- ToySecrets
    HashX <- ToyX
    HashU <- ToyU
INVARIANT SizesCorrect
