SPECIFICATION KeysSpec
CONSTANTS
    Devices = {d1, d2}
    MaxPasswords = 1
SYMMETRY DeviceSymmetry
PROPERTY PublicKeyKept
