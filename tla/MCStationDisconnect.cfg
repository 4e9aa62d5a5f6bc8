SPECIFICATION Spec
CONSTANTS
    Bsses = {1, 2, 3}
    NetworkOf <- MCNetworkOf
    Envs <- DisconnectEnvs
PROPERTIES
    NoUnaskedConnect
CHECK_DEADLOCK FALSE
