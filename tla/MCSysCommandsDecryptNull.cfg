CONSTANTS
    Commands <- MCCommands
    MarshalRcs <- MCMarshalRcs
    UnmarshalRcs <- MCUnmarshalRcs

SPECIFICATION Spec

INVARIANT DecryptNullWhenFirstNull
