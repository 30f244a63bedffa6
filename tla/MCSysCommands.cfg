CONSTANTS
    Commands <- MCCommands
    MarshalRcs <- MCMarshalRcs
    UnmarshalRcs <- MCUnmarshalRcs

SPECIFICATION Spec

INVARIANT TypeOK
INVARIANT FlagsMatchLayout
INVARIANT ResponseBelongsToCommand

PROPERTY ContractSpec
