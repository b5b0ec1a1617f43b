SPECIFICATION Spec
CONSTANT
    Configs <- MCSchema
INVARIANTS
    SchemaSuffices
