SPECIFICATION Spec
CONSTANT
    Configs <- MCSample
PROPERTIES
    SigtermStops
