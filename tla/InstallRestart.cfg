SPECIFICATION Spec
CONSTANTS
    Version <- ThreeVersions
    NoVersion = none
    Events = {"fault", "truncated", "stat", "remove", "restart"}
    v1 = v1
    v2 = v2
    v3 = v3
    none = none
INVARIANTS
    LinkedVersionExists
    FailedInstallForgotten
PROPERTIES
    VersionsSpec
