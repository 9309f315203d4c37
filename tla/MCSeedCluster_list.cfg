CONSTANTS
    MaxVersion = 2
    MaxChanges = 2
SPECIFICATION Spec
PROPERTY RuntimeListIsProviders
