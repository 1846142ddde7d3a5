SPECIFICATION Spec
CONSTANTS
    MaxOpen = 2
    Clients = {r1}
    MaxVersion = 1
    MaxOutages = 1
PROPERTY
    LastGoodValueServed
