SPECIFICATION RefreshSpec
CONSTANTS
    MaxOpen = 2
    Clients = {}
    MaxVersion = 2
    MaxOutages = 1
PROPERTIES
    PublishesInOrder
    CachesCatchUp
