\* Plugins that send before they are listened to.
CONSTANTS
    a = a
    b = b
    c = c
    None = None
    Plugins = {a, b, c}
    pluginSpecs <- ByName
    HashOrders <- Orders
    Configurations <- SomeConfigurations
    SendsEarly = TRUE
    MaxStarts <- OneStart
SPECIFICATION Spec
INVARIANT WaitsForPluginsOnly
CHECK_DEADLOCK FALSE
