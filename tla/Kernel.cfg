SPECIFICATION MCSpec
CONSTANTS
    main = main
    worker = worker
    c1 = c1
    c2 = c2
    r1 = r1
    Config = Config
    Providers = Providers
    Tools = Tools
    S = S
    None = None
    Unregistered = Unregistered
    Containers <- MCContainers
    Types <- MCTypes
    Threads <- MCThreads
    Deps <- MCDeps
    MaxMade = 2
    Main <- main
    MaxBoots = 2
    Registries <- MCRegistries
    ToolIds <- MCToolIds
    Defaults <- MCDefaults
    ProvidersT <- Providers
    ToolsT <- Tools
    Lazy <- MCLazy
    Choices <- MCChoices
INVARIANTS
    TypeOK
    SingletonUnlessDisturbed
    RuntimeServicesStay
    ReportsTellOneRuntime
    QuietKernel
PROPERTIES
    ServicesStaySettled
CHECK_DEADLOCK FALSE
