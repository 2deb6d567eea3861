\* Every component between the runtime and the browser.
SPECIFICATION Spec
CONSTANTS
    Parts = {"commands", "events", "resources", "redirected", "targets", "popups",
             "interception", "activity", "lifecycle", "offline", "stability", "geometry",
             "proxy", "managed", "service"}
INVARIANTS
    StaysInBounds
    ClientKeepsAccount
    RetentionHolds
    TargetsUnderPolicy
    
    
    OfflineEvidenceHolds
    ClipIsOnScreen
    ProxyObeysPolicy
    BrowserKeepsInstallation
PROPERTY WaitsEnd
CHECK_DEADLOCK FALSE
