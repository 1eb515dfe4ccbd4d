SPECIFICATION Spec
CONSTANTS
    DisplayMode = {FitToWindow}
    ShareQuality = {Balanced, Sharp}
    FitToWindow = FitToWindow
    Balanced = Balanced
    Sendable <- Sent
    Native <- Browser
    Best <- VP9Best
    CodecBestQuality = CodecBestQuality
    CodecDefault = CodecDefault
    FrameRate <- Rates
    Invalid = Invalid
    None = None
INVARIANTS
    SettingsAreUsed
    CodecsArePreferred
