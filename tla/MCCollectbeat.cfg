\* A process that has returned, or that hangs since its beat failed, does nothing.
CONSTANTS
    d1 = d1  d2 = d2  Empty = Empty  custom = custom  blank = blank
    NoSettings = NoSettings  Nil = Nil  NoParts = NoParts  NoItem = NoItem
    Name = {"metrics_annotations", "metrics_secret", "log_annotations",
            "graphite_annotations", "auth", "log_path", "unknown"}
    Conf <- MCConf
    Broken <- MCBroken
    Fatal <- MCFatal
    Discoverer = {d1, d2}
    Configs <- MCConfigs
SPECIFICATION CSpec
INVARIANTS CTypeOK BuildersAsConfigured EveryBuilderAsked ReturnsAfterDiscoverers
PROPERTY StopCompletes
CHECK_DEADLOCK FALSE
