CONSTANTS
    Tabs = {t1, t2}
    MaxVersion = 3
SPECIFICATION FairSpec
INVARIANTS UpdateNoticeTrue OfflineNoticeTrue
PROPERTIES ReloadsEnd OtherAppShown
