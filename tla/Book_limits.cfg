CONSTANTS
    ChannelIds = {c1}
    ClientIds = {}
    Ints <- MCInts
    LimitFlags <- MCFlagsSet
    TypeFlags <- MCFlagsNone
    ListLimitFlags = {FALSE, TRUE}
    ListTypeFlags = {FALSE}
    Texts = {t1}
    Times <- MCTimes
    Ips = {ip1, garbage}
    ValidIps = {ip1}
    Ports = {9987}
SPECIFICATION Spec
PROPERTY RefinesBookAbstract
PROPERTY LimitedIsExact
