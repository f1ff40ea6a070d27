CONSTANTS
    ChannelIds = {c1}
    ClientIds = {u1, u2}
    Ints <- MCIntsInRange
    LimitFlags <- MCFlagsNone
    TypeFlags <- MCFlagsSet
    ListLimitFlags = {FALSE}
    ListTypeFlags = {FALSE, TRUE}
    Texts = {t1}
    Times <- MCTimes
    Ips = {ip1, garbage}
    ValidIps = {ip1}
    Ports = {9987}
SPECIFICATION Spec
PROPERTY RefinesBookAbstract
