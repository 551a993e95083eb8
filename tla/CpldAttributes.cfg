SPECIFICATION FairSpec
CONSTANTS
    Users = {u1, u2}
    NoUser = none
    Settable = {lpmode}
    ReadOnly = {modprs, vers}
    OneByte = {vers}
    Bytes = {0, 1}
    Version = 1
PROPERTIES QuietGetIsExact QuietSetTakesEffect EveryCallReturns
