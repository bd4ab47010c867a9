\* Two ids, one scope and the NULL scope of legacy receipts, in monthly windows
\* of which the first carries legacy debt.  Calls stop at LastCall; the clock
\* runs on long enough for a daily alarm followed by a lease, and for receipts
\* to be forgotten after the retention.
SPECIFICATION FairSpec
CONSTANTS
    i1 = i1  i2 = i2  s1 = s1  month = month
    Ids <- TwoIds
    Kinds <- MonthOnly
    Index <- Calendar
    Scopes <- OneScope
    NoScope = NoScope
    NoRow = NoRow
    NoAlarm = NoAlarm
    MaxMicros = 1
    MaxLimit = 2
    MaxTime = 5
    LastCall = 2
    Lease = 1
    Retention = 3
    Day = 2
    LegacySpent <- DebtInFirstWindow
INVARIANTS TypeOK AdmittedWithinLimit OnlyReceiptsPrice
PROPERTIES OpenWindowKept ReceiptSpec HoldsExpire
